--------------------------- MODULE SignalRegistry ---------------------------
(***************************************************************************)
(* The table that answers a signal's name with its index and its channel   *)
(* in the TCP data stream (src/signal_registry.rs).                        *)
(*                                                                         *)
(* A name is the sequence of its lower-case words and a unit, "" for none: *)
(* "OC M1 Freq. Shift (Hz)" is [words |-> <<"oc", "m1", "freq.",           *)
(* "shift">>, unit |-> "hz"].  A key of the table is a name.  The lookup   *)
(* ignores case, and so do names here.                                     *)
(***************************************************************************)
EXTENDS Integers, FiniteSets, SequencesExt, Functions

CONSTANTS
  Inside,  \* the pairs <<p, w>> where the word p is a part of the longer word w
  Letter   \* the first letter of each word of more than one

NoChannel == -1

Named(words) == [words |-> words, unit |-> ""]

\* Up to "(", trimmed.
CleanName(name) == Named(name.words)

\* Nanonis indices to TCP channels.
StandardMap ==
  [i \in 0 .. 7 \cup 24 .. 31 \cup 74 .. 81 |->
     CASE i <= 7 -> i [] i \in 24 .. 31 -> i - 16 [] OTHER -> i - 58]

\* with_standard_map, then add_tcp_map.
TcpMap(configured) ==
  [i \in DOMAIN configured \cup DOMAIN StandardMap |->
     IF i \in DOMAIN configured THEN configured[i] ELSE StandardMap[i]]

\* Indices are cast to u8.
SignalOf(names, i, tcp) ==
  [name |-> names[i], index |-> i % 256,
   channel |-> IF i % 256 \in DOMAIN tcp THEN tcp[i % 256] ELSE NoChannel]

\* from_signal_names: under the full and under the clean name, the last wins.
FromSignalNames(names, tcp) ==
  LET KeysOf(i) == {names[i], CleanName(names[i])}
  IN  [key \in UNION {KeysOf(i) : i \in DOMAIN names} |->
         SignalOf(names, Max({i \in DOMAIN names : key \in KeysOf(i)}), tcp)]

-----------------------------------------------------------------------------
(***************************************************************************)
(* generate_signal_aliases.                                                *)
(***************************************************************************)
AliasPatterns ==
  {<<<<"current">>, {<<"i">>, <<"cur">>, <<"amp">>}>>,
   <<<<"bias">>, {<<"u">>, <<"voltage">>, <<"v">>}>>,
   <<<<"x">>, {<<"x", "pos">>, <<"x", "position">>, <<"xpos">>}>>,
   <<<<"y">>, {<<"y", "pos">>, <<"y", "position">>, <<"ypos">>}>>,
   <<<<"z">>, {<<"z", "pos">>, <<"z", "position">>, <<"zpos">>, <<"height">>}>>,
   <<<<"oc", "m1", "freq.", "shift">>,
     {<<"freq", "shift">>, <<"frequency", "shift">>, <<"df">>, <<"oc", "freq", "shift">>}>>,
   <<<<"oc", "m1", "amplitude">>, {<<"amplitude">>, <<"amp">>, <<"oc", "amp">>}>>,
   <<<<"oc", "m1", "phase">>, {<<"phase">>, <<"oc", "phase">>}>>,
   <<<<"li", "demod", "1", "x">>, {<<"li1x">>, <<"demod1x">>, <<"x1">>}>>,
   <<<<"li", "demod", "1", "y">>, {<<"li1y">>, <<"demod1y">>, <<"y1">>}>>,
   <<<<"li", "demod", "2", "x">>, {<<"li2x">>, <<"demod2x">>, <<"x2">>}>>,
   <<<<"li", "demod", "2", "y">>, {<<"li2y">>, <<"demod2y">>, <<"y2">>}>>,
   <<<<"z", "ctrl", "shift">>, {<<"z", "shift">>, <<"zshift">>}>>,
   <<<<"frequency">>, {<<"freq">>, <<"f">>}>>,
   <<<<"amplitude">>, {<<"amp">>, <<"a">>}>>,
   <<<<"phase">>, {<<"ph">>}>>,
   <<<<"shift">>, {<<"sh">>}>>}

MatchesWord(p, w) == p = w \/ <<p, w>> \in Inside

ContainsPattern(words, pattern) ==
  \E k \in 0 .. Len(words) - Len(pattern) :
    \A j \in DOMAIN pattern :
      IF Len(pattern) = 1 THEN MatchesWord(pattern[j], words[k + j]) ELSE pattern[j] = words[k + j]

Removed == {"the", "signal", "channel", "ch", "ctrl", "control"}

\* The words are erased, the blanks around them stay: an empty word.  (The code
\* also erases them inside of longer words; no name used here has such a word.)
Abbreviated(words) ==
  LET erased   == [i \in DOMAIN words |-> IF words[i] \in Removed THEN "" ELSE words[i]]
      kept     == {i \in DOMAIN erased : erased[i] # ""}
  IN  IF kept = {} THEN << >>
      ELSE SubSeq(erased, CHOOSE i \in kept : \A k \in kept : i <= k,
                          CHOOSE i \in kept : \A k \in kept : k <= i)

Initials(words) == <<FoldLeft(LAMBDA s, w : s \o Letter[w], "", words)>>

PatternAliases(words) == UNION {p[2] : p \in {q \in AliasPatterns : ContainsPattern(words, q[1])}}

Aliases(words) ==
  PatternAliases(words) \cup ({Abbreviated(words)} \ {words, << >>})
    \cup (IF Len(words) > 1 THEN {Initials(words)} ELSE {})

\* A plausible bug: an alias replaces a reported name.
CreateAliases_Overwriting(table, key) ==
  LET claims == {s \in Range(table) : key \in {Named(a) : a \in Aliases(s.name.words)}}
  IN  IF claims # {} THEN claims ELSE IF key \in DOMAIN table THEN {table[key]} ELSE {}

\* What a key of the finished table may stand for.  An alias is never put in
\* place of a reported name; of the signals that claim it the last in the
\* order of the hash map wins, which may be any of them.
CreateAliases(table, key) ==
  IF key \in DOMAIN table THEN {table[key]}
  ELSE {s \in Range(table) : key \in {Named(a) : a \in Aliases(s.name.words)}}

\* tcp_signals.
TcpSignals(table) == {s \in Range(table) : s.channel # NoChannel}
=============================================================================
