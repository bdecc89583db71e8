--------------------------- MODULE MCCommandLine ---------------------------
(***************************************************************************)
(* CommandLine for TLC: what the instrument may report.                    *)
(***************************************************************************)
EXTENDS CommandLine

Current      == [words |-> <<"current">>, unit |-> "a"]
ZCtrlShift   == [words |-> <<"z", "ctrl", "shift">>, unit |-> "m"]
OcM1Freq     == [words |-> <<"oc", "m1", "freq.", "shift">>, unit |-> "hz"]
PlainFreq    == [words |-> FreqShift, unit |-> "hz"]

\* The frequency shift by its alias or by its very name, with a channel,
\* without one, as the only signal, not at all.
MCReports ==
  { 0 :> Current @@ 5 :> ZCtrlShift @@ 76 :> OcM1Freq,
    5 :> PlainFreq @@ 76 :> OcM1Freq,
    0 :> Current @@ 40 :> OcM1Freq,
    40 :> OcM1Freq,
    0 :> Current }

\* No configured channels; the frequency shift on a channel
\* below that of a signal with a lower index.
MCMappings == {<< >>, 76 :> 3}

MCInside == {}

MCLetter ==
     "current" :> "c" @@ "z" :> "z" @@ "ctrl" :> "c" @@ "shift" :> "s"
  @@ "oc" :> "o" @@ "m1" :> "m" @@ "freq." :> "f" @@ "freq" :> "f"

MCDisplacements == {<< >>, <<"x", "y", "z">>, <<"x", "z">>}
=============================================================================
