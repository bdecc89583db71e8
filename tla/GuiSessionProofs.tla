-------------------------- MODULE GuiSessionProofs --------------------------
(***************************************************************************)
(* Proofs about GuiSession, for any bound on the channel.                  *)
(***************************************************************************)
EXTENDS GuiSession, TLAPS

\* A run is shown as running exactly while its thread has not been joined.
ShownWhileAlive == worker # "none" <=> status = "running"

\* How the run ended is known exactly when its thread has ended.
EndingIsCurrent ==
  /\ worker \in {"setup", "running"} => ending = "none"
  /\ worker = "ended" => ending # "none"

\* "stable" is announced last: only an accepted run follows it.
StableIsLast == phase = "stable" /\ worker # "running" => ending = "completed"

\* What the GUI has seen, or is going to see, was announced by this run.
SeenIsAnnounced ==
  seen = "stable" \/ (\E i \in 1 .. Len(channel) : channel[i] = "stable") => phase = "stable"

IInv ==
  /\ TypeOK /\ SingleRun /\ HonestStatus
  /\ ShownWhileAlive /\ EndingIsCurrent /\ StableIsLast /\ SeenIsAnnounced

\* What the channel holds after an event is appended, and which event draining it
\* leaves last.
LEMMA ChannelOperations ==
  ASSUME NEW T, NEW c \in Seq(T), NEW e \in T
  PROVE  /\ Append(c, e) \in Seq(T)
         /\ Len(Append(c, e)) = Len(c) + 1
         /\ \A i \in 1 .. Len(Append(c, e)) :
              Append(c, e)[i] = e \/ (i \in 1 .. Len(c) /\ Append(c, e)[i] = c[i])
         /\ c # << >> => Last(c) \in T /\ \E i \in 1 .. Len(c) : Last(c) = c[i]
<1>1. c # << >> => Len(c) \in 1 .. Len(c)
  OBVIOUS
<1>2. c # << >> => Last(c) \in T /\ \E i \in 1 .. Len(c) : Last(c) = c[i]
  BY <1>1 DEF Last
<1>3. QED
  BY <1>2

\* Every reachable state satisfies the inductive invariant: "completed" can be
\* shown only from a phase of the run that is being joined, which is why Start
\* must replace the channel and clear the phase.
THEOREM Invariant == Spec => []IInv
<1> USE DEF IInv, TypeOK, SingleRun, HonestStatus, ShownWhileAlive, EndingIsCurrent,
        StableIsLast, SeenIsAnnounced, Phases, Outcomes
<1>. DEFINE NoEvents == << >> \in Seq(Phases) /\ Len(<< >>) <= MaxQueue
                         /\ ~(\E i \in 1 .. Len(<< >>) : TRUE)
<1>0. NoEvents
  BY GuiAssumption
<1>1. Init => IInv
  BY <1>0, Zenon DEF Init
<1>2. IInv /\ [Next]_vars => IInv'
  <2> SUFFICES ASSUME IInv, [Next]_vars PROVE IInv'
    OBVIOUS
  <2>1. CASE Setup
    BY <2>1 DEF Setup, EndWith, gui
  <2>2. CASE Announce
    <3>1. phase' \in Phases /\ (phase' = "stable" \/ phase # "stable")
      BY <2>2 DEF Announce, Following
    <3>2. channel' \in Seq(Phases) /\ Len(channel') <= MaxQueue
      BY <2>2, <3>1, ChannelOperations, GuiAssumption DEF Announce
    <3>3. SeenIsAnnounced'
      BY <2>2, <3>1, ChannelOperations DEF Announce, gui, Following
    <3>4. QED
      BY <2>2, <3>1, <3>2, <3>3 DEF Announce, gui
  <2>3. ASSUME NEW e \in Outcomes, EndRun(e) PROVE IInv'
    BY <2>3 DEF EndRun, EndWith, gui
  <2>4. CASE Drain
    <3>1. seen' \in Phases \cup {"none"} /\ (seen' = "stable" => phase = "stable")
      BY <2>4, ChannelOperations DEF Drain
    <3>2. QED
      BY <2>4, <3>1, GuiAssumption DEF Drain, thread
  <2>5. CASE CheckThread
    <3>1. CASE worker = "ended"
      <4>1. channel' = << >> /\ channel' \in Seq(Phases) /\ Len(channel') <= MaxQueue
            /\ ~(\E i \in 1 .. Len(channel') : channel'[i] = "stable")
        BY <2>5, <3>1, <1>0, Zenon DEF CheckThread
      <4>2. status' \in {"idle", "completed", "error"} /\ worker' = "none" /\ flag' = FALSE
        BY <2>5, <3>1 DEF CheckThread, Report
      <4>3. HonestStatus'
        BY <2>5, <3>1 DEF CheckThread, Report, ThreadResult
      <4>4. message' \in {"none", "started", "stopRequested", "finished", "completed", "failed",
                          "panicked", "other"}
        BY <2>5, <3>1 DEF CheckThread, Report
      <4>5. QED
        BY <2>5, <3>1, <4>1, <4>2, <4>3, <4>4 DEF CheckThread
    <3>2. CASE worker # "ended"
      BY <2>5, <3>2 DEF CheckThread
    <3>3. QED
      BY <3>1, <3>2
  <2>6. CASE Start
    <3>1. channel' \in Seq(Phases) /\ Len(channel') <= MaxQueue
          /\ ~(\E i \in 1 .. Len(channel') : channel'[i] = "stable")
      BY <2>6, <1>0, Zenon DEF Start
    <3>2. QED
      BY <2>6, <3>1, Zenon DEF Start
  <2>7. CASE Stop
    BY <2>7 DEF Stop, thread
  <2>8. CASE OtherFrame
    BY <2>8 DEF OtherFrame, thread
  <2>9. CASE UNCHANGED vars
    BY <2>9 DEF vars, gui, thread
  <2>10. QED
    BY <2>1, <2>2, <2>3, <2>4, <2>5, <2>6, <2>7, <2>8, <2>9 DEF Next, Frame
<1>3. QED
  BY <1>1, <1>2, PTL DEF Spec

\* No run is started while another one is alive (start_controller).
THEOREM SingleRunHolds == Spec => []SingleRun
<1>1. IInv => SingleRun
  BY DEF IInv
<1>2. QED
  BY Invariant, <1>1, PTL

\* Success is shown only for a run that was accepted, errors of the set-up and
\* panics are always shown (check_controller_status).
THEOREM HonestStatusHolds == Spec => []HonestStatus
<1>1. IInv => HonestStatus
  BY DEF IInv
<1>2. QED
  BY Invariant, <1>1, PTL
=============================================================================
