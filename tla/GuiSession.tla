----------------------------- MODULE GuiSession -----------------------------
(***************************************************************************)
(* The graphical front end (bin/tip-prep-gui/app.rs) around the routine.   *)
(* The GUI thread draws frames: drain the events, check the controller     *)
(* thread, react to at most one button.  The controller thread builds a    *)
(* backend, runs tip preparation, which sends its phases over an unbounded *)
(* channel, and ends.  TipPrep has the run itself; here it is the phases   *)
(* it announces and the way it ends.                                       *)
(***************************************************************************)
EXTENDS Integers, SequencesExt

CONSTANTS
  CheckStability,  \* stability.check_stability
  MaxQueue         \* bound on the events waiting in the channel

ASSUME GuiAssumption == CheckStability \in BOOLEAN /\ MaxQueue \in Nat \ {0}

VARIABLES
  frame,    \* the GUI thread: "drain", "check" or "ui"
  status,   \* run_status
  message,  \* the message line
  seen,     \* tip_state.phase
  flag,     \* shutdown_flag is Some
  channel,  \* phases sent and not yet drained
  worker,   \* the controller thread: "none", "setup", "running" or "ended"
  phase,    \* the phase the run announced last
  ending,   \* how the last run ended, "none" before
  stop,     \* the run's shutdown flag
  orphaned  \* history: a run was started while another one was alive

gui    == <<frame, status, message, seen, flag>>
thread == <<worker, phase, ending>>
vars   == <<gui, channel, thread, stop, orphaned>>

Phases == {"pulsing", "confirming", "stability_check", "stable"}

\* What run_tip_prep can end with.
Outcomes == {"completed", "stopped", "limit", "fault", "panic"}

\* The flag is there exactly while a run is shown as running.
TypeOK ==
  /\ frame \in {"drain", "check", "ui"}
  /\ status \in {"idle", "running", "completed", "error"}
  /\ message \in {"none", "started", "stopRequested", "finished", "completed", "failed",
                  "panicked", "other"}
  /\ seen \in Phases \cup {"none"} /\ phase \in Phases \cup {"none"}
  /\ flag = (status = "running")
  /\ stop \in BOOLEAN /\ orphaned \in BOOLEAN
  /\ channel \in Seq(Phases) /\ Len(channel) <= MaxQueue
  /\ worker \in {"none", "setup", "running", "ended"}
  /\ ending \in Outcomes \cup {"none", "setupError"}

Init ==
  /\ frame = "drain" /\ status = "idle" /\ message = "none" /\ seen = "none" /\ flag = FALSE
  /\ channel = << >>
  /\ worker = "none" /\ phase = "none" /\ ending = "none"
  /\ stop = FALSE /\ orphaned = FALSE

-----------------------------------------------------------------------------
(***************************************************************************)
(* The controller thread.                                                  *)
(***************************************************************************)
EndWith(e) == worker' = "ended" /\ ending' = e

\* The backend, the log directory and the log file, each with `?`.
Setup ==
  /\ worker = "setup"
  /\ \/ worker' = "running" /\ ending' = ending
     \/ EndWith("setupError")
  /\ UNCHANGED <<gui, channel, phase, stop, orphaned>>

\* The phases the runner may announce after `p`.
Following(p) ==
  CASE p \in {"none", "pulsing"}              -> {"pulsing", "confirming"}
    [] p = "confirming" /\ CheckStability     -> {"pulsing", "stability_check"}
    [] p = "confirming" /\ ~CheckStability    -> {"pulsing"}
    [] p = "stability_check"                  -> {"pulsing", "stable"}
    [] p = "stable"                           -> {}

Announce ==
  /\ worker = "running" /\ Len(channel) < MaxQueue
  /\ phase' \in Following(phase)
  /\ channel' = Append(channel, phase')
  /\ UNCHANGED <<gui, worker, ending, stop, orphaned>>

\* The check that accepts the tip is the last of the run; the others end a run
\* that is not accepted yet.
EndRun(e) ==
  /\ worker = "running"
  /\ e = "completed" => phase = IF CheckStability THEN "stable" ELSE "confirming"
  /\ e # "completed" => phase # "stable"
  /\ e = "stopped" => stop
  /\ EndWith(e)
  /\ UNCHANGED <<gui, channel, phase, stop, orphaned>>

-----------------------------------------------------------------------------
(***************************************************************************)
(* The GUI thread.                                                         *)
(***************************************************************************)
Drain ==
  /\ frame = "drain"
  /\ frame' = "check"
  /\ seen' = IF channel = << >> THEN seen ELSE Last(channel)
  /\ channel' = << >>
  /\ UNCHANGED <<status, message, flag, thread, stop, orphaned>>

\* What the thread hands to join(): run_controller logs the runner's error and
\* returns Ok(()).
ThreadResult(e) ==
  IF e = "panic" THEN "panic" ELSE IF e = "setupError" THEN "err" ELSE "ok"

Report(e) ==
  \/ ThreadResult(e) = "panic" /\ status' = "error" /\ message' = "panicked"
  \/ ThreadResult(e) = "err" /\ status' = "error" /\ message' = "failed"
  \/ ThreadResult(e) = "ok" /\ seen = "stable" /\ status' = "completed" /\ message' = "completed"
  \/ /\ ThreadResult(e) = "ok" /\ seen # "stable"
     /\ status' = "idle"
     /\ message' = IF message \in {"none", "stopRequested"} THEN "finished" ELSE message

\* is_finished, then join; the receiver is dropped with what it still holds.
CheckThread ==
  /\ frame = "check"
  /\ frame' = "ui"
  /\ IF worker = "ended"
       THEN /\ IF status = "running" THEN Report(ending) ELSE UNCHANGED <<status, message>>
            /\ worker' = "none" /\ flag' = FALSE /\ channel' = << >>
       ELSE UNCHANGED <<status, message, worker, flag, channel>>
  /\ UNCHANGED <<seen, phase, ending, stop, orphaned>>

\* A plausible bug: the phase of the previous run is kept.
Start_PhaseKept ==
  /\ frame = "ui" /\ status # "running"
  /\ frame' = "drain"
  /\ status' = "running" /\ message' = "started" /\ flag' = TRUE /\ seen' = seen
  /\ channel' = << >>
  /\ worker' = "setup" /\ phase' = "none" /\ ending' = "none"
  /\ stop' = FALSE
  /\ orphaned' = (orphaned \/ worker # "none")

\* The Start button with a valid configuration: a new flag, a new channel, a
\* new thread, and the display cleared.
Start ==
  /\ frame = "ui" /\ status # "running"
  /\ frame' = "drain"
  /\ status' = "running" /\ message' = "started" /\ flag' = TRUE /\ seen' = "none"
  /\ channel' = << >>
  /\ worker' = "setup" /\ phase' = "none" /\ ending' = "none"
  /\ stop' = FALSE
  /\ orphaned' = (orphaned \/ worker # "none")

\* A plausible bug: the run counts as over when Stop is pressed.
Stop_IdleAtOnce ==
  /\ frame = "ui" /\ status = "running"
  /\ frame' = "drain"
  /\ stop' = (stop \/ flag)
  /\ status' = "idle" /\ message' = "stopRequested"
  /\ UNCHANGED <<seen, flag, channel, thread, orphaned>>

\* A plausible bug: the flag is dropped instead of raised.
Stop_FlagDropped ==
  /\ frame = "ui" /\ status = "running"
  /\ frame' = "drain"
  /\ flag' = FALSE
  /\ message' = "stopRequested"
  /\ UNCHANGED <<status, seen, channel, thread, stop, orphaned>>

Stop ==
  /\ frame = "ui" /\ status = "running"
  /\ frame' = "drain"
  /\ stop' = (stop \/ flag)
  /\ message' = "stopRequested"
  /\ UNCHANGED <<status, seen, flag, channel, thread, orphaned>>

\* Nothing pressed, or a button of the configuration tab, which may set a message.
OtherFrame ==
  /\ frame = "ui"
  /\ frame' = "drain"
  /\ message' \in {message, "other"}
  /\ UNCHANGED <<status, seen, flag, channel, thread, stop, orphaned>>

-----------------------------------------------------------------------------
Frame == Drain \/ CheckThread \/ OtherFrame

Next ==
  \/ Setup \/ Announce
  \/ \E e \in Outcomes : EndRun(e)
  \/ Frame \/ Start \/ Stop

Spec == Init /\ [][Next]_vars

\* The window repaints at least every 100 ms.  A run that was told to stop
\* stops, and one whose tip is accepted ends: TipPrep's StopEndsRun.
FairSpec ==
  /\ Spec
  /\ WF_vars(Frame)
  /\ WF_vars(Setup)
  /\ WF_vars(EndRun("stopped"))
  /\ WF_vars(phase = "stable" /\ EndRun("completed"))

-----------------------------------------------------------------------------
(***************************************************************************)
(* Properties.                                                             *)
(***************************************************************************)

\* Two runs never drive the instrument at once, however Start and Stop are
\* pressed around the end of a run (start_controller).
SingleRun == ~orphaned

\* Success is never shown for a run that was not accepted -- not from events of
\* an earlier run either -- and a panic or a failed setup is shown as an error
\* (check_controller_status).
HonestStatus ==
  /\ status = "completed" => ending = "completed"
  /\ status \notin {"running", "error"} => ending \notin {"panic", "setupError"}

\* Stop ends the run on the screen, too.
StopIsNoticed == message = "stopRequested" ~> status # "running"
=============================================================================
