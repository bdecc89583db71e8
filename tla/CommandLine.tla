----------------------------- MODULE CommandLine -----------------------------
(***************************************************************************)
(* The command line program (bin/tip-prep/main.rs) from its start to its   *)
(* exit code, driving a NanonisController call by call, while the operator *)
(* presses Enter and Ctrl+C and the instrument approaches on its own.      *)
(* Between prepare() and the final withdraw the routine is any sequence of *)
(* stable readings, repositions and withdrawals after a first approach;    *)
(* TipPrep has the one this program runs.                                  *)
(***************************************************************************)
EXTENDS StableReading

CONSTANTS
  Reports,   \* what the instrument may report: functions from indices to names
  Mappings,  \* what tcp_channel_mapping may be: functions from indices to channels
  Inside,    \* see SignalRegistry
  Letter

Registry == INSTANCE SignalRegistry

\* Nanonis numbers at most 128 signals; a configured index or channel is a byte.
ASSUME SignalsAssumption ==
  /\ \A r \in Reports : DOMAIN r \subseteq 0 .. 127
  /\ \A m \in Mappings : DOMAIN m \subseteq 0 .. 255 /\ \A i \in DOMAIN m : m[i] \in 0 .. 255

FreqShift == <<"freq", "shift">>

NoSignal == [name |-> Registry!Named(<< >>), index |-> -1, channel |-> -1]

VARIABLES
  main,       \* where main() is
  step,       \* where it is in that part
  ret,        \* what the routine, and then run_routine, returns
  exit,       \* the exit code, "none" while it is open
  shutdown,   \* the ShutdownFlag
  config,     \* the configured channels
  names,      \* the names the instrument reports
  freqShift,  \* the signal found under "freq shift"
  touched     \* history: the routine has called auto_approach

setting == <<config, names>>
program == <<main, step, ret, exit, shutdown, setting, freqShift, touched>>
vars    == <<program, cvars>>

Outcomes == {"completed", "stoppedByUser", "timedOut", "cycleLimit"}

Endings == Outcomes \cup {"shutdownRequested", "fault", "panic"}

TypeOK ==
  /\ main \in {"config", "connect", "names", "stream", "bus", "handler", "prompt", "prepare",
               "routine", "withdraw", "teardown", "drop", "done"}
  /\ step \in {"begin", "wait", "setpoint", "approach", "approaching", "settle", "free", "reading",
               "withdrawing", "moving", "retreating"}
  /\ ret \in Endings \cup {"none", "prepareError"}
  /\ exit \in {"none", "0", "1", "2", "panic", "killed"}
  /\ at \in {"idle", "layout", "settings", "zHome", "safeTip", "mode", "toggle", "untoggle",
             "channels", "oversampling", "restart", "run", "attach", "teardown", "stopStream",
             "stopReader", "releaseSafeTip", "status", "open", "start", "poll", "pause", "halt",
             "withdraw", "move", "read", "sample", "collect", "gate", "backoff"}
  /\ answer \in Replies \cup {"none", "timeout"}
  /\ (at # "idle") = (answer = "none" /\ op # "none" /\ exit # "killed")
  /\ reader => configured
  /\ mapping = << >> \/ configured
  /\ got \in 0 .. NumSamples /\ attempt \in 0 .. MaxRetries
  /\ failed \subseteq Recorded
  /\ loose \in {"no", "inherited", "left"}

Init ==
  /\ ControllerInit
  /\ main = "config" /\ step = "begin" /\ ret = "none" /\ exit = "none"
  /\ shutdown = FALSE /\ touched = FALSE
  /\ config \in Mappings /\ names \in Reports
  /\ freqShift = NoSignal

-----------------------------------------------------------------------------
(***************************************************************************)
(* run(), up to the prompt.                                                *)
(***************************************************************************)
Proceed(part) == main' = part /\ step' = "begin" /\ UNCHANGED exit

\* A plausible bug: the process ends without running destructors.
Leave_Exit(code) == main' = "done" /\ step' = "begin" /\ exit' = code

\* `?` or a panic: what exists is dropped on the way out.
Leave(code) ==
  /\ main' = IF main \in {"config", "connect"} THEN "done" ELSE "drop"
  /\ step' = "begin" /\ exit' = code

LoadConfig ==
  /\ main = "config"
  /\ Proceed("connect") \/ Leave("1")
  /\ UNCHANGED <<ret, shutdown, setting, freqShift, touched, cvars>>

\* control_ports[0] panics when no port is configured.
Connect ==
  /\ main = "connect"
  /\ Proceed("names") \/ Leave("1") \/ Leave("panic")
  /\ UNCHANGED <<ret, shutdown, setting, freqShift, touched, cvars>>

\* The registry's table, and what a name stands for in it.
Table        == Registry!FromSignalNames(names, Registry!TcpMap(config))
Claims(name) == Registry!CreateAliases(Table, Registry!Named(name))

\* build_signal_registry, and the signal of the routine.
BuildRegistry ==
  /\ main = "names"
  /\ \E r \in Replies :
       /\ Called(r)
       /\ IF r = "ok" /\ Claims(FreqShift) # {}
            THEN freqShift' \in Claims(FreqShift) /\ Proceed("stream")
            ELSE freqShift' = freqShift /\ Leave("1")
  /\ UNCHANGED <<ret, shutdown, setting, touched, control, controller, instrument, locals, loose>>

SetupStream ==
  /\ main = "stream" /\ step = "begin"
  /\ BeginStreaming(Registry!TcpSignals(Table))
  /\ step' = "wait"
  /\ UNCHANGED <<main, ret, exit, shutdown, setting, freqShift, touched>>

StreamSetUp ==
  /\ main = "stream" /\ step = "wait" /\ at = "idle"
  /\ IF answer = "ok" THEN Proceed("bus") ELSE Leave("1")
  /\ UNCHANGED <<ret, shutdown, setting, freqShift, touched, cvars>>

\* The log file may not be writable.
SetupEventBus ==
  /\ main = "bus"
  /\ Proceed("handler") \/ Leave("1")
  /\ UNCHANGED <<ret, shutdown, setting, freqShift, touched, cvars>>

\* expect(): a handler that cannot be set panics.
SetupShutdownHandler ==
  /\ main = "handler"
  /\ Proceed("prompt") \/ Leave("panic")
  /\ UNCHANGED <<ret, shutdown, setting, freqShift, touched, cvars>>

\* read_line returns; the flag is not looked at.
Confirm ==
  /\ main = "prompt"
  /\ Proceed("prepare") \/ Leave("1")
  /\ UNCHANGED <<ret, shutdown, setting, freqShift, touched, cvars>>

\* Before the handler is set Ctrl+C ends the process on the spot.
Interrupt ==
  /\ exit = "none"
  /\ IF main \in {"config", "connect", "names", "stream", "bus", "handler"}
       THEN /\ main' = "done" /\ exit' = "killed" /\ at' = "idle"
            /\ UNCHANGED shutdown
       ELSE /\ ~shutdown
            /\ shutdown' = TRUE
            /\ UNCHANGED <<main, exit, at>>
  /\ UNCHANGED <<step, ret, setting, freqShift, touched, op, answer, controller, linked, instrument,
                 locals, history>>

-----------------------------------------------------------------------------
(***************************************************************************)
(* run_tip_prep and run_routine.                                           *)
(***************************************************************************)
Prepare ==
  /\ main = "prepare" /\ step = "begin"
  /\ BeginPrepare
  /\ step' = "wait"
  /\ UNCHANGED <<main, ret, exit, shutdown, setting, freqShift, touched>>

\* A plausible bug: a failed prepare() is cleaned up after like the routine.
Prepared_CleansUp ==
  /\ main = "prepare" /\ step = "wait" /\ at = "idle"
  /\ IF answer = "ok" THEN Proceed("routine") /\ ret' = ret
     ELSE Proceed("withdraw") /\ ret' = "fault"
  /\ UNCHANGED <<shutdown, setting, freqShift, touched, cvars>>

Prepared ==
  /\ main = "prepare" /\ step = "wait" /\ at = "idle"
  /\ IF answer = "ok" THEN Proceed("routine") /\ ret' = ret ELSE Leave("1") /\ ret' = "prepareError"
  /\ UNCHANGED <<shutdown, setting, freqShift, touched, cvars>>

EndRoutine(e) ==
  /\ ret' = e
  /\ Proceed("withdraw")
  /\ UNCHANGED <<shutdown, setting, freqShift, touched>>

GoOn(next) ==
  /\ step' = next
  /\ UNCHANGED <<main, ret, exit, shutdown, setting, freqShift, touched>>

\* The routine sets the bias and then the setpoint.
InitialSettings ==
  /\ main = "routine" /\ step \in {"begin", "setpoint"}
  /\ \E r \in Replies :
       /\ Called(r)
       /\ IF r # "ok" THEN EndRoutine("fault")
          ELSE GoOn(IF step = "begin" THEN "setpoint" ELSE "approach")
  /\ UNCHANGED <<control, controller, instrument, locals, loose>>

Approach ==
  /\ main = "routine" /\ step = "approach"
  /\ BeginApproach
  /\ step' = "approaching" /\ touched' = TRUE
  /\ UNCHANGED <<main, ret, exit, shutdown, setting, freqShift>>

\* An operation of the routine is over; most errors end the routine.
OperationEnds ==
  /\ main = "routine" /\ at = "idle"
  /\ \/ step = "retreating" /\ GoOn("free")
     \/ step \in {"approaching", "reading", "moving"} /\ answer # "ok" /\ EndRoutine("fault")
     \/ step = "withdrawing" /\ answer # "ok" /\ EndRoutine("fault")
     \/ step = "approaching" /\ answer = "ok" /\ GoOn("settle")
     \/ step = "reading" /\ answer = "ok" /\ GoOn("free")
     \/ step = "moving" /\ answer = "ok" /\ GoOn("approach")
  /\ UNCHANGED cvars

\* settle() and check_shutdown().
Settle ==
  /\ main = "routine" /\ step = "settle"
  /\ IF shutdown THEN EndRoutine("shutdownRequested") ELSE GoOn("free")
  /\ UNCHANGED cvars

ReadStable ==
  /\ main = "routine" /\ step = "free"
  /\ BeginReading /\ GoOn("reading")

\* Reposition: withdraw, move, approach.
Reposition ==
  /\ main = "routine" /\ step = "free"
  /\ BeginWithdraw /\ GoOn("withdrawing")

RepositionMove ==
  /\ main = "routine" /\ step = "withdrawing" /\ at = "idle" /\ answer = "ok"
  /\ \E d \in Displacements : BeginMove(d)
  /\ GoOn("moving")

\* The withdraw that ends a sweep only logs its error.
SweepWithdraw ==
  /\ main = "routine" /\ step = "free"
  /\ BeginWithdraw /\ GoOn("retreating")

RoutineEnds ==
  /\ main = "routine" /\ step = "free"
  /\ \E e \in Endings :
       /\ e \in {"stoppedByUser", "shutdownRequested"} => shutdown
       /\ EndRoutine(e)
  /\ UNCHANGED cvars

CleanupWithdraw ==
  /\ main = "withdraw" /\ step = "begin"
  /\ BeginWithdraw /\ GoOn("wait")

CleanupWithdrawn ==
  /\ main = "withdraw" /\ step = "wait" /\ at = "idle"
  /\ Proceed("teardown")
  /\ UNCHANGED <<ret, shutdown, setting, freqShift, touched, cvars>>

CleanupTeardown ==
  /\ main = "teardown" /\ step = "begin"
  /\ BeginTeardown /\ GoOn("wait")

ExitCode(r) ==
  CASE r = "completed" -> "0"
    [] r \in {"stoppedByUser", "shutdownRequested", "timedOut", "cycleLimit"} -> "2"
    [] r = "panic" -> "panic"
    [] OTHER -> "1"

\* The controller is torn down, and the ending handed to main().
RunReturns ==
  /\ main = "teardown" /\ step = "wait" /\ at = "idle"
  /\ ret' = IF ret = "shutdownRequested" THEN "stoppedByUser" ELSE ret
  /\ Leave(ExitCode(ret))
  /\ UNCHANGED <<shutdown, setting, freqShift, touched, cvars>>

\* Drop: teardown() again.
DropController ==
  /\ main = "drop" /\ step = "begin"
  /\ BeginTeardown /\ GoOn("wait")

Ended ==
  /\ main = "drop" /\ step = "wait" /\ at = "idle"
  /\ main' = "done"
  /\ UNCHANGED <<step, ret, exit, shutdown, setting, freqShift, touched, cvars>>

-----------------------------------------------------------------------------
Main ==
  \/ LoadConfig \/ Connect \/ BuildRegistry \/ SetupStream \/ StreamSetUp
  \/ SetupEventBus \/ SetupShutdownHandler
  \/ Prepare \/ Prepared
  \/ InitialSettings \/ Approach \/ OperationEnds \/ Settle
  \/ ReadStable \/ Reposition \/ RepositionMove \/ SweepWithdraw \/ RoutineEnds
  \/ CleanupWithdraw \/ CleanupWithdrawn \/ CleanupTeardown \/ RunReturns
  \/ DropController \/ Ended

Calls ==
  /\ ControllerStep \/ ReadingStep(freqShift.index)
  /\ UNCHANGED program

Timeout == Expire /\ UNCHANGED program

Instrument == ApproachEnds /\ UNCHANGED program

\* The process has ended.
Terminated == main = "done" /\ UNCHANGED vars

Next == Main \/ Calls \/ Timeout \/ Confirm \/ Interrupt \/ Instrument \/ Terminated

Spec == Init /\ [][Next]_vars

\* The program runs on and time passes.  The operator need not press anything,
\* and an approach need not end.
FairSpec == Spec /\ WF_vars(Main) /\ WF_vars(Calls) /\ WF_vars(Timeout)

-----------------------------------------------------------------------------
(***************************************************************************)
(* Properties.                                                             *)
(***************************************************************************)

\* However the program ends, short of being killed -- an error at any step of
\* the set-up, a panic, a stop, the end of the routine -- the reader is gone,
\* the stream stopped, the safe-tip override lifted and the user output set
\* back, unless the call that does it failed; and a tip the routine has
\* approached is off the surface, unless the withdraw failed or an approach
\* was left running (Drop, teardown and run_routine: "an error mid-routine
\* never leaves the tip engaged on the surface").
ReleasedAtEnd ==
  main = "done" /\ exit # "killed" =>
    /\ ~reader
    /\ tornDown \/ (streamed = << >> /\ autoPause = "operator" /\ output = "own")
    /\ tornDown => /\ logger = "off" \/ "stopStream" \in failed
                   /\ autoPause = "off" \/ "releaseSafeTip" \in failed
    /\ output = "own" \/ failed \cap {"toggle", "untoggle"} # {}
    /\ touched /\ tip = "engaged" => "withdraw" \in failed \/ loose # "no"

\* No approach runs on behind the program's back unless it ran before the
\* program started, or starting, polling or halting one failed; auto_approach
\* says Ok only with the tip on the surface or when it met such an approach.
ApproachAccounted ==
  /\ approach /\ at \notin {"poll", "pause", "halt"} => loose # "no"
  /\ loose = "left" => failed \cap {"start", "poll", "halt"} # {}
  /\ op = "approach" /\ answer = "ok" /\ tip # "engaged" => found /\ loose # "no"

\* The motor steps one axis at a time and each axis of the displacement once,
\* never with the tip on the surface -- unless a loose approach has brought it
\* there between the withdraw and the move -- and a move that is reported as
\* done has moved every axis.  The order of the axes is not part of it: the code's
\* (z last, move_motor_3d) is not the one documented (see the README).
Axes(steps) == {steps[i] : i \in DOMAIN steps}

MovesInTurn ==
  [][/\ Len(moved') > Len(moved) =>
          /\ \E axis \in Axes(target) \ Axes(moved) : moved' = Append(moved, axis)
          /\ tip = "clear" \/ loose # "no"
     /\ op' = "move" /\ answer' = "ok" => Axes(moved') = Axes(target')]_vars

\* The signal the routine reads is the one reported as the frequency shift:
\* under that very name if there is one, else by the alias of the frequency shift
\* of an oscillation controller, or by a name that it abbreviates.
IsFreqShift(i) ==
  LET exact == {k \in DOMAIN names : names[k].words = FreqShift}
  IN  IF exact # {} THEN i = Max(exact)
      ELSE /\ i \in DOMAIN names
           /\ \/ Registry!ContainsPattern(names[i].words, <<"oc", "m1", "freq.", "shift">>)
              \/ Registry!Abbreviated(names[i].words) = FreqShift

\* The samples of a reading were polled in full, or come from a session that was
\* started after the channels were set, unless the old session could not be stopped.
IsFresh ==
  /\ reading.source = "polled" => reading.size = NumSamples
  /\ reading.source = "stream" => logger = "new" \/ "restart" \in failed

\* A reading is a fresh one of the frequency shift, streamed samples come from the
\* position of its own channel in the frames, and a batch that is short or did not
\* pass its gates is published only when no retry is left.  It is not said that every
\* reading is stable: the last retry's batch is taken as it is (see the README).
ReadingsAreSound ==
  reading # NoReading =>
    /\ IsFresh
    /\ IsFreqShift(freqShift.index)
    /\ reading.attempt < MaxRetries => reading.stable /\ ~TooFew(reading.size)
    /\ reading.source = "stream" =>
         /\ mapping[freqShift.index] \in DOMAIN streamed
         /\ streamed[mapping[freqShift.index]] = Registry!TcpMap(config)[freqShift.index]

\* What run_routine promises about the program's controller.
LifecyclePhase ==
  CASE main \in {"routine"}              -> "running"
    [] main \in {"withdraw", "teardown"} -> main
    [] main \in {"drop", "done"} /\ ret # "none" -> "done"
    [] OTHER                             -> "prepare"

Lifecycle == INSTANCE RoutineLifecycle WITH phase <- LifecyclePhase, ret <- ret, stop <- shutdown

\* The program, with every call to the instrument and every way to fail,
\* follows the life cycle: one withdraw and one teardown after every ending of
\* the routine, none after a failed prepare().
ImplementsLifecycle == Lifecycle!Spec

\* Every operation returns, also when the approach never ends.
CallsReturn == at # "idle" ~> at = "idle"
=============================================================================
