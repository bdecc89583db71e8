-------------------------- MODULE CommandLineProofs --------------------------
(***************************************************************************)
(* Proofs about CommandLine, for any number of samples and retries, any    *)
(* displacements of the motor, any reported signals and any channel        *)
(* mapping: the program's control flow, what it releases at its end, its   *)
(* approaches, readings and moves, and the life cycle of its routine.      *)
(***************************************************************************)
EXTENDS CommandLine, SequenceTheorems, FiniteSetTheorems, WellFoundedInduction, TLAPS

-----------------------------------------------------------------------------
(***************************************************************************)
(* Control flow and types.                                                 *)
(***************************************************************************)

\* The steps of each operation.
PrepareSteps   == {"layout", "settings", "zHome", "safeTip", "mode", "toggle", "untoggle"}
StreamSteps    == {"channels", "oversampling", "restart", "run", "attach"}
TeardownSteps  == {"teardown", "stopStream", "stopReader", "releaseSafeTip"}
ApproachSteps  == {"status", "open", "start", "poll", "pause", "halt"}
ReadSteps      == {"read", "sample", "collect", "gate", "backoff"}

\* An operation runs only where main() waits for it.
Located ==
  /\ at \in PrepareSteps  => op = "prepare"  /\ main = "prepare" /\ step = "wait"
  /\ at \in StreamSteps   => op = "stream"   /\ main = "stream" /\ step = "wait"
  /\ at \in TeardownSteps => op = "teardown" /\ main \in {"teardown", "drop"} /\ step = "wait"
  /\ at \in ApproachSteps => op = "approach" /\ main = "routine" /\ step = "approaching"
  /\ at \in ReadSteps     => op = "read"     /\ main = "routine" /\ step = "reading"
  /\ at = "move"          => op = "move"     /\ main = "routine" /\ step = "moving"
  /\ at = "withdraw"      => op = "withdraw" /\ <<main, step>> \in
       {<<"withdraw", "wait">>, <<"routine", "withdrawing">>, <<"routine", "retreating">>}

\* The answer main() waits for is that of the operation it has begun.
Awaited ==
  /\ step = "wait" /\ main = "withdraw" => op = "withdraw"
  /\ step = "wait" /\ main \in {"teardown", "drop"} => op = "teardown"
  /\ step \in {"withdrawing", "retreating"} /\ main = "routine" => op = "withdraw"
  /\ step = "moving" /\ main = "routine" => op = "move"

\* The parts of main() and their steps.
Staged ==
  /\ main \in {"config", "connect", "names", "bus", "handler", "prompt"} => step = "begin"
  /\ main \in {"stream", "prepare", "withdraw", "teardown", "drop"} => step \in {"begin", "wait"}
  /\ main = "routine" => step # "wait"
  /\ main \in {"config", "connect", "names"} => op = "none" /\ at = "idle"
  /\ exit = "killed" => main = "done"
  /\ exit # "none" => main \in {"drop", "done"}

\* The counters of a reading, at the steps that count on them.
Sampled ==
  /\ at = "sample" => got < NumSamples
  /\ at = "read" => got = 0
  /\ at = "backoff" => attempt < MaxRetries

Control == Located /\ Awaited /\ Staged /\ Sampled

\* A call to the instrument records its failure and touches no other call's record.
LEMMA CallRecorded ==
  ASSUME NEW r, Called(r), failed \subseteq Recorded
  PROVE  /\ r \in Replies /\ failed' \subseteq Recorded
         /\ r # "ok" /\ at \in Recorded => at \in failed'
         /\ \A c : c # at => (c \in failed' <=> c \in failed)
         /\ r = "ok" => at \notin failed'
<1>1. r \in Replies
  BY DEF Called, Replies
<1> QED  BY <1>1 DEF Called

\* Every variable keeps its type, an operation runs only where main() waits for it,
\* and its answer is the one main() goes on with.
THEOREM TypeCorrect == Spec => [](TypeOK /\ Control)
<1> DEFINE Inv == TypeOK /\ Control
<1>1. Init => Inv
  BY ControllerAssumption DEF Init, ControllerInit, TypeOK, Control, Located, Awaited, Staged,
     PrepareSteps, StreamSteps, TeardownSteps, ApproachSteps, ReadSteps, Sampled
<1>2. Inv /\ [Next]_vars => Inv'
  <2> SUFFICES ASSUME Inv, [Next]_vars PROVE Inv'
    OBVIOUS
  <2> USE CallRecorded, ControllerAssumption
      DEF TypeOK, Control, Located, Awaited, Staged, PrepareSteps, StreamSteps, TeardownSteps,
          ApproachSteps, ReadSteps, Sampled, NoReading, Proceed, Leave, GoOn, EndRoutine, Begin,
          Goto, Return, Try, Endings, Outcomes, Replies, cvars, control, controller, instrument,
          motion, sampling, locals, history, setting, program, vars
  <2>1. CASE LoadConfig \/ Connect \/ BuildRegistry
    BY <2>1 DEF LoadConfig, Connect, BuildRegistry
  <2>2. CASE SetupEventBus \/ SetupShutdownHandler \/ Confirm
    BY <2>2 DEF SetupEventBus, SetupShutdownHandler, Confirm
  <2>3. CASE SetupStream \/ StreamSetUp
    BY <2>3 DEF SetupStream, BeginStreaming, StreamSetUp
  <2>4. CASE Prepare \/ Prepared
    BY <2>4 DEF Prepare, BeginPrepare, Prepared
  <2>5. CASE InitialSettings \/ Approach \/ Settle
    BY <2>5 DEF InitialSettings, Approach, BeginApproach, Settle
  <2>6. CASE OperationEnds \/ RoutineEnds
    BY <2>6 DEF OperationEnds, RoutineEnds
  <2>7. CASE ReadStable \/ Reposition \/ RepositionMove \/ SweepWithdraw
    BY <2>7 DEF ReadStable, BeginReading, Reposition, BeginWithdraw, RepositionMove, BeginMove,
       SweepWithdraw
  <2>8. CASE CleanupWithdraw \/ CleanupWithdrawn \/ CleanupTeardown
    BY <2>8 DEF CleanupWithdraw, BeginWithdraw, CleanupWithdrawn, CleanupTeardown, BeginTeardown
  <2>9. CASE RunReturns \/ DropController \/ Ended
    BY <2>9 DEF RunReturns, ExitCode, DropController, BeginTeardown, Ended
  <2>10. CASE Interrupt
    BY <2>10 DEF Interrupt
  <2>11. CASE UNCHANGED program /\ (LoadLayout \/ LoadSettings \/ SetZHome \/ SafeTipConfigure)
    BY <2>11 DEF LoadLayout, LoadSettings, SetZHome, SafeTipConfigure
  <2>12. CASE UNCHANGED program /\ (ReadMode \/ ToggleOutput \/ UntoggleOutput)
    BY <2>12 DEF ReadMode, ToggleOutput, UntoggleOutput
  <2>13. CASE UNCHANGED program /\ (SetChannels \/ SetOversampling \/ StopLingering \/ StartLogger
              \/ AttachReader)
    BY <2>13 DEF SetChannels, SetOversampling, StopLingering, StartLogger, AttachReader
  <2>14. CASE UNCHANGED program /\ (Teardown \/ StopStream \/ StopReader \/ ReleaseSafeTip)
    BY <2>14 DEF Teardown, StopStream, StopReader, ReleaseSafeTip
  <2>15. CASE UNCHANGED program /\ CheckApproach
    BY <2>15 DEF CheckApproach
  <2>16. CASE UNCHANGED program /\ OpenModule
    BY <2>16 DEF OpenModule
  <2>17. CASE UNCHANGED program /\ StartApproach
    BY <2>17 DEF StartApproach
  <2>18. CASE UNCHANGED program /\ PollApproach
    BY <2>18 DEF PollApproach
  <2>19. CASE UNCHANGED program /\ Pause
    BY <2>19 DEF Pause
  <2>20. CASE UNCHANGED program /\ HaltApproach
    BY <2>20 DEF HaltApproach
  <2>21. CASE UNCHANGED program /\ (Expire \/ ApproachEnds)
    BY <2>21 DEF Expire, ApproachEnds
  <2>22. CASE UNCHANGED program /\ (Withdraw \/ MoveAxis \/ MoveNothing)
    BY <2>22 DEF Withdraw, MoveAxis, MoveNothing
  <2>23. CASE UNCHANGED program /\ (ReadSamples(freqShift.index) \/ ReadSignal \/ CollectSamples)
    BY <2>23 DEF ReadSamples, ReadSignal, CollectSamples
  <2>24. CASE UNCHANGED program /\ (Judge \/ Backoff)
    BY <2>24 DEF Judge, Retries, Backoff
  <2>25. CASE Terminated \/ UNCHANGED vars
    BY <2>25 DEF Terminated, vars
  <2> HIDE DEF TypeOK, Control
  <2> QED  BY <2>1, <2>2, <2>3, <2>4, <2>5, <2>6, <2>7, <2>8, <2>9, <2>10, <2>11, <2>12, <2>13,
              <2>14, <2>15, <2>16, <2>17, <2>18, <2>19, <2>20, <2>21, <2>22, <2>23, <2>24, <2>25
           DEF Next, Main, Calls, Timeout, Instrument, ControllerStep, ReadingStep
<1> QED  BY <1>1, <1>2, PTL DEF Spec

-----------------------------------------------------------------------------
(***************************************************************************)
(* The approach and the tip.                                               *)
(***************************************************************************)

\* A withdraw that was answered Ok has raised the tip, and it stays up until the next
\* approach; the routine is not left without a withdraw.
TipRaised ==
  /\ op = "withdraw" /\ at = "idle" => tip = "clear" \/ loose # "no" \/ ("withdraw" \in failed /\ answer # "ok")
  /\ at = "move" => tip = "clear" \/ loose # "no"
  /\ touched => main \in {"routine", "withdraw", "teardown", "drop", "done"}
  /\ touched /\ main \in {"teardown", "drop", "done"} =>
       tip = "clear" \/ loose # "no" \/ "withdraw" \in failed

\* While an approach is polled nobody else's is on, and it is on or has reached the surface.
ApproachTracked ==
  /\ at \in {"poll", "pause", "halt"} => loose = "no"
  /\ at \in {"poll", "pause"} /\ ~approach => tip = "engaged"

\* ApproachAccounted: no approach runs on unless it ran before the program started or a
\* call to start, poll or halt one failed.  A tip the routine has raised stays up.
THEOREM ApproachAccountedHolds == Spec => [](ApproachAccounted /\ ApproachTracked /\ TipRaised)
<1> DEFINE Inv == ApproachAccounted /\ ApproachTracked /\ TipRaised
<1>1. Init => Inv
  BY DEF Init, ControllerInit, ApproachAccounted, ApproachTracked, TipRaised
<1>2. TypeOK /\ Control /\ Inv /\ [Next]_vars => Inv'
  <2> SUFFICES ASSUME TypeOK, Control, Inv, [Next]_vars PROVE Inv'
    OBVIOUS
  <2> USE CallRecorded, ControllerAssumption
      DEF TypeOK, Control, Located, Awaited, Staged, PrepareSteps, StreamSteps, TeardownSteps,
          ApproachSteps, ReadSteps, ApproachAccounted, ApproachTracked, TipRaised, After,
          Recorded, Proceed, Leave, GoOn, EndRoutine, Begin, Goto, Return, Try, Endings, Outcomes,
          Replies, cvars, control, controller, instrument, motion, sampling, locals, history,
          setting, program, vars
  <2>1. CASE LoadConfig \/ Connect \/ BuildRegistry
    BY <2>1 DEF LoadConfig, Connect, BuildRegistry
  <2>2. CASE SetupEventBus \/ SetupShutdownHandler \/ Confirm
    BY <2>2 DEF SetupEventBus, SetupShutdownHandler, Confirm
  <2>3. CASE SetupStream \/ StreamSetUp
    BY <2>3 DEF SetupStream, BeginStreaming, StreamSetUp
  <2>4. CASE Prepare \/ Prepared
    BY <2>4 DEF Prepare, BeginPrepare, Prepared
  <2>5. CASE InitialSettings \/ Approach \/ Settle
    BY <2>5 DEF InitialSettings, Approach, BeginApproach, Settle
  <2>6. CASE OperationEnds \/ RoutineEnds
    BY <2>6 DEF OperationEnds, RoutineEnds
  <2>7. CASE ReadStable \/ Reposition \/ RepositionMove \/ SweepWithdraw
    BY <2>7 DEF ReadStable, BeginReading, Reposition, BeginWithdraw, RepositionMove, BeginMove,
       SweepWithdraw
  <2>8. CASE CleanupWithdraw \/ CleanupWithdrawn \/ CleanupTeardown
    BY <2>8 DEF CleanupWithdraw, BeginWithdraw, CleanupWithdrawn, CleanupTeardown, BeginTeardown
  <2>9. CASE RunReturns \/ DropController \/ Ended
    BY <2>9 DEF RunReturns, ExitCode, DropController, BeginTeardown, Ended
  <2>10. CASE Interrupt
    BY <2>10 DEF Interrupt
  <2>11. CASE UNCHANGED program /\ (LoadLayout \/ LoadSettings \/ SetZHome \/ SafeTipConfigure)
    BY <2>11 DEF LoadLayout, LoadSettings, SetZHome, SafeTipConfigure
  <2>12. CASE UNCHANGED program /\ (ReadMode \/ ToggleOutput \/ UntoggleOutput)
    BY <2>12 DEF ReadMode, ToggleOutput, UntoggleOutput
  <2>13. CASE UNCHANGED program /\ (SetChannels \/ SetOversampling \/ StopLingering \/ StartLogger
              \/ AttachReader)
    BY <2>13 DEF SetChannels, SetOversampling, StopLingering, StartLogger, AttachReader
  <2>14. CASE UNCHANGED program /\ (Teardown \/ StopStream \/ StopReader \/ ReleaseSafeTip)
    BY <2>14 DEF Teardown, StopStream, StopReader, ReleaseSafeTip
  <2>15. CASE UNCHANGED program /\ CheckApproach
    BY <2>15 DEF CheckApproach
  <2>16. CASE UNCHANGED program /\ OpenModule
    BY <2>16 DEF OpenModule
  <2>17. CASE UNCHANGED program /\ StartApproach
    BY <2>17 DEF StartApproach
  <2>18. CASE UNCHANGED program /\ PollApproach
    BY <2>18 DEF PollApproach
  <2>19. CASE UNCHANGED program /\ Pause
    BY <2>19 DEF Pause
  <2>20. CASE UNCHANGED program /\ HaltApproach
    BY <2>20 DEF HaltApproach
  <2>21. CASE UNCHANGED program /\ (Expire \/ ApproachEnds)
    BY <2>21 DEF Expire, ApproachEnds
  <2>22. CASE UNCHANGED program /\ (Withdraw \/ MoveAxis \/ MoveNothing)
    BY <2>22 DEF Withdraw, MoveAxis, MoveNothing
  <2>23. CASE UNCHANGED program /\ (ReadSamples(freqShift.index) \/ ReadSignal \/ CollectSamples)
    BY <2>23 DEF ReadSamples, ReadSignal, CollectSamples
  <2>24. CASE UNCHANGED program /\ (Judge \/ Backoff)
    BY <2>24 DEF Judge, Retries, Backoff
  <2>25. CASE Terminated \/ UNCHANGED vars
    BY <2>25 DEF Terminated, vars
  <2> HIDE DEF TypeOK, Control, ApproachAccounted, ApproachTracked, TipRaised
  <2> QED  BY <2>1, <2>2, <2>3, <2>4, <2>5, <2>6, <2>7, <2>8, <2>9, <2>10, <2>11, <2>12, <2>13,
              <2>14, <2>15, <2>16, <2>17, <2>18, <2>19, <2>20, <2>21, <2>22, <2>23, <2>24, <2>25
           DEF Next, Main, Calls, Timeout, Instrument, ControllerStep, ReadingStep
<1> QED  BY <1>1, <1>2, TypeCorrect, PTL DEF Spec

-----------------------------------------------------------------------------
(***************************************************************************)
(* What is released at the end.                                            *)
(***************************************************************************)

\* What teardown() has done so far.
Releasing ==
  /\ op = "teardown" /\ at # "teardown" => tornDown
  /\ main \in {"config", "connect"} => ~reader /\ streamed = << >> /\ autoPause = "operator"
                                       /\ output = "own"
  /\ tornDown => /\ main \in {"teardown", "drop", "done"} /\ op = "teardown"
                 /\ ~reader \/ at \in {"stopStream", "stopReader"}
                 /\ logger = "off" \/ "stopStream" \in failed \/ at = "stopStream"
                 /\ autoPause = "off" \/ "releaseSafeTip" \in failed
                    \/ at \in {"stopStream", "stopReader", "releaseSafeTip"}
  /\ main = "done" /\ exit # "killed" /\ ~tornDown =>
       ~reader /\ streamed = << >> /\ autoPause = "operator" /\ output = "own"

\* The user output is toggled back.
Toggled == output = "own" \/ failed \cap {"toggle", "untoggle"} # {} \/ at = "untoggle"

\* ReleasedAtEnd: however the program ends short of being killed, everything it took
\* has been given back, unless the call that does it failed; what teardown() has released
\* stays so.
THEOREM ReleasedAtEndHolds == Spec => [](ReleasedAtEnd /\ Releasing)
<1> DEFINE Inv == Releasing /\ Toggled
<1>1. Init => Inv
  BY DEF Init, ControllerInit, Releasing, Toggled
<1>2. TypeOK /\ Control /\ Inv /\ [Next]_vars => Inv'
  <2> SUFFICES ASSUME TypeOK, Control, Inv, [Next]_vars PROVE Inv'
    OBVIOUS
  <2> USE CallRecorded, ControllerAssumption
      DEF TypeOK, Control, Located, Awaited, Staged, PrepareSteps, StreamSteps, TeardownSteps,
          ApproachSteps, ReadSteps, Releasing, Toggled, After, Recorded, Proceed, Leave, GoOn,
          EndRoutine, Begin, Goto, Return, Try, Endings, Outcomes, Replies, cvars, control,
          controller, instrument, motion, sampling, locals, history, setting, program, vars
  <2>1. CASE LoadConfig \/ Connect \/ BuildRegistry
    BY <2>1 DEF LoadConfig, Connect, BuildRegistry
  <2>2. CASE SetupEventBus \/ SetupShutdownHandler \/ Confirm
    BY <2>2 DEF SetupEventBus, SetupShutdownHandler, Confirm
  <2>3. CASE SetupStream \/ StreamSetUp
    BY <2>3 DEF SetupStream, BeginStreaming, StreamSetUp
  <2>4. CASE Prepare \/ Prepared
    BY <2>4 DEF Prepare, BeginPrepare, Prepared
  <2>5. CASE InitialSettings \/ Approach \/ Settle
    BY <2>5 DEF InitialSettings, Approach, BeginApproach, Settle
  <2>6. CASE OperationEnds \/ RoutineEnds
    BY <2>6 DEF OperationEnds, RoutineEnds
  <2>7. CASE ReadStable \/ Reposition \/ RepositionMove \/ SweepWithdraw
    BY <2>7 DEF ReadStable, BeginReading, Reposition, BeginWithdraw, RepositionMove, BeginMove,
       SweepWithdraw
  <2>8. CASE CleanupWithdraw \/ CleanupWithdrawn \/ CleanupTeardown
    BY <2>8 DEF CleanupWithdraw, BeginWithdraw, CleanupWithdrawn, CleanupTeardown, BeginTeardown
  <2>9. CASE RunReturns \/ DropController \/ Ended
    BY <2>9 DEF RunReturns, ExitCode, DropController, BeginTeardown, Ended
  <2>10. CASE Interrupt
    BY <2>10 DEF Interrupt
  <2>11. CASE UNCHANGED program /\ (LoadLayout \/ LoadSettings \/ SetZHome \/ SafeTipConfigure)
    BY <2>11 DEF LoadLayout, LoadSettings, SetZHome, SafeTipConfigure
  <2>12. CASE UNCHANGED program /\ (ReadMode \/ ToggleOutput \/ UntoggleOutput)
    BY <2>12 DEF ReadMode, ToggleOutput, UntoggleOutput
  <2>13. CASE UNCHANGED program /\ (SetChannels \/ SetOversampling \/ StopLingering \/ StartLogger
              \/ AttachReader)
    BY <2>13 DEF SetChannels, SetOversampling, StopLingering, StartLogger, AttachReader
  <2>14. CASE UNCHANGED program /\ (Teardown \/ StopStream \/ StopReader \/ ReleaseSafeTip)
    BY <2>14 DEF Teardown, StopStream, StopReader, ReleaseSafeTip
  <2>15. CASE UNCHANGED program /\ CheckApproach
    BY <2>15 DEF CheckApproach
  <2>16. CASE UNCHANGED program /\ OpenModule
    BY <2>16 DEF OpenModule
  <2>17. CASE UNCHANGED program /\ StartApproach
    BY <2>17 DEF StartApproach
  <2>18. CASE UNCHANGED program /\ PollApproach
    BY <2>18 DEF PollApproach
  <2>19. CASE UNCHANGED program /\ Pause
    BY <2>19 DEF Pause
  <2>20. CASE UNCHANGED program /\ HaltApproach
    BY <2>20 DEF HaltApproach
  <2>21. CASE UNCHANGED program /\ (Expire \/ ApproachEnds)
    BY <2>21 DEF Expire, ApproachEnds
  <2>22. CASE UNCHANGED program /\ (Withdraw \/ MoveAxis \/ MoveNothing)
    BY <2>22 DEF Withdraw, MoveAxis, MoveNothing
  <2>23. CASE UNCHANGED program /\ (ReadSamples(freqShift.index) \/ ReadSignal \/ CollectSamples)
    BY <2>23 DEF ReadSamples, ReadSignal, CollectSamples
  <2>24. CASE UNCHANGED program /\ (Judge \/ Backoff)
    BY <2>24 DEF Judge, Retries, Backoff
  <2>25. CASE Terminated \/ UNCHANGED vars
    BY <2>25 DEF Terminated, vars
  <2> HIDE DEF TypeOK, Control, Releasing, Toggled
  <2> QED  BY <2>1, <2>2, <2>3, <2>4, <2>5, <2>6, <2>7, <2>8, <2>9, <2>10, <2>11, <2>12, <2>13,
              <2>14, <2>15, <2>16, <2>17, <2>18, <2>19, <2>20, <2>21, <2>22, <2>23, <2>24, <2>25
           DEF Next, Main, Calls, Timeout, Instrument, ControllerStep, ReadingStep
<1>3. TypeOK /\ Control /\ TipRaised /\ Inv => ReleasedAtEnd
  BY DEF Control, Located, PrepareSteps, TeardownSteps, TipRaised, Releasing, Toggled, ReleasedAtEnd
<1> QED  BY <1>1, <1>2, <1>3, TypeCorrect, ApproachAccountedHolds, PTL DEF Spec

-----------------------------------------------------------------------------
(***************************************************************************)
(* The readings.                                                           *)
(***************************************************************************)

\* The session that is streamed was started after the channels were set, unless the old
\* one could not be stopped.
Streaming ==
  /\ at = "run" => logger = "off" \/ "restart" \in failed
  /\ at = "attach" => logger = "new" \/ "restart" \in failed
  /\ main \in {"config", "connect", "names"} \/ (main = "stream" /\ step = "begin")
     \/ at \in StreamSteps => ~reader
  /\ reader /\ ~tornDown => logger = "new" \/ "restart" \in failed

\* Polled batches are full, and a reading is published when it is accepted.
Judged ==
  /\ at = "sample" => ~reader
  /\ at = "collect" => reader
  /\ at = "gate" /\ ~reader => got = NumSamples
  /\ reading # NoReading =>
       /\ op = "read" /\ at = "idle"
       /\ \/ reading.source = "polled" /\ reading.size = NumSamples
          \/ reading.source = "stream" /\ reader
       /\ reading.attempt = MaxRetries \/ (reading.stable /\ ~TooFew(reading.size))

\* Every published reading was polled in full or streamed in a session of the program,
\* and is of at least half the samples and quiet while a retry is left.
THEOREM ReadingsFresh == Spec => [](Judged /\ (reading # NoReading => IsFresh))
<1> DEFINE Inv == Streaming /\ Judged
<1>1. Init => Inv
  BY DEF Init, ControllerInit, Streaming, Judged
<1>2. TypeOK /\ Control /\ Releasing /\ Inv /\ [Next]_vars => Inv'
  <2> SUFFICES ASSUME TypeOK, Control, Releasing, Inv, [Next]_vars PROVE Inv'
    OBVIOUS
  <2> USE CallRecorded, ControllerAssumption
      DEF Releasing, TypeOK, Control, Located, Awaited, Staged, PrepareSteps, StreamSteps, TeardownSteps,
          ApproachSteps, ReadSteps, Streaming, Judged, Sampled, After, Recorded, NoReading,
          Proceed, Leave, GoOn, EndRoutine, Begin, Goto, Return, Try, Endings, Outcomes, Replies,
          cvars, control, controller, instrument, motion, sampling, locals, history, setting,
          program, vars
  <2>1. CASE LoadConfig \/ Connect \/ BuildRegistry
    BY <2>1 DEF LoadConfig, Connect, BuildRegistry
  <2>2. CASE SetupEventBus \/ SetupShutdownHandler \/ Confirm
    BY <2>2 DEF SetupEventBus, SetupShutdownHandler, Confirm
  <2>3. CASE SetupStream \/ StreamSetUp
    BY <2>3 DEF SetupStream, BeginStreaming, StreamSetUp
  <2>4. CASE Prepare \/ Prepared
    BY <2>4 DEF Prepare, BeginPrepare, Prepared
  <2>5. CASE InitialSettings \/ Approach \/ Settle
    BY <2>5 DEF InitialSettings, Approach, BeginApproach, Settle
  <2>6. CASE OperationEnds \/ RoutineEnds
    BY <2>6 DEF OperationEnds, RoutineEnds
  <2>7. CASE ReadStable \/ Reposition \/ RepositionMove \/ SweepWithdraw
    BY <2>7 DEF ReadStable, BeginReading, Reposition, BeginWithdraw, RepositionMove, BeginMove,
       SweepWithdraw
  <2>8. CASE CleanupWithdraw \/ CleanupWithdrawn \/ CleanupTeardown
    BY <2>8 DEF CleanupWithdraw, BeginWithdraw, CleanupWithdrawn, CleanupTeardown, BeginTeardown
  <2>9. CASE RunReturns \/ DropController \/ Ended
    BY <2>9 DEF RunReturns, ExitCode, DropController, BeginTeardown, Ended
  <2>10. CASE Interrupt
    BY <2>10 DEF Interrupt
  <2>11. CASE UNCHANGED program /\ (LoadLayout \/ LoadSettings \/ SetZHome \/ SafeTipConfigure)
    BY <2>11 DEF LoadLayout, LoadSettings, SetZHome, SafeTipConfigure
  <2>12. CASE UNCHANGED program /\ (ReadMode \/ ToggleOutput \/ UntoggleOutput)
    BY <2>12 DEF ReadMode, ToggleOutput, UntoggleOutput
  <2>13. CASE UNCHANGED program /\ (SetChannels \/ SetOversampling \/ StopLingering \/ StartLogger
              \/ AttachReader)
    BY <2>13 DEF SetChannels, SetOversampling, StopLingering, StartLogger, AttachReader
  <2>14. CASE UNCHANGED program /\ (Teardown \/ StopStream \/ StopReader \/ ReleaseSafeTip)
    BY <2>14 DEF Teardown, StopStream, StopReader, ReleaseSafeTip
  <2>15. CASE UNCHANGED program /\ CheckApproach
    BY <2>15 DEF CheckApproach
  <2>16. CASE UNCHANGED program /\ OpenModule
    BY <2>16 DEF OpenModule
  <2>17. CASE UNCHANGED program /\ StartApproach
    BY <2>17 DEF StartApproach
  <2>18. CASE UNCHANGED program /\ PollApproach
    BY <2>18 DEF PollApproach
  <2>19. CASE UNCHANGED program /\ Pause
    BY <2>19 DEF Pause
  <2>20. CASE UNCHANGED program /\ HaltApproach
    BY <2>20 DEF HaltApproach
  <2>21. CASE UNCHANGED program /\ (Expire \/ ApproachEnds)
    BY <2>21 DEF Expire, ApproachEnds
  <2>22. CASE UNCHANGED program /\ (Withdraw \/ MoveAxis \/ MoveNothing)
    BY <2>22 DEF Withdraw, MoveAxis, MoveNothing
  <2>23. CASE UNCHANGED program /\ (ReadSamples(freqShift.index) \/ ReadSignal \/ CollectSamples)
    BY <2>23 DEF ReadSamples, ReadSignal, CollectSamples
  <2>24. CASE UNCHANGED program /\ (Judge \/ Backoff)
    <3>1. CASE Backoff
      BY <2>24, <3>1 DEF Backoff
    <3>2. CASE Judge
      <4>1. PICK noiseOk \in Gates(got), driftOk \in Gates(got) :
              IF Retries(noiseOk /\ driftOk)
                THEN Goto("backoff") /\ UNCHANGED reading
                ELSE /\ Return("ok")
                     /\ reading' = [size |-> got, stable |-> noiseOk /\ driftOk, attempt |-> attempt,
                                    source |-> IF reader THEN "stream" ELSE "polled"]
        BY <3>2 DEF Judge
      <4>2. UNCHANGED <<controller, instrument, program, history, got, attempt>> /\ at = "gate"
        BY <2>24, <3>2 DEF Judge
      <4>3. noiseOk \in BOOLEAN /\ driftOk \in BOOLEAN
        BY DEF Gates
      <4>4. CASE Retries(noiseOk /\ driftOk)
        BY <4>1, <4>2, <4>4
      <4>5. CASE ~Retries(noiseOk /\ driftOk)
        <5>1. attempt = MaxRetries \/ ((noiseOk /\ driftOk) /\ ~TooFew(got))
          BY <4>3, <4>5 DEF Retries
        <5>2. /\ reading'.size = got /\ reading'.attempt = attempt
              /\ reading'.stable = (noiseOk /\ driftOk)
              /\ reading'.source = IF reader THEN "stream" ELSE "polled"
              /\ at' = "idle" /\ op' = op
          BY <4>1, <4>5
        <5>3. reading'.attempt = MaxRetries \/ (reading'.stable /\ ~TooFew(reading'.size))
          <6> HIDE DEF TypeOK, Control, Streaming, Judged
          <6> QED  BY <4>3, <5>1, <5>2
        <5> QED  BY <4>2, <5>2, <5>3
      <4> QED  BY <4>4, <4>5
    <3> QED  BY <2>24, <3>1, <3>2
  <2>25. CASE Terminated \/ UNCHANGED vars
    BY <2>25 DEF Terminated, vars
  <2> HIDE DEF TypeOK, Control, Streaming, Judged, Sampled, NoReading
  <2> QED  BY <2>1, <2>2, <2>3, <2>4, <2>5, <2>6, <2>7, <2>8, <2>9, <2>10, <2>11, <2>12, <2>13,
              <2>14, <2>15, <2>16, <2>17, <2>18, <2>19, <2>20, <2>21, <2>22, <2>23, <2>24, <2>25
           DEF Next, Main, Calls, Timeout, Instrument, ControllerStep, ReadingStep
<1>3. Releasing /\ Inv => (reading # NoReading => IsFresh)
  BY DEF Releasing, Streaming, Judged, IsFresh
<1> QED  BY <1>1, <1>2, <1>3, TypeCorrect, ReleasedAtEndHolds, PTL DEF Spec

-----------------------------------------------------------------------------
(***************************************************************************)
(* The signal that is read.                                                *)
(***************************************************************************)

\* What the table knows of a signal: its name and its channel are those of its index.
IsEntry(s) ==
  LET tcp == Registry!TcpMap(config)
  IN  /\ s.index \in DOMAIN names /\ s.name = names[s.index]
      /\ s.channel = IF s.index \in DOMAIN tcp THEN tcp[s.index] ELSE -1

\* A name that is reported more than once stands for the last of its signals.
LEMMA TableEntries ==
  ASSUME config \in Mappings, names \in Reports
  PROVE  /\ \A s \in Registry!Range(Table) : IsEntry(s) /\ (s.channel # -1 => s.channel \in 0 .. 255)
         /\ \A key \in DOMAIN Table : \E i \in DOMAIN names : key \in {names[i], Registry!CleanName(names[i])}
         /\ \A key :
              LET same == {i \in DOMAIN names : key \in {names[i], Registry!CleanName(names[i])}}
              IN  same # {} => key \in DOMAIN Table /\ Table[key].index = Max(same)
<1>1. DOMAIN names \subseteq 0 .. 127
  BY SignalsAssumption
<1>2. ASSUME NEW S, S \subseteq 0 .. 127, S # {}
      PROVE  Max(S) \in S
  <2> DEFINE T == {127 - x : x \in S}
  <2>0. \A x \in S : 127 - x \in Nat
    BY <1>2
  <2>1. T \subseteq Nat /\ T # {}
    BY <1>2, <2>0
  <2>2. PICK x \in T : \A y \in T : ~ (<<y, x>> \in OpToRel(<, Nat))
    <3> HIDE DEF T
    <3> QED  BY <2>1, NatLessThanWellFounded, WFMin, Zenon
  <2>3. \A y \in T : ~(y < x)
    <3> HIDE DEF T
    <3> QED  BY <2>1, <2>2, Zenon DEF OpToRel
  <2>4. PICK m \in S : x = 127 - m
    OBVIOUS
  <2>5. \A y \in S : m >= y
    <3> TAKE y \in S
    <3>1. 127 - y \in T
      OBVIOUS
    <3>2. ~(127 - y < 127 - m)
      BY <2>3, <2>4, <3>1
    <3>3. y \in 0 .. 127 /\ m \in 0 .. 127
      BY <1>2
    <3> QED  BY <3>2, <3>3
  <2> QED  BY <2>5 DEF Max
<1> DEFINE KeysOf(i) == {names[i], Registry!CleanName(names[i])}
           Same(key) == {i \in DOMAIN names : key \in KeysOf(i)}
           tcp == Registry!TcpMap(config)
<1>3. /\ DOMAIN Table = UNION {KeysOf(i) : i \in DOMAIN names}
      /\ \A key \in DOMAIN Table : Table[key] = Registry!SignalOf(names, Max(Same(key)), tcp)
  <2>1. \A S : Registry!Max(S) = Max(S)
    BY DEF Registry!Max, Max
  <2> QED  BY <2>1 DEF Table, Registry!FromSignalNames
<1>4. \A key \in DOMAIN Table : Same(key) # {}
  BY <1>3
<1>5. \A key : Same(key) # {} => key \in DOMAIN Table
  BY <1>3
<1>6. \A key \in DOMAIN Table : Max(Same(key)) \in DOMAIN names /\ Max(Same(key)) \in 0 .. 127
  BY <1>1, <1>2, <1>4
<1>7. \A i \in 0 .. 127 : i % 256 = i
  OBVIOUS
<1>8. \A key \in DOMAIN Table :
        /\ Table[key].index = Max(Same(key))
        /\ Table[key].name = names[Max(Same(key))]
        /\ Table[key].channel = IF Max(Same(key)) \in DOMAIN tcp THEN tcp[Max(Same(key))] ELSE -1
  <2> HIDE DEF Same, tcp
  <2>1. ASSUME NEW i, i % 256 = i
        PROVE  Registry!SignalOf(names, i, tcp) =
                 [name |-> names[i], index |-> i, channel |-> IF i \in DOMAIN tcp THEN tcp[i] ELSE -1]
    BY <2>1 DEF Registry!SignalOf, Registry!NoChannel
  <2> QED  BY <1>3, <1>6, <1>7, <2>1
<1>9. \A i \in DOMAIN tcp : tcp[i] \in 0 .. 255
  <2>1. /\ DOMAIN config \subseteq 0 .. 255
        /\ \A i \in DOMAIN config : config[i] \in 0 .. 255
    BY SignalsAssumption
  <2>2. \A i \in DOMAIN Registry!StandardMap : Registry!StandardMap[i] \in 0 .. 255
    BY DEF Registry!StandardMap
  <2> QED  BY <2>1, <2>2 DEF Registry!TcpMap
<1>10. \A s \in Registry!Range(Table) : \E key \in DOMAIN Table : s = Table[key]
  BY DEF Registry!Range
<1>11. ASSUME NEW s \in Registry!Range(Table)
       PROVE  IsEntry(s) /\ (s.channel # -1 => s.channel \in 0 .. 255)
  <2>1. PICK key \in DOMAIN Table : s = Table[key]
    BY <1>10
  <2>2. /\ s.index = Max(Same(key)) /\ s.index \in DOMAIN names /\ s.name = names[s.index]
        /\ s.channel = IF s.index \in DOMAIN tcp THEN tcp[s.index] ELSE -1
    BY <1>6, <1>8, <2>1
  <2> HIDE DEF Same
  <2> QED  BY <1>9, <2>2 DEF IsEntry
<1>12. \A key : Same(key) # {} => key \in DOMAIN Table /\ Table[key].index = Max(Same(key))
  BY <1>5, <1>8
<1>13. \A key \in DOMAIN Table : \E i \in DOMAIN names : key \in KeysOf(i)
  BY <1>4
<1> QED  BY <1>11, <1>12, <1>13

\* The channels are streamed in their order, each at the position the mapping gives.
LEMMA ChannelPositions ==
  ASSUME NEW S, \A s \in S : s.channel \in 0 .. 255,
         \A s, t \in S : s.index = t.index => s.channel = t.channel,
         NEW s \in S
  PROVE  /\ s.index \in DOMAIN SignalMapping(S)
         /\ SignalMapping(S)[s.index] \in DOMAIN Channels(S)
         /\ Channels(S)[SignalMapping(S)[s.index]] = s.channel
<1> DEFINE used == {t.channel : t \in S}
           Below(c) == {d \in used : d < c}
<1>0. \A c \in used : c \in Nat /\ c <= 255
  OBVIOUS
<1>1. IsFiniteSet(used)
  BY <1>0, FS_BoundedSetOfNaturals
<1>2. Cardinality(used) \in Nat
  BY <1>1, FS_CardinalityType
<1>3. \A c \in used : IsFiniteSet(Below(c)) /\ Cardinality(Below(c)) \in Nat
  BY <1>1, FS_Subset, FS_CardinalityType
<1>4. ASSUME NEW c \in used, NEW U, Below(c) \cup {c} \subseteq U, IsFiniteSet(U)
      PROVE  Cardinality(Below(c)) + 1 <= Cardinality(U)
  <2>1. c \notin Below(c)
    BY <1>0
  <2>2. Cardinality(Below(c) \cup {c}) = Cardinality(Below(c)) + 1
    BY <1>3, <2>1, FS_AddElement
  <2> QED  BY <1>4, <2>2, FS_Subset
<1>5. \A c \in used : Cardinality(Below(c)) + 1 \in 1 .. Cardinality(used)
  <2> TAKE c \in used
  <2>1. Below(c) \cup {c} \subseteq used
    OBVIOUS
  <2>2. Cardinality(Below(c)) + 1 <= Cardinality(used)
    BY <1>1, <1>4, <2>1
  <2> HIDE DEF Below, used
  <2> QED  BY <1>2, <1>3, <2>2
<1>6. ASSUME NEW c \in used, NEW e \in used, c < e
      PROVE  Cardinality(Below(c)) < Cardinality(Below(e))
  <2>1. Below(c) \cup {c} \subseteq Below(e)
    <3> HIDE DEF used
    <3> QED  BY <1>0, <1>6
  <2>2. Cardinality(Below(c)) + 1 <= Cardinality(Below(e))
    BY <1>3, <1>4, <2>1
  <2> HIDE DEF Below, used
  <2> QED  BY <1>3, <2>2
<1>7. \A c, e \in used : Cardinality(Below(c)) = Cardinality(Below(e)) => c = e
  <2> TAKE c, e \in used
  <2>1. c < e \/ e < c \/ c = e
    <3> HIDE DEF used
    <3> QED  BY <1>0
  <2> HIDE DEF Below, used
  <2> QED  BY <1>3, <1>6, <2>1
<1>8. /\ DOMAIN Channels(S) = 1 .. Cardinality(used)
      /\ \A p \in 1 .. Cardinality(used) :
           Channels(S)[p] = CHOOSE c \in used : Cardinality(Below(c)) = p - 1
  BY DEF Channels
<1>9. \A c \in used : \E p \in DOMAIN Channels(S) : Channels(S)[p] = c
  <2> TAKE c \in used
  <2> DEFINE p == Cardinality(Below(c)) + 1
  <2>1. p \in DOMAIN Channels(S) /\ p - 1 = Cardinality(Below(c))
    <3>1. Cardinality(Below(c)) \in Nat /\ Cardinality(Below(c)) + 1 \in DOMAIN Channels(S)
      BY <1>3, <1>5, <1>8
    <3> HIDE DEF Below
    <3> QED  BY <3>1
  <2>2. Channels(S)[p] = CHOOSE e \in used : Cardinality(Below(e)) = p - 1
    BY <1>8, <2>1
  <2>3. c = CHOOSE e \in used : Cardinality(Below(e)) = p - 1
    <3> HIDE DEF p, used
    <3>1. \A e \in used : Cardinality(Below(e)) = p - 1 <=> e = c
      BY <1>7, <2>1
    <3> QED  BY <3>1
  <2> QED  BY <2>1, <2>2, <2>3
<1>10. \A c \in used : /\ PositionOf(c, S) \in DOMAIN Channels(S)
                       /\ Channels(S)[PositionOf(c, S)] = c
  BY <1>9 DEF PositionOf
<1>11. /\ s.index \in DOMAIN SignalMapping(S)
       /\ SignalMapping(S)[s.index] = PositionOf((CHOOSE t \in S : t.index = s.index).channel, S)
  BY DEF SignalMapping
<1>12. (CHOOSE t \in S : t.index = s.index).channel = s.channel
  OBVIOUS
<1> QED  BY <1>10, <1>11, <1>12

\* The signals the routine may find under "freq shift".
Candidates == Claims(FreqShift)

\* Whichever it finds is a signal that is reported as the frequency shift: the last under
\* that name, or one that claims it as an alias.
LEMMA FreqShiftFound ==
  ASSUME config \in Mappings, names \in Reports, NEW s \in Candidates
  PROVE  IsFreqShift(s.index)
<1> DEFINE exact == {k \in DOMAIN names : names[k].words = FreqShift}
           key == Registry!Named(FreqShift)
<1>1. key = [words |-> FreqShift, unit |-> ""] /\ key.words = FreqShift
  BY DEF Registry!Named
<1>2. {i \in DOMAIN names : key \in {names[i], Registry!CleanName(names[i])}} = exact
  <2> SUFFICES ASSUME NEW i \in DOMAIN names
               PROVE  key \in {names[i], Registry!CleanName(names[i])} <=> names[i].words = FreqShift
    OBVIOUS
  <2>1. Registry!CleanName(names[i]) = [words |-> names[i].words, unit |-> ""]
    BY DEF Registry!CleanName, Registry!Named
  <2>2. key = names[i] => names[i].words = FreqShift
    <3> HIDE DEF key
    <3> QED  BY <1>1
  <2>3. key = Registry!CleanName(names[i]) <=> names[i].words = FreqShift
    <3>1. \A w : [words |-> w, unit |-> ""].words = w
      OBVIOUS
    <3>2. \A w : [words |-> w, unit |-> ""] = [words |-> FreqShift, unit |-> ""] <=> w = FreqShift
      BY <3>1
    <3> HIDE DEF key
    <3> QED  BY <1>1, <2>1, <3>2
  <2> QED  BY <2>2, <2>3
<1>3. CASE exact # {}
  <2>1. key \in DOMAIN Table /\ Table[key].index = Max(exact)
    <3> HIDE DEF key, exact
    <3> QED  BY <1>2, <1>3, TableEntries
  <2>2. Candidates = {Table[key]}
    BY <2>1 DEF Candidates, Claims, Registry!CreateAliases
  <2> QED  BY <1>3, <2>1, <2>2 DEF IsFreqShift
<1>4. CASE exact = {}
  <2>1. key \notin DOMAIN Table
    BY <1>2, <1>4, TableEntries
  <2>2. s \in Registry!Range(Table) /\ key \in {Registry!Named(a) : a \in Registry!Aliases(s.name.words)}
    BY <2>1 DEF Candidates, Claims, Registry!CreateAliases
  <2>3. FreqShift \in Registry!Aliases(s.name.words)
    BY <2>2 DEF Registry!Named
  <2>4. s.index \in DOMAIN names /\ s.name = names[s.index]
    BY <2>2, TableEntries DEF IsEntry
  <2>5. FreqShift \notin {Registry!Initials(s.name.words)}
    BY DEF FreqShift, Registry!Initials
  <2>6. ASSUME NEW p \in Registry!AliasPatterns, FreqShift \in p[2]
        PROVE  p[1] = <<"oc", "m1", "freq.", "shift">>
    BY <2>6 DEF FreqShift, Registry!AliasPatterns
  <2>7. \/ Registry!ContainsPattern(s.name.words, <<"oc", "m1", "freq.", "shift">>)
        \/ Registry!Abbreviated(s.name.words) = FreqShift
    <3> DEFINE words == s.name.words
    <3>1. CASE FreqShift \in Registry!PatternAliases(words)
      <4>1. PICK p \in Registry!AliasPatterns :
              Registry!ContainsPattern(words, p[1]) /\ FreqShift \in p[2]
        BY <3>1 DEF Registry!PatternAliases
      <4> QED  BY <2>6, <4>1
    <3>2. CASE FreqShift \notin Registry!PatternAliases(words)
      BY <2>3, <2>5, <3>2 DEF Registry!Aliases
    <3> QED  BY <3>1, <3>2
  <2> QED  BY <1>4, <2>4, <2>7 DEF IsFreqShift
<1> QED  BY <1>3, <1>4

\* The signals that are streamed.
Signals == Registry!TcpSignals(Table)

\* The instrument streams the channels of the table's signals and the mapping is theirs;
\* a streamed reading is of a signal the mapping has.
Mapped ==
  /\ config \in Mappings /\ names \in Reports
  /\ at \in {"channels", "oversampling"} => pending = Signals /\ ~configured
  /\ at = "oversampling" => streamed = Channels(Signals)
  /\ configured => streamed = Channels(Signals) /\ mapping = SignalMapping(Signals)
  /\ main \in {"config", "connect", "names"} \/ (main = "stream" /\ step = "begin") => ~configured
  /\ at = "collect" \/ (at = "gate" /\ reader) \/ reading.source = "stream" =>
       configured /\ freqShift.index \in DOMAIN mapping
  /\ main \in {"stream", "bus", "handler", "prompt", "prepare", "routine"} \/ op = "read" =>
       freqShift \in Candidates

\* ReadingsAreSound: a published reading was accepted for a reason and is of the signal
\* reported as the frequency shift, and streamed samples come from the position of that
\* signal's own channel, whatever the instrument reports and however the channels are
\* mapped.
THEOREM ReadingsAreSoundHolds == Spec => [](Mapped /\ ReadingsAreSound)
<1>1. Init => Mapped
  BY DEF Init, ControllerInit, Mapped, NoReading
<1>2. TypeOK /\ Control /\ Judged /\ Mapped /\ [Next]_vars => Mapped'
  <2> SUFFICES ASSUME TypeOK, Control, Judged, Mapped, [Next]_vars PROVE Mapped'
    OBVIOUS
  <2>0. UNCHANGED setting => Signals' = Signals /\ Candidates' = Candidates
    BY DEF setting, Signals, Candidates, Claims, Table
  <2> USE CallRecorded, ControllerAssumption, <2>0
      DEF TypeOK, Control, Located, Awaited, Staged, PrepareSteps, StreamSteps, TeardownSteps,
          ApproachSteps, ReadSteps, Judged, Mapped, After, NoReading, Proceed, Leave, GoOn,
          EndRoutine, Begin, Goto, Return, Try, Endings, Outcomes, Replies, cvars, control,
          controller, instrument, motion, sampling, locals, history, setting, program, vars
  <2>1. CASE LoadConfig \/ Connect \/ BuildRegistry
    <3>1. Candidates = Claims(FreqShift)
      BY DEF Candidates
    <3> QED  BY <2>1, <3>1 DEF LoadConfig, Connect, BuildRegistry
  <2>2. CASE SetupEventBus \/ SetupShutdownHandler \/ Confirm
    BY <2>2 DEF SetupEventBus, SetupShutdownHandler, Confirm
  <2>3. CASE SetupStream \/ StreamSetUp
    <3>1. Signals = Registry!TcpSignals(Table)
      BY DEF Signals
    <3> QED  BY <2>3, <3>1 DEF SetupStream, BeginStreaming, StreamSetUp
  <2>4. CASE Prepare \/ Prepared
    BY <2>4 DEF Prepare, BeginPrepare, Prepared
  <2>5. CASE InitialSettings \/ Approach \/ Settle
    BY <2>5 DEF InitialSettings, Approach, BeginApproach, Settle
  <2>6. CASE OperationEnds \/ RoutineEnds
    BY <2>6 DEF OperationEnds, RoutineEnds
  <2>7. CASE ReadStable \/ Reposition \/ RepositionMove \/ SweepWithdraw
    BY <2>7 DEF ReadStable, BeginReading, Reposition, BeginWithdraw, RepositionMove, BeginMove,
       SweepWithdraw
  <2>8. CASE CleanupWithdraw \/ CleanupWithdrawn \/ CleanupTeardown
    BY <2>8 DEF CleanupWithdraw, BeginWithdraw, CleanupWithdrawn, CleanupTeardown, BeginTeardown
  <2>9. CASE RunReturns \/ DropController \/ Ended
    BY <2>9 DEF RunReturns, ExitCode, DropController, BeginTeardown, Ended
  <2>10. CASE Interrupt
    BY <2>10 DEF Interrupt
  <2>11. CASE UNCHANGED program /\ (LoadLayout \/ LoadSettings \/ SetZHome \/ SafeTipConfigure)
    BY <2>11 DEF LoadLayout, LoadSettings, SetZHome, SafeTipConfigure
  <2>12. CASE UNCHANGED program /\ (ReadMode \/ ToggleOutput \/ UntoggleOutput)
    BY <2>12 DEF ReadMode, ToggleOutput, UntoggleOutput
  <2>13. CASE UNCHANGED program /\ (SetChannels \/ SetOversampling \/ StopLingering \/ StartLogger
              \/ AttachReader)
    BY <2>13 DEF SetChannels, SetOversampling, StopLingering, StartLogger, AttachReader
  <2>14. CASE UNCHANGED program /\ (Teardown \/ StopStream \/ StopReader \/ ReleaseSafeTip)
    BY <2>14 DEF Teardown, StopStream, StopReader, ReleaseSafeTip
  <2>15. CASE UNCHANGED program /\ CheckApproach
    BY <2>15 DEF CheckApproach
  <2>16. CASE UNCHANGED program /\ OpenModule
    BY <2>16 DEF OpenModule
  <2>17. CASE UNCHANGED program /\ StartApproach
    BY <2>17 DEF StartApproach
  <2>18. CASE UNCHANGED program /\ PollApproach
    BY <2>18 DEF PollApproach
  <2>19. CASE UNCHANGED program /\ Pause
    BY <2>19 DEF Pause
  <2>20. CASE UNCHANGED program /\ HaltApproach
    BY <2>20 DEF HaltApproach
  <2>21. CASE UNCHANGED program /\ (Expire \/ ApproachEnds)
    BY <2>21 DEF Expire, ApproachEnds
  <2>22. CASE UNCHANGED program /\ (Withdraw \/ MoveAxis \/ MoveNothing)
    BY <2>22 DEF Withdraw, MoveAxis, MoveNothing
  <2>23. CASE UNCHANGED program /\ (ReadSamples(freqShift.index) \/ ReadSignal \/ CollectSamples)
    BY <2>23 DEF ReadSamples, ReadSignal, CollectSamples
  <2>24. CASE UNCHANGED program /\ (Judge \/ Backoff)
    BY <2>24 DEF Judge, Retries, Backoff
  <2>25. CASE Terminated \/ UNCHANGED vars
    BY <2>25 DEF Terminated, vars
  <2> HIDE DEF TypeOK, Control, Judged, Mapped
  <2> QED  BY <2>1, <2>2, <2>3, <2>4, <2>5, <2>6, <2>7, <2>8, <2>9, <2>10, <2>11, <2>12, <2>13,
              <2>14, <2>15, <2>16, <2>17, <2>18, <2>19, <2>20, <2>21, <2>22, <2>23, <2>24, <2>25
           DEF Next, Main, Calls, Timeout, Instrument, ControllerStep, ReadingStep
<1>3. ASSUME TypeOK, Judged, Mapped, reading # NoReading => IsFresh
      PROVE  ReadingsAreSound
  <2> SUFFICES ASSUME reading # NoReading
               PROVE  /\ IsFresh /\ IsFreqShift(freqShift.index)
                      /\ reading.attempt < MaxRetries => reading.stable /\ ~TooFew(reading.size)
                      /\ reading.source = "stream" =>
                           /\ mapping[freqShift.index] \in DOMAIN streamed
                           /\ streamed[mapping[freqShift.index]] = Registry!TcpMap(config)[freqShift.index]
    BY DEF ReadingsAreSound
  <2>1. /\ IsFreqShift(freqShift.index)
        /\ reading.attempt < MaxRetries => reading.stable /\ ~TooFew(reading.size)
    BY <1>3, FreqShiftFound, ControllerAssumption DEF Judged, Mapped
  <2>2. \A s \in Signals : /\ s.channel = Registry!TcpMap(config)[s.index]
                           /\ s.channel \in 0 .. 255
    BY <1>3, TableEntries
       DEF Mapped, Signals, Registry!TcpSignals, Registry!NoChannel, IsEntry
  <2>3. CASE reading.source = "stream"
    <3>1. /\ streamed = Channels(Signals) /\ mapping = SignalMapping(Signals)
          /\ freqShift.index \in DOMAIN mapping
      BY <1>3, <2>3 DEF Mapped
    <3>2. PICK s \in Signals : s.index = freqShift.index
      BY <3>1 DEF SignalMapping
    <3>3. \A s1, s2 \in Signals : s1.index = s2.index => s1.channel = s2.channel
      BY <2>2
    <3>4. /\ SignalMapping(Signals)[s.index] \in DOMAIN Channels(Signals)
          /\ Channels(Signals)[SignalMapping(Signals)[s.index]] = s.channel
      BY <2>2, <3>3, ChannelPositions
    <3> QED  BY <1>3, <2>1, <2>2, <3>1, <3>2, <3>4
  <2> QED  BY <1>3, <2>1, <2>3
<1> QED  BY <1>1, <1>2, <1>3, TypeCorrect, ReadingsFresh, PTL DEF Spec

-----------------------------------------------------------------------------
(***************************************************************************)
(* The motor.                                                              *)
(***************************************************************************)

\* What the motor has moved is the beginning of what it was told to move.
Moving ==
  /\ target \in Seq({"x", "y", "z"}) /\ moved \in Seq({"x", "y", "z"})
  /\ \A i, j \in DOMAIN target : i # j => target[i] # target[j]
  /\ op = "move" /\ answer = "ok" => moved = target
  /\ Len(moved) <= Len(target) /\ \A i \in 1 .. Len(moved) : moved[i] = target[i]
  /\ at = "move" /\ target # << >> => Len(moved) < Len(target)

\* MovesInTurn: the axes are moved one after the other, each once, and never with the tip
\* on the surface unless an approach nobody waits for has brought it there.
THEOREM MovesInTurnHolds == Spec => MovesInTurn
<1> DEFINE Step == /\ Len(moved') > Len(moved) =>
                        /\ \E axis \in Axes(target) \ Axes(moved) : moved' = Append(moved, axis)
                        /\ tip = "clear" \/ loose # "no"
                   /\ op' = "move" /\ answer' = "ok" => Axes(moved') = Axes(target')
           \* No motor step, and no move that ends.
           Still == /\ UNCHANGED motion
                    /\ at' = "move" => at = "move"
                    /\ op' = "move" /\ answer' = "ok" => op = "move" /\ answer = "ok"
<1>1. Init => Moving
  <2>1. << >> \in Seq({"x", "y", "z"}) /\ Len(<< >>) = 0
    OBVIOUS
  <2> QED  BY <2>1 DEF Init, ControllerInit, Moving
<1>2. TypeOK /\ Control /\ TipRaised /\ Moving /\ [Next]_vars => Moving' /\ Step
  <2> SUFFICES ASSUME TypeOK, Control, TipRaised, Moving, [Next]_vars PROVE Moving' /\ Step
    OBVIOUS
  <2>1. /\ target \in Seq({"x", "y", "z"}) /\ moved \in Seq({"x", "y", "z"})
        /\ Len(target) \in Nat /\ Len(moved) \in Nat
        /\ Len(moved) <= Len(target) /\ \A i \in 1 .. Len(moved) : moved[i] = target[i]
        /\ \A i, j \in DOMAIN target : i # j => target[i] # target[j]
    BY DEF Moving
  <2>2. ASSUME Still
        PROVE  Moving' /\ Step
    BY <2>1, <2>2 DEF Moving, motion
  <2>3. ASSUME NEW name, NEW first, NEW signals, NEW axes \in Seq({"x", "y", "z"}),
               \A i, j \in DOMAIN axes : i # j => axes[i] # axes[j],
               Begin(name, first, signals, axes)
        PROVE  Moving' /\ Step
    <3>1. target' = axes /\ moved' = << >> /\ answer' = "none"
      BY <2>3 DEF Begin
    <3>2. /\ << >> \in Seq({"x", "y", "z"}) /\ Len(<< >>) = 0 /\ Len(axes) \in Nat
          /\ axes # << >> => Len(axes) > 0
      OBVIOUS
    <3>3. Step
      BY <2>1, <3>1, <3>2
    <3>4. Moving'
      <4> HIDE DEF Step
      <4> QED  BY <2>3, <3>1, <3>2 DEF Moving
    <3> QED  BY <3>3, <3>4
  <2>4. CASE SetupStream \/ Prepare \/ Approach
    <3>1. << >> \in Seq({"x", "y", "z"}) /\ \A i, j \in DOMAIN << >> : i # j => << >>[i] # << >>[j]
      OBVIOUS
    <3> QED  BY <2>3, <2>4, <3>1
             DEF SetupStream, BeginStreaming, Prepare, BeginPrepare, Approach, BeginApproach
  <2>5. CASE \/ ReadStable \/ Reposition \/ SweepWithdraw
             \/ CleanupWithdraw \/ CleanupTeardown \/ DropController
    <3>1. << >> \in Seq({"x", "y", "z"}) /\ \A i, j \in DOMAIN << >> : i # j => << >>[i] # << >>[j]
      OBVIOUS
    <3> QED  BY <2>3, <2>5, <3>1
             DEF ReadStable, BeginReading, Reposition, SweepWithdraw, CleanupWithdraw,
                 BeginWithdraw, CleanupTeardown, DropController, BeginTeardown
  <2>6. CASE RepositionMove
    BY <2>3, <2>6, ControllerAssumption DEF RepositionMove, BeginMove
  <2>7. CASE MoveAxis
    <3> DEFINE longer == Append(moved, target[Len(moved) + 1])
    <3>1. PICK r \in Replies :
            /\ moved' \in After(r, moved, longer)
            /\ IF r = "ok" /\ Len(moved') < Len(target) THEN Goto("move") ELSE Return(r)
      BY <2>7 DEF MoveAxis
    <3>2. /\ at = "move" /\ Len(moved) < Len(target)
          /\ UNCHANGED <<target, tip, loose>>
      BY <2>7 DEF MoveAxis, instrument
    <3>3. /\ longer \in Seq({"x", "y", "z"}) /\ Len(longer) = Len(moved) + 1
          /\ \A i \in 1 .. Len(longer) : longer[i] = target[i]
      <4>1. target[Len(moved) + 1] \in {"x", "y", "z"}
        BY <2>1, <3>2
      <4> QED  BY <2>1, <4>1
    <3> HIDE DEF longer
    <3>4. tip = "clear" \/ loose # "no"
      BY <3>2 DEF TipRaised
    <3>5. CASE moved' = longer
      <4>1. \E axis \in Axes(target) \ Axes(moved) : moved' = Append(moved, axis)
        <5> DEFINE axis == target[Len(moved) + 1]
        <5>1. axis \in Axes(target)
          BY <2>1, <3>2 DEF Axes
        <5>2. axis \notin Axes(moved)
          BY <2>1, <3>2 DEF Axes
        <5> QED  BY <3>5, <5>1, <5>2 DEF longer
      <4>2. Len(longer) = Len(target) => longer = target
        BY <2>1, <3>3
      <4>3. Len(longer) < Len(target) \/ Len(longer) = Len(target)
        BY <2>1, <3>2, <3>3
      <4>4. answer' = "ok" => ~(Len(longer) < Len(target))
        BY <3>1, <3>2, <3>5 DEF Goto, Return, TypeOK
      <4>5. at' = "move" => Len(longer) < Len(target)
        BY <3>1, <3>5 DEF Goto, Return
      <4>6. Len(longer) = Len(target) => Axes(longer) = Axes(target)
        BY <4>2
      <4>7. Step
        BY <3>2, <3>3, <3>4, <3>5, <4>1, <4>3, <4>4, <4>6
      <4>8. Moving'
        <5> HIDE DEF Step
        <5> QED  BY <2>1, <3>2, <3>3, <3>5, <4>2, <4>3, <4>4, <4>5 DEF Moving
      <4> QED  BY <4>7, <4>8
    <3>6. CASE moved' = moved /\ r # "ok"
      BY <2>1, <3>1, <3>2, <3>6 DEF Return, Moving
    <3> QED  BY <3>1, <3>5, <3>6 DEF After
  <2>8. CASE MoveNothing
    <3>1. moved = << >> /\ target = << >>
      BY <2>1, <2>8 DEF MoveNothing
    <3> QED  BY <2>1, <2>8, <3>1 DEF MoveNothing, Return, Moving, locals, motion
  <2>9. ASSUME [Next]_vars,
               ~(SetupStream \/ Prepare \/ Approach), ~RepositionMove,
               ~(\/ ReadStable \/ Reposition \/ SweepWithdraw
                 \/ CleanupWithdraw \/ CleanupTeardown \/ DropController),
               ~MoveAxis, ~MoveNothing
        PROVE  Still
    <3> USE CallRecorded, ControllerAssumption
        DEF TypeOK, Control, Located, Awaited, Staged, PrepareSteps, StreamSteps, TeardownSteps,
            ApproachSteps, ReadSteps, Proceed, Leave, GoOn, EndRoutine, Begin, Goto, Return, Try,
            Endings, Outcomes, Replies, cvars, control, controller, instrument, motion, sampling,
            locals, history, setting, program, vars
    <3>1. CASE LoadConfig \/ Connect \/ BuildRegistry \/ StreamSetUp \/ SetupEventBus \/
               SetupShutdownHandler \/ Confirm
      BY <3>1 DEF LoadConfig, Connect, BuildRegistry, StreamSetUp, SetupEventBus,
         SetupShutdownHandler, Confirm
    <3>2. CASE Interrupt
      BY <3>2 DEF Interrupt
    <3>3. CASE Prepared \/ InitialSettings \/ OperationEnds \/ Settle \/ RoutineEnds
      BY <3>3 DEF Prepared, InitialSettings, OperationEnds, Settle, RoutineEnds
    <3>4. CASE CleanupWithdrawn \/ RunReturns \/ Ended
      BY <3>4 DEF CleanupWithdrawn, RunReturns, ExitCode, Ended
    <3>5. CASE UNCHANGED program /\ (LoadLayout \/ LoadSettings \/ SetZHome \/ SafeTipConfigure \/
               ReadMode \/ ToggleOutput \/ UntoggleOutput)
      BY <3>5 DEF LoadLayout, LoadSettings, SetZHome, SafeTipConfigure, ReadMode, ToggleOutput,
         UntoggleOutput
    <3>6. CASE UNCHANGED program /\ (SetChannels \/ SetOversampling \/ StopLingering \/
               StartLogger \/ AttachReader)
      BY <3>6 DEF SetChannels, SetOversampling, StopLingering, StartLogger, AttachReader
    <3>7. CASE UNCHANGED program /\ (Teardown \/ StopStream \/ StopReader \/ ReleaseSafeTip)
      BY <3>7 DEF Teardown, StopStream, StopReader, ReleaseSafeTip
    <3>8. CASE UNCHANGED program /\ (CheckApproach \/ OpenModule \/ StartApproach)
      BY <3>8 DEF CheckApproach, OpenModule, StartApproach
    <3>9. CASE UNCHANGED program /\ (PollApproach \/ Pause \/ HaltApproach)
      BY <3>9 DEF PollApproach, Pause, HaltApproach
    <3>10. CASE UNCHANGED program /\ (Expire \/ ApproachEnds \/ Withdraw)
      BY <3>10 DEF Expire, ApproachEnds, Withdraw
    <3>11. CASE UNCHANGED program /\ (ReadSamples(freqShift.index) \/ ReadSignal \/ CollectSamples
                \/ Judge \/ Backoff)
      BY <3>11 DEF ReadSamples, ReadSignal, CollectSamples, Judge, Retries, Backoff
    <3>12. CASE Terminated \/ UNCHANGED vars
      BY <3>12 DEF Terminated, vars
    <3> HIDE DEF TypeOK, Control
    <3> QED  BY <2>9, <3>1, <3>2, <3>3, <3>4, <3>5, <3>6, <3>7, <3>8, <3>9, <3>10, <3>11, <3>12
             DEF Next, Main, Calls, Timeout, Instrument, ControllerStep, ReadingStep
  <2> QED  BY <2>2, <2>4, <2>5, <2>6, <2>7, <2>8, <2>9
<1>3. TypeOK /\ Control /\ TipRaised /\ Moving /\ [Next]_vars => [Step]_vars
  BY <1>2
<1> HIDE DEF Step
<1>4. Spec => []Moving
  BY <1>1, <1>2, TypeCorrect, ApproachAccountedHolds, PTL DEF Spec
<1>5. Spec => [][Step]_vars
  BY <1>3, <1>4, TypeCorrect, ApproachAccountedHolds, PTL DEF Spec
<1> QED  BY <1>5 DEF MovesInTurn, Step

-----------------------------------------------------------------------------
(***************************************************************************)
(* The program follows the life cycle of run_routine.                      *)
(***************************************************************************)

\* The parts of main() before and during the routine.
SetUp == {"config", "connect", "names", "stream", "bus", "handler", "prompt", "prepare"}

\* The routine's ending is handed on.
Reported ==
  /\ main \in SetUp \cup {"routine"} => ret = "none"
  /\ main \in {"withdraw", "teardown"} => ret \in Endings
  /\ main \in {"drop", "done"} => ret \in Endings \cup {"none", "prepareError"}

\* ImplementsLifecycle: every behaviour of the program is one of the life cycle that
\* run_routine promises, with all the calls to the instrument as stutters.
THEOREM LifecycleImplemented == Spec => ImplementsLifecycle
<1> USE DEF SetUp
<1>1. Init => Lifecycle!Init /\ Reported
  BY DEF Init, Lifecycle!Init, LifecyclePhase, Reported
<1>2. TypeOK /\ Control /\ Reported /\ [Next]_vars
        => Reported' /\ [Lifecycle!Next]_Lifecycle!vars
  <2> SUFFICES ASSUME TypeOK, Control, Reported, [Next]_vars
               PROVE  Reported' /\ [Lifecycle!Next]_Lifecycle!vars
    OBVIOUS
  <2> USE DEF Proceed, Leave, GoOn, EndRoutine, Endings, Outcomes, setting
  <2>1. ASSUME main \in SetUp, main' \in SetUp \cup {"drop", "done"},
               UNCHANGED <<ret, shutdown>>
        PROVE  Reported' /\ [Lifecycle!Next]_Lifecycle!vars
    BY <2>1 DEF Reported, LifecyclePhase, Lifecycle!vars
  <2>2. ASSUME UNCHANGED <<main, ret, shutdown>>
        PROVE  Reported' /\ [Lifecycle!Next]_Lifecycle!vars
    BY <2>2 DEF Reported, LifecyclePhase, Lifecycle!vars
  <2>3. ASSUME NEW e \in Endings, main = "routine", EndRoutine(e),
               e \in {"stoppedByUser", "shutdownRequested"} => shutdown
        PROVE  Reported' /\ [Lifecycle!Next]_Lifecycle!vars
    <3>1. LifecyclePhase = "running" /\ LifecyclePhase' = "withdraw" /\ ret' = e /\ shutdown' = shutdown
      BY <2>3 DEF LifecyclePhase
    <3>2. e \in Lifecycle!Endings
      BY <2>3 DEF Lifecycle!Endings, Lifecycle!Outcomes
    <3>3. Lifecycle!End(e)
      BY <2>3, <3>1 DEF Lifecycle!End
    <3> QED  BY <2>3, <3>2, <3>3 DEF Reported, Lifecycle!Next
  <2>4. CASE LoadConfig \/ Connect \/ BuildRegistry \/ SetupStream \/ StreamSetUp
             \/ SetupEventBus \/ SetupShutdownHandler \/ Confirm \/ Prepare
    BY <2>1, <2>4 DEF LoadConfig, Connect, BuildRegistry, SetupStream, StreamSetUp, SetupEventBus,
                      SetupShutdownHandler, Confirm, Prepare
  <2>5. CASE Prepared
    <3>1. main = "prepare" /\ ret = "none" /\ shutdown' = shutdown
      BY <2>5 DEF Prepared, Reported
    <3>2. CASE main' = "routine" /\ ret' = ret
      BY <3>1, <3>2 DEF Reported, LifecyclePhase, Lifecycle!Prepare, Lifecycle!Next
    <3>3. CASE main' = "drop" /\ ret' = "prepareError"
      BY <3>1, <3>3 DEF Reported, LifecyclePhase, Lifecycle!Prepare, Lifecycle!Next
    <3> QED  BY <2>5, <3>1, <3>2, <3>3 DEF Prepared
  <2>6. CASE InitialSettings
    <3>1. (main = "routine" /\ EndRoutine("fault")) \/ UNCHANGED <<main, ret, shutdown>>
      BY <2>6 DEF InitialSettings
    <3> QED  BY <2>2, <2>3, <3>1
  <2>7. CASE OperationEnds
    <3>1. (main = "routine" /\ EndRoutine("fault")) \/ UNCHANGED <<main, ret, shutdown>>
      BY <2>7 DEF OperationEnds
    <3> QED  BY <2>2, <2>3, <3>1
  <2>8. CASE Settle
    <3>1. \/ main = "routine" /\ shutdown /\ EndRoutine("shutdownRequested")
          \/ UNCHANGED <<main, ret, shutdown>>
      BY <2>8 DEF Settle
    <3> QED  BY <2>2, <2>3, <3>1
  <2>9. CASE RoutineEnds
    BY <2>3, <2>9 DEF RoutineEnds
  <2>10. CASE Approach \/ ReadStable \/ Reposition \/ RepositionMove \/ SweepWithdraw
              \/ CleanupWithdraw \/ CleanupTeardown \/ DropController
    BY <2>2, <2>10 DEF Approach, ReadStable, Reposition, RepositionMove, SweepWithdraw,
                       CleanupWithdraw, CleanupTeardown, DropController
  <2>11. CASE CleanupWithdrawn
    <3>1. /\ LifecyclePhase = "withdraw" /\ LifecyclePhase' = "teardown"
          /\ UNCHANGED <<ret, shutdown>> /\ main = "withdraw" /\ main' = "teardown"
      BY <2>11 DEF CleanupWithdrawn, LifecyclePhase
    <3> QED  BY <3>1 DEF Reported, Lifecycle!Withdraw, Lifecycle!Next
  <2>12. CASE RunReturns
    <3>1. /\ main = "teardown" /\ main' = "drop" /\ ret \in Endings
          /\ ret' = Lifecycle!Surface(ret) /\ shutdown' = shutdown
      BY <2>12 DEF RunReturns, Reported, Lifecycle!Surface
    <3>2. ret' \in Endings
      BY <3>1 DEF Lifecycle!Surface
    <3>3. LifecyclePhase = "teardown" /\ LifecyclePhase' = "done"
      BY <3>1, <3>2 DEF LifecyclePhase
    <3> QED  BY <3>1, <3>2, <3>3 DEF Reported, Lifecycle!Teardown, Lifecycle!Next
  <2>13. CASE Ended
    BY <2>13 DEF Ended, Reported, LifecyclePhase, Lifecycle!vars
  <2>14. CASE Interrupt
    <3>1. CASE UNCHANGED shutdown
      BY <2>1, <2>14, <3>1 DEF Interrupt
    <3>2. CASE shutdown' # shutdown
      <4>1. ~shutdown /\ shutdown' = TRUE /\ UNCHANGED <<main, ret>>
        BY <2>14, <3>2 DEF Interrupt
      <4> QED  BY <4>1, Zenon DEF Reported, LifecyclePhase, Lifecycle!RequestStop, Lifecycle!Next
    <3> QED  BY <3>1, <3>2
  <2>15. CASE Calls \/ Timeout \/ Instrument \/ Terminated \/ UNCHANGED vars
    <3>1. UNCHANGED program
      BY <2>15 DEF Calls, Timeout, Instrument, Terminated, vars
    <3> QED  BY <2>2, <3>1 DEF program
  <2> QED  BY <2>4, <2>5, <2>6, <2>7, <2>8, <2>9, <2>10, <2>11, <2>12, <2>13, <2>14, <2>15
           DEF Next, Main
<1> QED  BY <1>1, <1>2, TypeCorrect, PTL DEF Spec, ImplementsLifecycle, Lifecycle!Spec
=============================================================================
