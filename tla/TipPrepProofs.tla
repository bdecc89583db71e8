--------------------------- MODULE TipPrepProofs ---------------------------
(***************************************************************************)
(* What TipPrep guarantees for every configuration, every number of cycles *)
(* and every pattern of failing calls, stop requests and time-outs.        *)
(*                                                                         *)
(* Control (where each call site can be, when a result is on its way) is   *)
(* inductive by itself; every other invariant is inductive relative to it. *)
(***************************************************************************)
EXTENDS TipPrep, SequenceTheorems, TLAPS

-----------------------------------------------------------------------------
(***************************************************************************)
(* The parts of the inductive invariant.                                   *)
(***************************************************************************)
ApproachPcs == {"approach1", "armSafeTip", "zHome", "approach2", "restoreSafeTip"}

InSweep  == SweepPcs \cup {"sweepCleanup"}
Cleanups == {"restoreSafeTip", "sweepCleanup", "restoreSpeed"}
Endgame  == {"cleanup", "teardown", "done"}

\* Which call site a step can belong to.
Located ==
  /\ pc \in {"prepare", "setBias", "setpoint", "settleInit"} => site = "init"
  /\ pc = "withdraw" => site \in DOMAIN AfterWithdraw
  /\ pc = "move" => site \in DOMAIN AfterMove
  /\ pc \in ApproachPcs => site \in DOMAIN AfterApproach
  /\ pc \in {"settleOff", "offBias"} => site \in {"plan", "final"}
  /\ pc = "read" => site \in {"init", "cycle", "confirm", "final"}
  /\ pc \in {"checkConfirm", "checkRead", "saveSpeed"} => site = "confirm"
  /\ pc = "settlePulse" => site = "cycle"
  /\ pc \in PlanPcs \cup InSweep => site = "plan"
  /\ pc = "settleFinal" => site = "final"
  /\ pc = "maxPulse" => site = "max"

\* While the body runs nothing is being returned; an error passes through the
\* cleanups only.
Unwinding ==
  /\ pc \notin Cleanups \cup Endgame => ret = "none"
  /\ pc \in Cleanups => ret \in {"none", "fault", "shutdownRequested"}
  /\ pc \in {"cleanup", "teardown"} => ret \in Lifecycle!Endings
  /\ pc = "done" => ret # "none"

\* update_voltage is fed a reading of the cycle, never the initial NoReading.
CycleRead == pc = "update" \/ origin = "cycle" => cycleFs \in Readings

Control ==
  /\ pc \in Pcs /\ site \in Sites /\ ret \in Returns
  /\ Located /\ Unwinding /\ CycleRead

\* The type invariant in parts that one prover can handle at a time.
StateOK ==
  /\ tip \in {"withdrawn", "home", "engaged"} /\ bias \in Int
  /\ speed \in {"original", "sweep"} /\ props \in {"original", "sweep"}
  /\ n \in Nat /\ plan \in 1 .. Len(Polarities)
  /\ origin \in {"init", "cycle"}
  /\ cycle \in Nat
  /\ cycleFs \in Readings \cup {NoReading} /\ baseline \in Readings \cup {NoReading}
  /\ savedSpeed \in {"none", "original", "sweep"} /\ savedProps \in {"original", "sweep"}
  /\ pulse \in PulseStates

FlagsOK ==
  /\ wasSafe \in BOOLEAN /\ stop \in BOOLEAN /\ expired \in BOOLEAN
  /\ fresh \in BOOLEAN /\ scan \in BOOLEAN /\ safe \in BOOLEAN /\ ownSafe \in BOOLEAN
  /\ lost \subseteq {"bias", "safe", "safeRead", "props", "scan", "speed", "withdraw"}

CountersOK ==
  /\ good \in 0 .. Confirmations /\ swept \in Nat
  /\ latePulses \in 0 .. 2 /\ lateMoves \in 0 .. 2

\* Inside check_stability, between saving the scan speed and restoring it.
Checking ==
  \/ pc \in PlanPcs \cup InSweep \cup {"restoreSpeed"}
  \/ pc \in {"withdraw", "move", "settleOff", "offBias"} \cup ApproachPcs /\ site = "plan"

\* A saved setting is the operator's unless a call already failed, and a
\* changed setting is either going to be restored or reported.
Held ==
  /\ savedSpeed # "none" => Checking
  /\ savedSpeed = "sweep" => "speed" \in lost
  /\ speed = "sweep" => savedSpeed # "none" \/ "speed" \in lost
  /\ savedProps = "sweep" => "props" \in lost
  /\ props = "sweep" => pc \in InSweep \/ "props" \in lost

\* The final withdraw happened or was reported as failed.
Withdrawn ==
  pc \in {"teardown", "done"} /\ ret # "prepareError" =>
    tip = "withdrawn" \/ "withdraw" \in lost

\* Inside a calibrated approach was_enabled remembers the operator's choice.
SafeLost == lost \cap {"safe", "safeRead"} # {}

SafeHeld ==
  \/ SafeLost
  \/ IF pc \in {"zHome", "approach2", "restoreSafeTip"}
       THEN wasSafe = ownSafe /\ (wasSafe => safe = wasSafe)
       ELSE safe = ownSafe

\* How much of the confirmation and of the sweeps is behind the routine.
Earned ==
  /\ site \in {"init", "cycle"} => good = 0 /\ swept = 0
  /\ site = "confirm" => swept = 0
  /\ site = "confirm" /\ pc \in {"checkConfirm", "withdraw", "move", "checkRead", "read"} \cup ApproachPcs
       => good = n /\ n < Confirmations
  /\ site = "confirm" /\ pc \in {"checkRead", "read"} \cup ApproachPcs => fresh
  /\ pc = "saveSpeed" => good = Confirmations
  /\ Checking /\ ret = "none" =>
       /\ good = Confirmations
       /\ swept = IF pc = "restoreSpeed" THEN Len(Polarities) ELSE plan - 1
  /\ site = "final" => good = Confirmations /\ swept = Len(Polarities)
  /\ CompletedIsEarned

\* Where the routine can be once it has fired or moved after a stop request:
\* between that step and the next look at the flag.
Late ==
  /\ latePulses > 0 \/ lateMoves > 0 => stop
  /\ latePulses > 0 =>
       \/ pc \in {"settlePulse", "reset", "update", "loop"} \cup Endgame
       \/ pc \in {"withdraw", "move"} \cup ApproachPcs /\ site = "unstable"
  /\ lateMoves > 0 =>
       \/ pc \in {"checkConfirm", "checkRead", "settleOff", "reset", "update", "loop"} \cup Endgame
       \/ pc = "restoreSpeed" /\ ret # "none"
       \/ pc \in ApproachPcs /\ site \in {"cycle", "confirm", "unstable"}
       \/ pc = "read" /\ site = "cycle"
  /\ BoundedAfterStop

-----------------------------------------------------------------------------
(***************************************************************************)
(* Facts about the operators of the model.                                 *)
(***************************************************************************)

\* There are one or two sweep plans, each of one sign.
LEMMA PolaritiesType ==
  /\ Len(Polarities) \in 1 .. 2
  /\ \A k \in 1 .. Len(Polarities) : Polarities[k] \in {1, -1}
  BY TipPrepAssumption

\* Arming safe-tip: on to z-home, or out with the error.
LEMMA ArmSafeTipStep ==
  ASSUME ArmSafeTip
  PROVE  /\ pc = "armSafeTip"
         /\ Goto("zHome") \/ Raise("fault")
         /\ lost \subseteq lost'
         /\ UNCHANGED <<site, n, plan, origin, cycle, cycleFs, baseline, savedSpeed, savedProps,
                        pulse, tip, scan, bias, speed, props, stop, expired,
                        ownSafe, fresh, good, swept, latePulses, lateMoves>>
<1>1. PICK known \in {safe, FALSE}, ok \in BOOLEAN :
        /\ IF known THEN safe' = safe /\ Goto("zHome") ELSE SafeTipSet(ok, TRUE) /\ Try(ok, "zHome")
        /\ lost' = lost \cup (IF known # safe THEN {"safeRead"} ELSE {})
                        \cup (IF known \/ ok THEN {} ELSE {"safe"})
  BY DEF ArmSafeTip
<1>2. Goto("zHome") \/ Raise("fault")
  BY <1>1, Zenon DEF Try
<1>3. lost \subseteq lost'
  BY <1>1, Zenon
<1> QED  BY <1>2, <1>3, Zenon DEF ArmSafeTip, env

\* Restoring safe-tip: on to the step after the approach, or out with the error.
LEMMA RestoreSafeTipStep ==
  ASSUME RestoreSafeTip
  PROVE  /\ pc = "restoreSafeTip"
         /\ IF ret = "none" THEN Goto(AfterApproach[site]) ELSE Raise(ret)
         /\ IF wasSafe THEN UNCHANGED <<safe, lost>>
                       ELSE \/ safe' = FALSE /\ lost' = lost
                            \/ lost' = lost \cup {"safe"}
         /\ lost \subseteq lost'
         /\ UNCHANGED <<site, n, plan, origin, cycle, cycleFs, baseline, savedSpeed, savedProps,
                        wasSafe, pulse, tip, scan, bias, speed, props, stop, expired,
                        ownSafe, fresh, good, swept, latePulses, lateMoves>>
<1>1. PICK ok \in BOOLEAN :
        IF wasSafe THEN UNCHANGED <<safe, lost>> ELSE SafeTipSet(ok, FALSE) /\ Blame(ok, "safe")
  BY DEF RestoreSafeTip
<1>2. IF wasSafe THEN UNCHANGED <<safe, lost>>
                 ELSE \/ safe' = FALSE /\ lost' = lost
                      \/ lost' = lost \cup {"safe"}
  BY <1>1, Zenon DEF SafeTipSet, Effect, Blame
<1> QED  BY <1>2, Zenon DEF RestoreSafeTip, locals, kept, env

\* Leaving a sweep: each of the three cleanups is attempted.
LEMMA SweepCleanupStep ==
  ASSUME SweepCleanup
  PROVE  /\ pc = "sweepCleanup"
         /\ LeaveSweep
         /\ scan' = FALSE \/ "scan" \in lost'
         /\ props' = savedProps \/ (props' = props /\ "props" \in lost')
         /\ lost \subseteq lost'
         /\ UNCHANGED <<site, locals, pulse, bias, speed, safe, env,
                        fresh, good, swept, latePulses, lateMoves>>
<1>1. PICK stopped \in BOOLEAN, restored \in BOOLEAN, up \in BOOLEAN :
        /\ ScanAction(stopped, FALSE) /\ PropsSet(restored, savedProps) /\ WithdrawTip(up)
        /\ lost' = lost \cup (IF stopped THEN {} ELSE {"scan"})
                        \cup (IF restored THEN {} ELSE {"props"})
  BY DEF SweepCleanup
<1>2. scan' = FALSE \/ "scan" \in lost'
  BY <1>1, Zenon DEF ScanAction, Effect
<1>3. props' = savedProps \/ (props' = props /\ "props" \in lost')
  BY <1>1, Zenon DEF PropsSet, Effect
<1>4. lost \subseteq lost'
  BY <1>1, Zenon
<1> QED  BY <1>2, <1>3, <1>4, Zenon DEF SweepCleanup

-----------------------------------------------------------------------------
(***************************************************************************)
(* Control flow and types.                                                 *)
(***************************************************************************)

\* The routine's control flow: every call site is where its callers put it, and
\* an error leaves only through the cleanups around the failing call.
THEOREM ControlInvariant == Spec => []Control
<1>1. Init => Control
  BY DEF Init, Control, Located, Unwinding, CycleRead, Pcs, Sites, AfterCheck, SweepPcs, PlanPcs,
         SharedPcs, ApproachPcs, InSweep, Cleanups, Endgame, Returns
<1>2. ASSUME Control, [Next]_vars
      PROVE  Control'
  <2> USE <1>2 DEF Control, Located, Unwinding, Goto, Raise, Try, Handler, Return, InPlan,
                      AfterCheck, AfterWithdraw, AfterMove, AfterApproach, Pcs, Sites, SweepPcs,
                      PlanPcs, SharedPcs, StartConfirming, ResumeLoop, AfterConfirm, LeaveSweep,
                      ApproachPcs, InSweep, Cleanups, Endgame, Returns, Lifecycle!Endings,
                      Lifecycle!Outcomes, locals, kept, env, history, hw, CycleRead
  <2>1. CASE Prepare \/ SetInitialBias \/ SetSetpoint \/ CheckStop
    BY <2>1 DEF Prepare, SetInitialBias, SetSetpoint, CheckStop
  <2>2. CASE Withdraw
    BY <2>2 DEF Withdraw
  <2>3. CASE MoveMotor
    BY <2>3 DEF MoveMotor
  <2>4. CASE SetBiasWithdrawn
    BY <2>4 DEF SetBiasWithdrawn
  <2>5. CASE FirstApproach \/ ZHome \/ SecondApproach
    BY <2>5 DEF FirstApproach, ZHome, SecondApproach
  <2>6. CASE ArmSafeTip
    BY <2>6, ArmSafeTipStep
  <2>7. CASE RestoreSafeTip
    BY <2>7 DEF RestoreSafeTip
  <2>8. CASE ReadFails \/ ReadInitial \/ ReadCycle \/ ReadConfirm \/ ReadFinal
    BY <2>8 DEF ReadFails, ReadInitial, ReadCycle, ReadConfirm, ReadFinal
  <2>9. CASE NextCycle \/ Pulse \/ UpdateStrategy \/ MaxPulse \/ ResetStrategy
    BY <2>9 DEF NextCycle, Pulse, UpdateStrategy, MaxPulse, ResetStrategy
  <2>10. CASE SaveSpeed \/ SetSweepProps
    BY <2>10 DEF SaveSpeed, SetSweepProps
  <2>11. CASE StartScan \/ PollScan
    BY <2>11 DEF StartScan, PollScan
  <2>12. CASE StepBias \/ SettleStep
    BY <2>12 DEF StepBias, SettleStep
  <2>13. CASE SweepCleanup
    BY <2>13 DEF SweepCleanup
  <2>14. CASE RestoreSweepBias \/ RestoreSpeed
    BY <2>14 DEF RestoreSweepBias, RestoreSpeed
  <2>15. CASE CleanupWithdraw \/ Teardown
    BY <2>15 DEF CleanupWithdraw, Teardown
  <2>16. CASE RequestStop \/ Expire \/ Terminated
    BY <2>16 DEF RequestStop, Expire, Terminated, vars
  <2>17. CASE UNCHANGED vars
    BY <2>17 DEF vars
  <2> QED  BY <2>1, <2>2, <2>3, <2>4, <2>5, <2>6, <2>7, <2>8, <2>9, <2>10, <2>11, <2>12, <2>13,
              <2>14, <2>15, <2>16, <2>17 DEF Next, Routine, Approach, Read, Loop, Sweep
<1> QED  BY <1>1, <1>2, PTL DEF Spec

\* Every operation of the pulse strategy gives a strategy state again.
LEMMA StrategyType ==
  /\ NewPulseState \in PulseStates
  /\ \A p \in PulseStates : ResetPulse(p) \in PulseStates /\ CountPulse(p) \in PulseStates
  /\ \A p \in PulseStates, fs \in Readings : UpdateVoltage(p, fs) \in PulseStates
<1>1. NewPulseState \in PulseStates
  BY PulseAssumption DEF NewPulseState, PulseStates, Levels
<1>2. ASSUME NEW p \in PulseStates
      PROVE  ResetPulse(p) \in PulseStates /\ CountPulse(p) \in PulseStates
  <2>1. p.pulse_count \in Nat
    BY DEF PulseStates
  <2>2. SwitchEveryN # 0 => (p.pulse_count + 1) % SwitchEveryN \in Nat
    BY <2>1, PulseAssumption
  <2> QED  BY <1>1, <2>1, <2>2 DEF ResetPulse, CountPulse, PulseStates
<1>3. ASSUME NEW p \in PulseStates, NEW fs \in Readings
      PROVE  UpdateVoltage(p, fs) \in PulseStates
  <2>1. PushReading(p.freq_shift_history, fs) \in Seq(Readings)
    <3>1. p.freq_shift_history \in Seq(Readings) /\ <<fs>> \in Seq(Readings)
      BY DEF PulseStates
    <3>2. CASE Len(p.freq_shift_history) < HistoryCap
      BY <3>1, <3>2, ConcatProperties DEF PushReading
    <3>3. CASE ~(Len(p.freq_shift_history) < HistoryCap)
      <4>1. SubSeq(p.freq_shift_history, 1, HistoryCap - 1) \in Seq(Readings)
        BY <3>1, <3>3, PulseAssumption, SubSeqProperties, LenProperties, ElementOfSeq
      <4> QED  BY <3>1, <3>3, <4>1, ConcatProperties DEF PushReading
    <3> QED  BY <3>2, <3>3
  <2>2. UpdateStepping(p, fs) \in PulseStates
    <3> DEFINE h     == PushReading(p.freq_shift_history, fs)
               stall == Stall(p, h, fs)
               level == IF stall = 0 THEN 0 ELSE p.current_voltage
    <3>1. stall \in Nat /\ level \in Levels /\ h \in Seq(Readings)
      BY <2>1, PulseAssumption DEF Stall, PulseStates, Levels
    <3>2. UpdateStepping(p, fs) =
            [p EXCEPT
               !.freq_shift_history    = h,
               !.last_freq_shift       = fs,
               !.cycles_without_change = IF StepDue(stall) THEN 0 ELSE stall,
               !.current_voltage       = IF StepDue(stall) THEN NextLevel(level) ELSE level]
      BY DEF UpdateStepping
    <3> HIDE DEF h, stall, level
    <3>3. NextLevel(level) \in Levels
      BY <3>1, PulseAssumption DEF NextLevel, Levels
    <3>4. /\ (IF StepDue(stall) THEN 0 ELSE stall) \in Nat
          /\ (IF StepDue(stall) THEN NextLevel(level) ELSE level) \in Levels
      BY <3>1, <3>3
    <3> QED  BY <3>1, <3>2, <3>4 DEF PulseStates
  <2>3. UpdateLinear(p, fs) \in PulseStates
    <3>1. (IF fs < ClampLo \/ fs > ClampHi THEN VoltageSteps ELSE fs - ClampLo) \in Levels
      BY PulseAssumption DEF Levels, ClampHi
    <3> QED  BY <3>1 DEF UpdateLinear, PulseStates
  <2> QED  BY <2>2, <2>3, PulseAssumption DEF UpdateVoltage
<1> QED  BY <1>1, <1>2, <1>3

\* TypeOK: every variable keeps its type; in particular the pulse strategy's
\* voltage stays within voltage_bounds and the sweep's plan exists.  It is proved
\* in parts, which later proofs cite.
THEOREM TypeCorrect == Spec => [](TypeOK /\ StateOK /\ FlagsOK /\ CountersOK)
<1>1. Init => StateOK /\ FlagsOK /\ CountersOK
  <2>1. Init => StateOK
    BY StrategyType, PolaritiesType DEF Init, StateOK
  <2>2. Init => FlagsOK
    BY TipPrepAssumption, Zenon DEF Init, FlagsOK
  <2>3. Init => CountersOK
    BY DEF Init, CountersOK, Confirmations
  <2> QED  BY <2>1, <2>2, <2>3
<1>2. ASSUME Control, StateOK, [Next]_vars
      PROVE  StateOK'
  <2> CycleRead
    BY <1>2 DEF Control
  <2> USE <1>2 DEF StateOK, CycleRead, PulseCounted, CountCycle, StartConfirming, Start, Effect,
                      SpeedSet, PropsSet, SetBias, AutoApproach, WithdrawTip, GoZHome, locals,
                      kept, env, history, hw
  <2>1. CASE Prepare \/ SetInitialBias \/ SetSetpoint \/ CheckStop
    BY <2>1, TipPrepAssumption DEF Prepare, SetInitialBias, SetSetpoint, CheckStop
  <2>2. CASE Withdraw
    BY <2>2 DEF Withdraw
  <2>3. CASE MoveMotor
    BY <2>3 DEF MoveMotor
  <2>4. CASE SetBiasWithdrawn
    BY <2>4, TipPrepAssumption, PolaritiesType DEF SetBiasWithdrawn
  <2>5. CASE FirstApproach \/ ZHome \/ SecondApproach
    BY <2>5 DEF FirstApproach, ZHome, SecondApproach
  <2>6. CASE ArmSafeTip
    BY <2>6 DEF ArmSafeTip
  <2>7. CASE RestoreSafeTip
    BY <2>7 DEF RestoreSafeTip
  <2>8. CASE ReadFails
    BY <2>8 DEF ReadFails
  <2>9. CASE ReadInitial
    BY <2>9 DEF ReadInitial
  <2>10. CASE ReadCycle
    BY <2>10 DEF ReadCycle
  <2>11. CASE ReadConfirm
    BY <2>11 DEF ReadConfirm
  <2>12. CASE ReadFinal
    BY <2>12 DEF ReadFinal
  <2>13. CASE NextCycle \/ Pulse \/ UpdateStrategy \/ MaxPulse \/ ResetStrategy
    BY <2>13, StrategyType DEF NextCycle, Pulse,
       UpdateStrategy, MaxPulse, ResetStrategy
  <2>14. CASE SaveSpeed \/ SetSweepProps
    BY <2>14, PolaritiesType DEF SaveSpeed, SetSweepProps
  <2>15. CASE StartScan
    BY <2>15 DEF StartScan
  <2>16. CASE PollScan
    BY <2>16 DEF PollScan
  <2>17. CASE StepBias \/ SettleStep
    BY <2>17, TipPrepAssumption, PolaritiesType DEF StepBias, SettleStep
  <2>18. CASE SweepCleanup
    BY <2>18 DEF SweepCleanup
  <2>19. CASE RestoreSweepBias \/ RestoreSpeed
    BY <2>19, TipPrepAssumption, PolaritiesType DEF RestoreSweepBias, RestoreSpeed
  <2>20. CASE CleanupWithdraw \/ Teardown
    BY <2>20 DEF CleanupWithdraw, Teardown
  <2>21. CASE RequestStop \/ Expire \/ Terminated
    BY <2>21 DEF RequestStop, Expire, Terminated, vars
  <2>22. CASE UNCHANGED vars
    BY <2>22 DEF vars
  <2> QED  BY <2>1, <2>2, <2>3, <2>4, <2>5, <2>6, <2>7, <2>8, <2>9, <2>10, <2>11, <2>12, <2>13,
              <2>14, <2>15, <2>16, <2>17, <2>18, <2>19, <2>20, <2>21, <2>22 DEF Next, Routine,
              Approach, Read, Loop, Sweep
<1>3. ASSUME FlagsOK, [Next]_vars
      PROVE  FlagsOK'
  <2> DEFINE EffectType == \A S : \A x \in S, new \in S : \A ok : Effect(ok, x, new) \subseteq S
  <2>0. EffectType
    BY DEF Effect
  <2> USE <1>3 DEF FlagsOK, ScanAction, SafeTipSet, Blame, locals, kept, env, history, hw
  <2>1. CASE Prepare \/ SetInitialBias \/ SetSetpoint \/ CheckStop
    BY <2>1, <2>0, Zenon DEF Prepare, SetInitialBias, SetSetpoint, CheckStop
  <2>2. CASE Withdraw
    BY <2>2, <2>0, Zenon DEF Withdraw
  <2>3. CASE MoveMotor
    BY <2>3, <2>0, Zenon DEF MoveMotor
  <2>4. CASE SetBiasWithdrawn
    BY <2>4, <2>0, Zenon DEF SetBiasWithdrawn
  <2>5. CASE FirstApproach \/ ZHome \/ SecondApproach
    BY <2>5, <2>0, Zenon DEF FirstApproach, ZHome, SecondApproach
  <2>6. CASE ArmSafeTip
    BY <2>6, <2>0, Zenon DEF ArmSafeTip
  <2>7. CASE RestoreSafeTip
    BY <2>7, <2>0, Zenon DEF RestoreSafeTip
  <2>8. CASE ReadFails \/ ReadInitial \/ ReadCycle \/ ReadConfirm \/ ReadFinal
    BY <2>8, <2>0, Zenon DEF ReadFails, ReadInitial, ReadCycle, ReadConfirm, ReadFinal
  <2>9. CASE NextCycle \/ Pulse \/ UpdateStrategy \/ MaxPulse \/ ResetStrategy
    BY <2>9, <2>0, Zenon DEF NextCycle, Pulse, UpdateStrategy, MaxPulse, ResetStrategy
  <2>10. CASE SaveSpeed
    BY <2>10, <2>0, Zenon DEF SaveSpeed
  <2>11. CASE SetSweepProps
    BY <2>11, <2>0, ZenonT(30) DEF SetSweepProps
  <2>12. CASE StartScan \/ PollScan
    BY <2>12, <2>0, Zenon DEF StartScan, PollScan
  <2>13. CASE StepBias \/ SettleStep
    BY <2>13, <2>0, Zenon DEF StepBias, SettleStep
  <2>14. CASE SweepCleanup
    BY <2>14, <2>0, Zenon DEF SweepCleanup
  <2>15. CASE RestoreSweepBias
    BY <2>15, <2>0, Zenon DEF RestoreSweepBias
  <2>16. CASE RestoreSpeed
    BY <2>16, <2>0, ZenonT(30) DEF RestoreSpeed
  <2>17. CASE CleanupWithdraw \/ Teardown
    BY <2>17, <2>0, Zenon DEF CleanupWithdraw, Teardown
  <2>18. CASE RequestStop \/ Expire \/ Terminated
    BY <2>18, <2>0, Zenon DEF RequestStop, Expire, Terminated, vars
  <2>19. CASE UNCHANGED vars
    BY <2>19 DEF vars
  <2> QED  BY <2>1, <2>2, <2>3, <2>4, <2>5, <2>6, <2>7, <2>8, <2>9, <2>10, <2>11, <2>12, <2>13,
              <2>14, <2>15, <2>16, <2>17, <2>18, <2>19 DEF Next, Routine, Approach, Read, Loop,
              Sweep
<1>4. ASSUME CountersOK, [Next]_vars
      PROVE  CountersOK'
  <2> USE <1>4 DEF CountersOK, Confirmations, PulseCounted, locals, kept, env, history, hw
  <2>1. CASE Prepare \/ SetInitialBias \/ SetSetpoint \/ CheckStop
    BY <2>1 DEF Prepare, SetInitialBias, SetSetpoint, CheckStop
  <2>2. CASE Withdraw
    BY <2>2 DEF Withdraw
  <2>3. CASE MoveMotor
    BY <2>3 DEF MoveMotor
  <2>4. CASE SetBiasWithdrawn
    BY <2>4 DEF SetBiasWithdrawn
  <2>5. CASE FirstApproach \/ ZHome \/ SecondApproach
    BY <2>5 DEF FirstApproach, ZHome, SecondApproach
  <2>6. CASE ArmSafeTip
    BY <2>6 DEF ArmSafeTip
  <2>7. CASE RestoreSafeTip
    BY <2>7 DEF RestoreSafeTip
  <2>8. CASE ReadFails \/ ReadInitial \/ ReadCycle \/ ReadConfirm \/ ReadFinal
    BY <2>8 DEF ReadFails, ReadInitial, ReadCycle, ReadConfirm, ReadFinal
  <2>9. CASE NextCycle \/ Pulse \/ UpdateStrategy \/ MaxPulse \/ ResetStrategy
    BY <2>9 DEF NextCycle, Pulse, UpdateStrategy, MaxPulse, ResetStrategy
  <2>10. CASE SaveSpeed \/ SetSweepProps
    BY <2>10 DEF SaveSpeed, SetSweepProps
  <2>11. CASE StartScan \/ PollScan
    BY <2>11 DEF StartScan, PollScan
  <2>12. CASE StepBias \/ SettleStep
    BY <2>12 DEF StepBias, SettleStep
  <2>13. CASE SweepCleanup
    BY <2>13 DEF SweepCleanup
  <2>14. CASE RestoreSweepBias \/ RestoreSpeed
    BY <2>14 DEF RestoreSweepBias, RestoreSpeed
  <2>15. CASE CleanupWithdraw \/ Teardown
    BY <2>15 DEF CleanupWithdraw, Teardown
  <2>16. CASE RequestStop \/ Expire \/ Terminated
    BY <2>16 DEF RequestStop, Expire, Terminated, vars
  <2>17. CASE UNCHANGED vars
    BY <2>17 DEF vars
  <2> QED  BY <2>1, <2>2, <2>3, <2>4, <2>5, <2>6, <2>7, <2>8, <2>9, <2>10, <2>11, <2>12, <2>13,
              <2>14, <2>15, <2>16, <2>17 DEF Next, Routine, Approach, Read, Loop, Sweep
<1>5. Control /\ StateOK /\ FlagsOK /\ CountersOK => TypeOK
  BY DEF TypeOK, InstrumentTypeOK, Control, StateOK, FlagsOK, CountersOK
<1> QED  BY <1>1, <1>2, <1>3, <1>4, <1>5, ControlInvariant, PTL DEF Spec

-----------------------------------------------------------------------------
(***************************************************************************)
(* The invariants, one theorem each.                                       *)
(***************************************************************************)

\* The coarse motor moves and the maximum-voltage pulse fires only with the tip
\* withdrawn: every path to them goes through a withdraw that reported success.
THEOREM TipClearHolds == Spec => []TipClear
<1>1. Init => TipClear
  BY DEF Init, TipClear
<1>2. ASSUME Control, TipClear, [Next]_vars
      PROVE  TipClear'
  <2> USE <1>2 DEF TipClear, Effect, WithdrawTip, Control, Located, Unwinding, Goto, Raise, Try,
                      Handler, Return, InPlan, AfterCheck, AfterWithdraw, AfterMove,
                      AfterApproach, Pcs, Sites, SweepPcs, PlanPcs, SharedPcs, StartConfirming,
                      ResumeLoop, AfterConfirm, LeaveSweep, ApproachPcs, InSweep, Cleanups,
                      Endgame, Returns, Lifecycle!Endings, Lifecycle!Outcomes, locals, kept,
                      env, history, hw
  <2>1. CASE Prepare \/ SetInitialBias \/ SetSetpoint \/ CheckStop
    BY <2>1 DEF Prepare, SetInitialBias, SetSetpoint, CheckStop
  <2>2. CASE Withdraw
    BY <2>2 DEF Withdraw
  <2>3. CASE MoveMotor
    BY <2>3 DEF MoveMotor
  <2>4. CASE SetBiasWithdrawn
    BY <2>4 DEF SetBiasWithdrawn
  <2>5. CASE FirstApproach \/ ZHome \/ SecondApproach
    BY <2>5 DEF FirstApproach, ZHome, SecondApproach
  <2>6. CASE ArmSafeTip
    BY <2>6, ArmSafeTipStep
  <2>7. CASE RestoreSafeTip
    BY <2>7 DEF RestoreSafeTip
  <2>8. CASE ReadFails \/ ReadInitial \/ ReadCycle \/ ReadConfirm \/ ReadFinal
    BY <2>8 DEF ReadFails, ReadInitial, ReadCycle, ReadConfirm, ReadFinal
  <2>9. CASE NextCycle \/ Pulse \/ UpdateStrategy \/ MaxPulse \/ ResetStrategy
    BY <2>9 DEF NextCycle, Pulse, UpdateStrategy, MaxPulse, ResetStrategy
  <2>10. CASE SaveSpeed \/ SetSweepProps
    BY <2>10 DEF SaveSpeed, SetSweepProps
  <2>11. CASE StartScan \/ PollScan
    BY <2>11 DEF StartScan, PollScan
  <2>12. CASE StepBias \/ SettleStep
    BY <2>12 DEF StepBias, SettleStep
  <2>13. CASE SweepCleanup
    BY <2>13 DEF SweepCleanup
  <2>14. CASE RestoreSweepBias \/ RestoreSpeed
    BY <2>14 DEF RestoreSweepBias, RestoreSpeed
  <2>15. CASE CleanupWithdraw \/ Teardown
    BY <2>15 DEF CleanupWithdraw, Teardown
  <2>16. CASE RequestStop \/ Expire \/ Terminated
    BY <2>16 DEF RequestStop, Expire, Terminated, vars
  <2>17. CASE UNCHANGED vars
    BY <2>17 DEF vars
  <2> QED  BY <2>1, <2>2, <2>3, <2>4, <2>5, <2>6, <2>7, <2>8, <2>9, <2>10, <2>11, <2>12, <2>13,
              <2>14, <2>15, <2>16, <2>17 DEF Next, Routine, Approach, Read, Loop, Sweep
<1> QED  BY <1>1, <1>2, ControlInvariant, PTL DEF Spec

\* A scan runs only inside a sweep, or the call that stops it reported an error.
THEOREM ScanConfinedHolds == Spec => []ScanConfined
<1>1. Init => ScanConfined
  BY DEF Init, ScanConfined
<1>2. ASSUME Control, ScanConfined, [Next]_vars
      PROVE  ScanConfined'
  <2> USE <1>2 DEF ScanConfined, Effect, ScanAction, Blame, Control, Located, Unwinding, Goto,
                      Raise, Try, Handler, Return, InPlan, AfterCheck, AfterWithdraw, AfterMove,
                      AfterApproach, Pcs, Sites, SweepPcs, PlanPcs, SharedPcs, StartConfirming,
                      ResumeLoop, AfterConfirm, LeaveSweep, ApproachPcs, InSweep, Cleanups,
                      Endgame, Returns, Lifecycle!Endings, Lifecycle!Outcomes, locals, kept,
                      env, history, hw
  <2>1. CASE Prepare
    BY <2>1 DEF Prepare
  <2>2. CASE SetInitialBias
    BY <2>2 DEF SetInitialBias
  <2>3. CASE SetSetpoint
    BY <2>3 DEF SetSetpoint
  <2>4. CASE CheckStop
    BY <2>4 DEF CheckStop
  <2>5. CASE Withdraw
    BY <2>5 DEF Withdraw
  <2>6. CASE MoveMotor
    BY <2>6 DEF MoveMotor
  <2>7. CASE SetBiasWithdrawn
    BY <2>7 DEF SetBiasWithdrawn
  <2>8. CASE FirstApproach \/ ZHome \/ SecondApproach
    BY <2>8 DEF FirstApproach, ZHome, SecondApproach
  <2>9. CASE ArmSafeTip
    BY <2>9, ArmSafeTipStep
  <2>10. CASE RestoreSafeTip
    BY <2>10, RestoreSafeTipStep
  <2>11. CASE ReadFails \/ ReadInitial \/ ReadCycle \/ ReadConfirm \/ ReadFinal
    BY <2>11 DEF ReadFails, ReadInitial, ReadCycle, ReadConfirm, ReadFinal
  <2>12. CASE NextCycle \/ Pulse \/ UpdateStrategy \/ MaxPulse \/ ResetStrategy
    BY <2>12 DEF NextCycle, Pulse, UpdateStrategy, MaxPulse, ResetStrategy
  <2>13. CASE SaveSpeed \/ SetSweepProps
    BY <2>13 DEF SaveSpeed, SetSweepProps
  <2>14. CASE StartScan \/ PollScan
    BY <2>14 DEF StartScan, PollScan
  <2>15. CASE StepBias \/ SettleStep
    BY <2>15 DEF StepBias, SettleStep
  <2>16. CASE SweepCleanup
    BY <2>16, SweepCleanupStep
  <2>17. CASE RestoreSweepBias \/ RestoreSpeed
    BY <2>17 DEF RestoreSweepBias, RestoreSpeed
  <2>18. CASE CleanupWithdraw \/ Teardown
    BY <2>18 DEF CleanupWithdraw, Teardown
  <2>19. CASE RequestStop \/ Expire \/ Terminated
    BY <2>19 DEF RequestStop, Expire, Terminated, vars
  <2>20. CASE UNCHANGED vars
    BY <2>20 DEF vars
  <2> QED  BY <2>1, <2>2, <2>3, <2>4, <2>5, <2>6, <2>7, <2>8, <2>9, <2>10, <2>11, <2>12, <2>13,
              <2>14, <2>15, <2>16, <2>17, <2>18, <2>19, <2>20 DEF Next, Routine, Approach, Read,
              Loop, Sweep
<1> QED  BY <1>1, <1>2, ControlInvariant, PTL DEF Spec

\* SettingsRestored: nothing is left scanning, and no scan property or scan
\* speed is left at its sweep value without a reported error.  Held: on the way
\* there, every setting a sweep changed is going to be restored.
THEOREM SettingsRestoredHolds == Spec => [](Held /\ SettingsRestored)
<1>1. Init => Held
  BY DEF Init, Held
<1>2. ASSUME Control, StateOK, Held, [Next]_vars
      PROVE  Held'
  <2> USE <1>2 DEF Held, StateOK, Checking, Effect, SpeedSet, PropsSet, Blame, Control, Located,
                      Unwinding, Goto, Raise, Try, Handler, Return, InPlan, AfterCheck,
                      AfterWithdraw, AfterMove, AfterApproach, Pcs, Sites, SweepPcs, PlanPcs,
                      SharedPcs, StartConfirming, ResumeLoop, AfterConfirm, LeaveSweep,
                      ApproachPcs, InSweep, Cleanups, Endgame, Returns, Lifecycle!Endings,
                      Lifecycle!Outcomes, locals, kept, env, history, hw
  <2>1. CASE Prepare \/ SetInitialBias \/ SetSetpoint \/ CheckStop
    BY <2>1 DEF Prepare, SetInitialBias, SetSetpoint, CheckStop
  <2>2. CASE Withdraw
    BY <2>2 DEF Withdraw
  <2>3. CASE MoveMotor
    BY <2>3 DEF MoveMotor
  <2>4. CASE SetBiasWithdrawn
    BY <2>4 DEF SetBiasWithdrawn
  <2>5. CASE FirstApproach \/ ZHome \/ SecondApproach
    BY <2>5 DEF FirstApproach, ZHome, SecondApproach
  <2>6. CASE ArmSafeTip
    BY <2>6, ArmSafeTipStep
  <2>7. CASE RestoreSafeTip
    BY <2>7, RestoreSafeTipStep
  <2>8. CASE ReadFails \/ ReadInitial \/ ReadCycle \/ ReadConfirm \/ ReadFinal
    BY <2>8 DEF ReadFails, ReadInitial, ReadCycle, ReadConfirm, ReadFinal
  <2>9. CASE NextCycle \/ Pulse \/ UpdateStrategy \/ MaxPulse \/ ResetStrategy
    BY <2>9 DEF NextCycle, Pulse, UpdateStrategy, MaxPulse, ResetStrategy
  <2>10. CASE SaveSpeed \/ SetSweepProps
    BY <2>10 DEF SaveSpeed, SetSweepProps
  <2>11. CASE StartScan \/ PollScan
    BY <2>11 DEF StartScan, PollScan
  <2>12. CASE StepBias \/ SettleStep
    BY <2>12 DEF StepBias, SettleStep
  <2>13. CASE SweepCleanup
    BY <2>13, SweepCleanupStep
  <2>14. CASE RestoreSweepBias \/ RestoreSpeed
    BY <2>14 DEF RestoreSweepBias, RestoreSpeed
  <2>15. CASE CleanupWithdraw \/ Teardown
    BY <2>15 DEF CleanupWithdraw, Teardown
  <2>16. CASE RequestStop \/ Expire \/ Terminated
    BY <2>16 DEF RequestStop, Expire, Terminated, vars
  <2>17. CASE UNCHANGED vars
    BY <2>17 DEF vars
  <2> QED  BY <2>1, <2>2, <2>3, <2>4, <2>5, <2>6, <2>7, <2>8, <2>9, <2>10, <2>11, <2>12, <2>13,
              <2>14, <2>15, <2>16, <2>17 DEF Next, Routine, Approach, Read, Loop, Sweep
<1>3. ASSUME ScanConfined, Held
      PROVE  SettingsRestored
  BY <1>3 DEF SettingsRestored, ScanConfined, Held, Checking, SweepPcs, PlanPcs, InSweep, ApproachPcs
<1> QED  BY <1>1, <1>2, <1>3, ScanConfinedHolds, ControlInvariant, TypeCorrect, PTL DEF Spec

\* WithdrawnAtEnd: however the routine ends -- outcome, error, stop, panic --
\* the tip is off the surface, or the withdraw that failed is reported.
\* Withdrawn: after run_routine's withdraw the tip is off the surface, or that withdraw
\* reported an error.
THEOREM WithdrawnAtEndHolds == Spec => [](Withdrawn /\ WithdrawnAtEnd)
<1>1. Init => Withdrawn
  BY DEF Init, Withdrawn
<1>2. ASSUME Control, Withdrawn, [Next]_vars
      PROVE  Withdrawn'
  <2> USE <1>2 DEF Withdrawn, Effect, WithdrawTip, Blame, Control, Located, Unwinding, Goto,
                      Raise, Try, Handler, Return, InPlan, AfterCheck, AfterWithdraw, AfterMove,
                      AfterApproach, Pcs, Sites, SweepPcs, PlanPcs, SharedPcs, StartConfirming,
                      ResumeLoop, AfterConfirm, LeaveSweep, ApproachPcs, InSweep, Cleanups,
                      Endgame, Returns, Lifecycle!Endings, Lifecycle!Outcomes, locals, kept,
                      env, history, hw
  <2>1. CASE Prepare \/ SetInitialBias \/ SetSetpoint \/ CheckStop
    BY <2>1 DEF Prepare, SetInitialBias, SetSetpoint, CheckStop
  <2>2. CASE Withdraw
    BY <2>2 DEF Withdraw
  <2>3. CASE MoveMotor
    BY <2>3 DEF MoveMotor
  <2>4. CASE SetBiasWithdrawn
    BY <2>4 DEF SetBiasWithdrawn
  <2>5. CASE FirstApproach \/ ZHome \/ SecondApproach
    BY <2>5 DEF FirstApproach, ZHome, SecondApproach
  <2>6. CASE ArmSafeTip
    BY <2>6, ArmSafeTipStep
  <2>7. CASE RestoreSafeTip
    BY <2>7 DEF RestoreSafeTip
  <2>8. CASE ReadFails \/ ReadInitial \/ ReadCycle \/ ReadConfirm \/ ReadFinal
    BY <2>8 DEF ReadFails, ReadInitial, ReadCycle, ReadConfirm, ReadFinal
  <2>9. CASE NextCycle \/ Pulse \/ UpdateStrategy \/ MaxPulse \/ ResetStrategy
    BY <2>9 DEF NextCycle, Pulse, UpdateStrategy, MaxPulse, ResetStrategy
  <2>10. CASE SaveSpeed \/ SetSweepProps
    BY <2>10 DEF SaveSpeed, SetSweepProps
  <2>11. CASE StartScan \/ PollScan
    BY <2>11 DEF StartScan, PollScan
  <2>12. CASE StepBias \/ SettleStep
    BY <2>12 DEF StepBias, SettleStep
  <2>13. CASE SweepCleanup
    BY <2>13 DEF SweepCleanup
  <2>14. CASE RestoreSweepBias \/ RestoreSpeed
    BY <2>14 DEF RestoreSweepBias, RestoreSpeed
  <2>15. CASE CleanupWithdraw \/ Teardown
    BY <2>15 DEF CleanupWithdraw, Teardown
  <2>16. CASE RequestStop \/ Expire \/ Terminated
    BY <2>16 DEF RequestStop, Expire, Terminated, vars
  <2>17. CASE UNCHANGED vars
    BY <2>17 DEF vars
  <2> QED  BY <2>1, <2>2, <2>3, <2>4, <2>5, <2>6, <2>7, <2>8, <2>9, <2>10, <2>11, <2>12, <2>13,
              <2>14, <2>15, <2>16, <2>17 DEF Next, Routine, Approach, Read, Loop, Sweep
<1>3. ASSUME Withdrawn
      PROVE  WithdrawnAtEnd
  BY <1>3 DEF Withdrawn, WithdrawnAtEnd
<1> QED  BY <1>1, <1>2, <1>3, ControlInvariant, PTL DEF Spec

\* SafeTipRestoredUnlessUnread: safe-tip ends as the operator had it.
\* SafeHeld: was_enabled holds the operator's safe-tip setting from the moment a calibrated
\* approach reads it to the moment it restores it.
THEOREM SafeTipRestoredHolds == Spec => [](SafeHeld /\ SafeTipRestoredUnlessUnread)
<1>1. Init => SafeHeld
  BY DEF Init, SafeHeld
<1>2. ASSUME Control, FlagsOK, SafeHeld, [Next]_vars
      PROVE  SafeHeld'
  <2> USE <1>2 DEF SafeHeld, SafeLost, Effect, SafeTipSet, Blame, Control, Located, Unwinding,
                      Goto, Raise, Try, Handler, Return, InPlan, AfterCheck, AfterWithdraw,
                      AfterMove, AfterApproach, Pcs, Sites, SweepPcs, PlanPcs, SharedPcs,
                      StartConfirming, ResumeLoop, AfterConfirm, LeaveSweep, ApproachPcs,
                      InSweep, Cleanups, Endgame, Returns, Lifecycle!Endings,
                      Lifecycle!Outcomes, locals, kept, env, history, hw
  <2>1. CASE Prepare \/ SetInitialBias \/ SetSetpoint \/ CheckStop
    BY <2>1 DEF Prepare, SetInitialBias, SetSetpoint, CheckStop
  <2>2. CASE Withdraw
    BY <2>2 DEF Withdraw
  <2>3. CASE MoveMotor
    BY <2>3 DEF MoveMotor
  <2>4. CASE SetBiasWithdrawn
    BY <2>4 DEF SetBiasWithdrawn
  <2>5. CASE FirstApproach \/ ZHome \/ SecondApproach
    BY <2>5 DEF FirstApproach, ZHome, SecondApproach
  <2>6. CASE ArmSafeTip
    <3>1. PICK known \in {safe, FALSE}, ok \in BOOLEAN :
            /\ wasSafe' = known
            /\ IF known THEN safe' = safe /\ Goto("zHome")
                        ELSE SafeTipSet(ok, TRUE) /\ Try(ok, "zHome")
            /\ lost' = lost \cup (IF known # safe THEN {"safeRead"} ELSE {})
                            \cup (IF known \/ ok THEN {} ELSE {"safe"})
      BY <2>6, Zenon DEF ArmSafeTip
    <3>2. SafeLost => SafeLost'
      BY <2>6, ArmSafeTipStep, Zenon
    <3>3. known # safe => SafeLost'
      BY <3>1, Zenon
    <3>4. ~known /\ ~ok => SafeLost'
      BY <3>1, Zenon
    <3>5. ASSUME known = safe, known \/ ok, ~SafeLost
          PROVE  SafeHeld'
      <4>1. Goto("zHome") /\ wasSafe' = safe
        BY <3>1, <3>5, Zenon DEF Try
      <4>2. safe = ownSafe /\ ownSafe' = ownSafe
        BY <2>6, <3>5, ArmSafeTipStep
      <4>3. wasSafe' => safe' = wasSafe'
        BY <3>1, <3>5, Zenon
      <4> QED  BY <4>1, <4>2, <4>3
    <3> QED  BY <3>2, <3>3, <3>4, <3>5
  <2>7. CASE RestoreSafeTip
    <3>1. pc' \notin {"zHome", "approach2", "restoreSafeTip"} /\ pc = "restoreSafeTip"
      BY <2>7, RestoreSafeTipStep
    <3>2. SafeLost => SafeLost'
      BY <2>7, RestoreSafeTipStep, Zenon
    <3>3. ASSUME ~SafeLost
          PROVE  safe' = ownSafe' \/ SafeLost'
      <4>1. wasSafe = ownSafe /\ (wasSafe => safe = wasSafe) /\ wasSafe \in BOOLEAN
        BY <3>1, <3>3 DEF FlagsOK
      <4> QED  BY <2>7, <4>1, RestoreSafeTipStep, Zenon
    <3> QED  BY <3>1, <3>2, <3>3
  <2>8. CASE ReadFails \/ ReadInitial \/ ReadCycle \/ ReadConfirm \/ ReadFinal
    BY <2>8 DEF ReadFails, ReadInitial, ReadCycle, ReadConfirm, ReadFinal
  <2>9. CASE NextCycle \/ Pulse \/ UpdateStrategy \/ MaxPulse \/ ResetStrategy
    BY <2>9 DEF NextCycle, Pulse, UpdateStrategy, MaxPulse, ResetStrategy
  <2>10. CASE SaveSpeed \/ SetSweepProps
    BY <2>10 DEF SaveSpeed, SetSweepProps
  <2>11. CASE StartScan \/ PollScan
    BY <2>11 DEF StartScan, PollScan
  <2>12. CASE StepBias \/ SettleStep
    BY <2>12 DEF StepBias, SettleStep
  <2>13. CASE SweepCleanup
    BY <2>13 DEF SweepCleanup
  <2>14. CASE RestoreSweepBias \/ RestoreSpeed
    BY <2>14 DEF RestoreSweepBias, RestoreSpeed
  <2>15. CASE CleanupWithdraw \/ Teardown
    BY <2>15 DEF CleanupWithdraw, Teardown
  <2>16. CASE RequestStop \/ Expire \/ Terminated
    BY <2>16 DEF RequestStop, Expire, Terminated, vars
  <2>17. CASE UNCHANGED vars
    BY <2>17 DEF vars
  <2> QED  BY <2>1, <2>2, <2>3, <2>4, <2>5, <2>6, <2>7, <2>8, <2>9, <2>10, <2>11, <2>12, <2>13,
              <2>14, <2>15, <2>16, <2>17 DEF Next, Routine, Approach, Read, Loop, Sweep
<1>3. ASSUME SafeHeld
      PROVE  SafeTipRestoredUnlessUnread
  BY <1>3 DEF SafeHeld, SafeLost, SafeTipRestoredUnlessUnread
<1> QED  BY <1>1, <1>2, <1>3, ControlInvariant, TypeCorrect, PTL DEF Spec

\* CompletedIsEarned: three fresh sharp readings in a row and every planned
\* sweep lie between the last pulse and a reported success.
\* Earned: the routine's counters of confirmations and sweep plans count what happened
\* since the last pulse.
THEOREM CompletedIsEarnedHolds == Spec => [](Earned /\ CompletedIsEarned)
<1>1. Init => Earned
  BY DEF Init, Earned, CompletedIsEarned, Checking, PlanPcs, SweepPcs, ApproachPcs, InSweep
<1>2. ASSUME Control, StateOK, CountersOK, Earned, [Next]_vars
      PROVE  Earned'
  <2> USE <1>2 DEF Earned, StateOK, CountersOK, CompletedIsEarned, Checking, Confirmations,
                      PulseCounted, Control, Located, Unwinding, Goto, Raise, Try, Handler,
                      Return, InPlan, AfterCheck, AfterWithdraw, AfterMove, AfterApproach, Pcs,
                      Sites, SweepPcs, PlanPcs, SharedPcs, StartConfirming, ResumeLoop,
                      AfterConfirm, LeaveSweep, ApproachPcs, InSweep, Cleanups, Endgame,
                      Returns, Lifecycle!Endings, Lifecycle!Outcomes, locals, kept, env,
                      history, hw
  <2>1. CASE Prepare
    BY <2>1 DEF Prepare
  <2>2. CASE SetInitialBias
    BY <2>2 DEF SetInitialBias
  <2>3. CASE SetSetpoint
    BY <2>3 DEF SetSetpoint
  <2>4. CASE CheckStop
    BY <2>4 DEF CheckStop
  <2>5. CASE Withdraw
    BY <2>5 DEF Withdraw
  <2>6. CASE MoveMotor
    <3>1. PICK ok \in BOOLEAN : Try(ok, AfterMove[site]) /\ fresh' \in Effect(ok, fresh, TRUE)
      BY <2>6 DEF MoveMotor
    <3>2. ok => fresh'
      BY <3>1, Zenon DEF Effect
    <3>3. (Goto(AfterMove[site]) /\ fresh') \/ Raise("fault")
      BY <3>1, <3>2 DEF Try
    <3>4. pc = "move" /\ UNCHANGED <<site, locals, good, swept>>
      BY <2>6 DEF MoveMotor
    <3> QED  BY <3>3, <3>4
  <2>7. CASE SetBiasWithdrawn
    BY <2>7 DEF SetBiasWithdrawn
  <2>8. CASE FirstApproach
    BY <2>8 DEF FirstApproach
  <2>9. CASE ZHome
    BY <2>9 DEF ZHome
  <2>10. CASE SecondApproach
    BY <2>10 DEF SecondApproach
  <2>11. CASE ArmSafeTip
    BY <2>11, ArmSafeTipStep
  <2>12. CASE RestoreSafeTip
    BY <2>12 DEF RestoreSafeTip
  <2>13. CASE ReadFails
    BY <2>13 DEF ReadFails
  <2>14. CASE ReadInitial
    BY <2>14 DEF ReadInitial
  <2>15. CASE ReadCycle
    BY <2>15 DEF ReadCycle
  <2>16. CASE ReadConfirm
    BY <2>16 DEF ReadConfirm
  <2>17. CASE ReadFinal
    BY <2>17 DEF ReadFinal
  <2>18. CASE NextCycle
    BY <2>18 DEF NextCycle
  <2>19. CASE Pulse
    BY <2>19 DEF Pulse
  <2>20. CASE UpdateStrategy
    BY <2>20 DEF UpdateStrategy
  <2>21. CASE MaxPulse
    BY <2>21 DEF MaxPulse
  <2>22. CASE ResetStrategy
    BY <2>22 DEF ResetStrategy
  <2>23. CASE SaveSpeed \/ SetSweepProps
    BY <2>23, PolaritiesType DEF SaveSpeed, SetSweepProps
  <2>24. CASE StartScan \/ PollScan
    BY <2>24 DEF StartScan, PollScan
  <2>25. CASE StepBias \/ SettleStep
    BY <2>25 DEF StepBias, SettleStep
  <2>26. CASE SweepCleanup
    BY <2>26 DEF SweepCleanup
  <2>27. CASE RestoreSweepBias
    BY <2>27, PolaritiesType DEF RestoreSweepBias
  <2>28. CASE RestoreSpeed
    BY <2>28 DEF RestoreSpeed
  <2>29. CASE CleanupWithdraw \/ Teardown
    BY <2>29 DEF CleanupWithdraw, Teardown
  <2>30. CASE RequestStop \/ Expire \/ Terminated
    BY <2>30 DEF RequestStop, Expire, Terminated, vars
  <2>31. CASE UNCHANGED vars
    BY <2>31 DEF vars
  <2> QED  BY <2>1, <2>2, <2>3, <2>4, <2>5, <2>6, <2>7, <2>8, <2>9, <2>10, <2>11, <2>12, <2>13,
              <2>14, <2>15, <2>16, <2>17, <2>18, <2>19, <2>20, <2>21, <2>22, <2>23, <2>24,
              <2>25, <2>26, <2>27, <2>28, <2>29, <2>30, <2>31 DEF Next, Routine, Approach, Read,
              Loop, Sweep
<1>3. ASSUME Earned
      PROVE  CompletedIsEarned
  BY <1>3 DEF Earned
<1> QED  BY <1>1, <1>2, <1>3, ControlInvariant, TypeCorrect, PTL DEF Spec

\* A reported outcome has its cause, and the cycle limit is never exceeded.
THEOREM OutcomeHasCauseHolds == Spec => []OutcomeHasCause
<1>1. Init => OutcomeHasCause
  BY TipPrepAssumption DEF Init, OutcomeHasCause
<1>2. ASSUME Control, StateOK, OutcomeHasCause, [Next]_vars
      PROVE  OutcomeHasCause'
  <2> USE <1>2 DEF OutcomeHasCause, StateOK, CountCycle, CyclesSpent, Control, Located,
                      Unwinding, Goto, Raise, Try, Handler, Return, InPlan, AfterCheck,
                      AfterWithdraw, AfterMove, AfterApproach, Pcs, Sites, SweepPcs, PlanPcs,
                      SharedPcs, StartConfirming, ResumeLoop, AfterConfirm, LeaveSweep,
                      ApproachPcs, InSweep, Cleanups, Endgame, Returns, Lifecycle!Endings,
                      Lifecycle!Outcomes, locals, kept, env, history, hw
  <2>1. CASE Prepare \/ SetInitialBias \/ SetSetpoint \/ CheckStop
    BY <2>1 DEF Prepare, SetInitialBias, SetSetpoint, CheckStop
  <2>2. CASE Withdraw
    BY <2>2 DEF Withdraw
  <2>3. CASE MoveMotor
    BY <2>3 DEF MoveMotor
  <2>4. CASE SetBiasWithdrawn
    BY <2>4 DEF SetBiasWithdrawn
  <2>5. CASE FirstApproach \/ ZHome \/ SecondApproach
    BY <2>5 DEF FirstApproach, ZHome, SecondApproach
  <2>6. CASE ArmSafeTip
    BY <2>6, ArmSafeTipStep
  <2>7. CASE RestoreSafeTip
    BY <2>7 DEF RestoreSafeTip
  <2>8. CASE ReadFails \/ ReadInitial \/ ReadCycle \/ ReadConfirm \/ ReadFinal
    BY <2>8 DEF ReadFails, ReadInitial, ReadCycle, ReadConfirm, ReadFinal
  <2>9. CASE NextCycle \/ Pulse \/ UpdateStrategy \/ MaxPulse \/ ResetStrategy
    BY <2>9, TipPrepAssumption DEF NextCycle, Pulse, UpdateStrategy, MaxPulse, ResetStrategy
  <2>10. CASE SaveSpeed \/ SetSweepProps
    BY <2>10 DEF SaveSpeed, SetSweepProps
  <2>11. CASE StartScan \/ PollScan
    BY <2>11 DEF StartScan, PollScan
  <2>12. CASE StepBias \/ SettleStep
    BY <2>12 DEF StepBias, SettleStep
  <2>13. CASE SweepCleanup
    BY <2>13 DEF SweepCleanup
  <2>14. CASE RestoreSweepBias \/ RestoreSpeed
    BY <2>14 DEF RestoreSweepBias, RestoreSpeed
  <2>15. CASE CleanupWithdraw \/ Teardown
    BY <2>15 DEF CleanupWithdraw, Teardown
  <2>16. CASE RequestStop \/ Expire \/ Terminated
    BY <2>16 DEF RequestStop, Expire, Terminated, vars
  <2>17. CASE UNCHANGED vars
    BY <2>17 DEF vars
  <2> QED  BY <2>1, <2>2, <2>3, <2>4, <2>5, <2>6, <2>7, <2>8, <2>9, <2>10, <2>11, <2>12, <2>13,
              <2>14, <2>15, <2>16, <2>17 DEF Next, Routine, Approach, Read, Loop, Sweep
<1> QED  BY <1>1, <1>2, ControlInvariant, TypeCorrect, PTL DEF Spec

\* BoundedAfterStop: one pulse and one motor move at most begin after a stop
\* request, wherever it arrives.
\* Late: between the stop request and the next look at the flag lies at most one pulse
\* and at most one motor move.
THEOREM BoundedAfterStopHolds == Spec => [](Late /\ BoundedAfterStop)
<1>1. Init => Late
  BY DEF Init, Late, BoundedAfterStop
<1>2. ASSUME Control, CountersOK, Late, [Next]_vars
      PROVE  Late'
  <2> USE <1>2 DEF Late, BoundedAfterStop, CountersOK, PulseCounted, Control, Located,
                      Unwinding, Goto, Raise, Try, Handler, Return, InPlan, AfterCheck,
                      AfterWithdraw, AfterMove, AfterApproach, Pcs, Sites, SweepPcs, PlanPcs,
                      SharedPcs, StartConfirming, ResumeLoop, AfterConfirm, LeaveSweep,
                      ApproachPcs, InSweep, Cleanups, Endgame, Returns, Lifecycle!Endings,
                      Lifecycle!Outcomes, locals, kept, env, history, hw
  <2>1. CASE Prepare \/ SetInitialBias \/ SetSetpoint \/ CheckStop
    BY <2>1 DEF Prepare, SetInitialBias, SetSetpoint, CheckStop
  <2>2. CASE Withdraw
    BY <2>2 DEF Withdraw
  <2>3. CASE MoveMotor
    BY <2>3 DEF MoveMotor
  <2>4. CASE SetBiasWithdrawn
    BY <2>4 DEF SetBiasWithdrawn
  <2>5. CASE FirstApproach \/ ZHome \/ SecondApproach
    BY <2>5 DEF FirstApproach, ZHome, SecondApproach
  <2>6. CASE ArmSafeTip
    BY <2>6, ArmSafeTipStep
  <2>7. CASE RestoreSafeTip
    BY <2>7 DEF RestoreSafeTip
  <2>8. CASE ReadFails \/ ReadInitial \/ ReadCycle \/ ReadConfirm \/ ReadFinal
    BY <2>8 DEF ReadFails, ReadInitial, ReadCycle, ReadConfirm, ReadFinal
  <2>9. CASE NextCycle \/ Pulse \/ UpdateStrategy \/ MaxPulse \/ ResetStrategy
    BY <2>9 DEF NextCycle, Pulse, UpdateStrategy, MaxPulse, ResetStrategy
  <2>10. CASE SaveSpeed \/ SetSweepProps
    BY <2>10 DEF SaveSpeed, SetSweepProps
  <2>11. CASE StartScan \/ PollScan
    BY <2>11 DEF StartScan, PollScan
  <2>12. CASE StepBias \/ SettleStep
    BY <2>12 DEF StepBias, SettleStep
  <2>13. CASE SweepCleanup
    BY <2>13, SweepCleanupStep
  <2>14. CASE RestoreSweepBias \/ RestoreSpeed
    BY <2>14 DEF RestoreSweepBias, RestoreSpeed
  <2>15. CASE CleanupWithdraw \/ Teardown
    BY <2>15 DEF CleanupWithdraw, Teardown
  <2>16. CASE RequestStop \/ Expire \/ Terminated
    BY <2>16 DEF RequestStop, Expire, Terminated, vars
  <2>17. CASE UNCHANGED vars
    BY <2>17 DEF vars
  <2> QED  BY <2>1, <2>2, <2>3, <2>4, <2>5, <2>6, <2>7, <2>8, <2>9, <2>10, <2>11, <2>12, <2>13,
              <2>14, <2>15, <2>16, <2>17 DEF Next, Routine, Approach, Read, Loop, Sweep
<1>3. ASSUME Late
      PROVE  BoundedAfterStop
  BY <1>3 DEF Late
<1> QED  BY <1>1, <1>2, <1>3, ControlInvariant, TypeCorrect, PTL DEF Spec

-----------------------------------------------------------------------------
(***************************************************************************)
(* The routine implements the life cycle of run_routine.                   *)
(***************************************************************************)
Body == Pcs \ ({"prepare"} \cup Endgame)

\* The actions of the body stay in it, or end it.
LEMMA BodyStays ==
  ASSUME Control,
         \/ SetInitialBias \/ SetSetpoint \/ CheckStop \/ Withdraw \/ MoveMotor
         \/ SetBiasWithdrawn \/ Approach \/ Read \/ Loop \/ Sweep
  PROVE  pc \in Body /\ pc' \in Body \cup {"cleanup"} /\ stop' = stop
<1> USE DEF Body, Control, Located, Unwinding, Goto, Raise, Try, Handler, Return, InPlan,
               AfterCheck, AfterWithdraw, AfterMove, AfterApproach, Pcs, Sites, SweepPcs,
               PlanPcs, SharedPcs, StartConfirming, ResumeLoop, AfterConfirm, LeaveSweep,
               ApproachPcs, InSweep, Cleanups, Endgame, Returns, Lifecycle!Endings,
               Lifecycle!Outcomes, locals, kept, env, history, hw
<1>1. CASE SetInitialBias \/ SetSetpoint \/ CheckStop
  BY <1>1 DEF SetInitialBias, SetSetpoint, CheckStop
<1>2. CASE Withdraw
  BY <1>2 DEF Withdraw
<1>3. CASE MoveMotor
  BY <1>3 DEF MoveMotor
<1>4. CASE SetBiasWithdrawn
  BY <1>4 DEF SetBiasWithdrawn
<1>5. CASE FirstApproach \/ ZHome \/ SecondApproach
  BY <1>5 DEF FirstApproach, ZHome, SecondApproach
<1>6. CASE ArmSafeTip
  BY <1>6, ArmSafeTipStep
<1>7. CASE RestoreSafeTip
  BY <1>7 DEF RestoreSafeTip
<1>8. CASE ReadFails \/ ReadInitial \/ ReadCycle \/ ReadConfirm \/ ReadFinal
  BY <1>8 DEF ReadFails, ReadInitial, ReadCycle, ReadConfirm, ReadFinal
<1>9. CASE NextCycle \/ Pulse \/ UpdateStrategy \/ MaxPulse \/ ResetStrategy
  BY <1>9 DEF NextCycle, Pulse, UpdateStrategy, MaxPulse, ResetStrategy
<1>10. CASE SaveSpeed \/ SetSweepProps
  BY <1>10 DEF SaveSpeed, SetSweepProps
<1>11. CASE StartScan \/ PollScan
  BY <1>11 DEF StartScan, PollScan
<1>12. CASE StepBias \/ SettleStep
  BY <1>12 DEF StepBias, SettleStep
<1>13. CASE SweepCleanup
  BY <1>13 DEF SweepCleanup
<1>14. CASE RestoreSweepBias \/ RestoreSpeed
  BY <1>14 DEF RestoreSweepBias, RestoreSpeed
<1> QED  BY <1>1, <1>2, <1>3, <1>4, <1>5, <1>6, <1>7, <1>8, <1>9, <1>10, <1>11, <1>12, <1>13,
            <1>14 DEF Approach, Read, Loop, Sweep

\* ImplementsLifecycle: every behaviour of the routine is one of the life cycle
\* run_routine promises -- one ending, one withdraw, one teardown, and a stop
\* reported only after a stop request.
THEOREM LifecycleImplemented == Spec => ImplementsLifecycle
<1>1. Init => Lifecycle!Init
  BY DEF Init, Lifecycle!Init, Phase
<1>2. ASSUME Control, Control', OutcomeHasCause', [Next]_vars
      PROVE  [Lifecycle!Next]_Lifecycle!vars
  <2> Unwinding /\ Unwinding'
    BY <1>2 DEF Control
  <2>1. CASE \/ SetInitialBias \/ SetSetpoint \/ CheckStop \/ Withdraw \/ MoveMotor
             \/ SetBiasWithdrawn \/ Approach \/ Read \/ Loop \/ Sweep
    <3> pc \in Body /\ pc' \in Body \cup {"cleanup"} /\ stop' = stop
      BY <1>2, <2>1, BodyStays
    <3>1. Phase = "running"
      BY DEF Phase, Body, Endgame
    <3>2. CASE pc' = "cleanup"
      <4>1. Phase' = "withdraw" /\ ret' \in Lifecycle!Endings
        BY <3>2 DEF Phase, Unwinding
      <4>2. ret' \in {"stoppedByUser", "shutdownRequested"} => stop
        BY <1>2 DEF OutcomeHasCause
      <4>3. Lifecycle!End(ret')
        BY <3>1, <4>1, <4>2 DEF Lifecycle!End
      <4> QED  BY <4>1, <4>3 DEF Lifecycle!Next
    <3>3. CASE pc' \in Body
      <4>1. Phase' = "running"
        BY <3>3 DEF Phase, Body, Endgame
      <4> QED  BY <3>1, <4>1 DEF Lifecycle!vars
    <3> QED  BY <3>2, <3>3
  <2>2. CASE Prepare
    <3>1. CASE Goto("setBias")
      BY <2>2, <3>1 DEF Prepare, Goto, env, Phase, Unwinding, Cleanups, Endgame,
                        Lifecycle!Prepare, Lifecycle!Next
    <3>2. CASE pc' = "done" /\ ret' = "prepareError"
      BY <2>2, <3>2 DEF Prepare, env, Phase, Unwinding, Cleanups, Endgame,
                        Lifecycle!Prepare, Lifecycle!Next
    <3> QED  BY <2>2, <3>1, <3>2 DEF Prepare
  <2>3. CASE CleanupWithdraw
    <3>1. Phase = "withdraw" /\ Phase' = "teardown" /\ ret' = ret /\ stop' = stop
      BY <2>3 DEF CleanupWithdraw, Goto, Phase, env
    <3> QED  BY <3>1 DEF Lifecycle!Withdraw, Lifecycle!Next
  <2>4. CASE Teardown
    <3>1. /\ Phase = "teardown" /\ Phase' = "done" /\ stop' = stop
          /\ ret' = Lifecycle!Surface(ret)
      BY <2>4 DEF Teardown, Phase, env, Lifecycle!Surface
    <3> QED  BY <3>1 DEF Lifecycle!Teardown, Lifecycle!Next, Lifecycle!Surface
  <2>5. CASE RequestStop
    <3>1. ~stop /\ stop' = TRUE /\ Phase' = Phase /\ ret' = ret
      BY <2>5 DEF RequestStop, Phase
    <3> QED  BY <3>1, Zenon DEF Lifecycle!RequestStop, Lifecycle!Next
  <2>6. CASE Expire \/ Terminated \/ UNCHANGED vars
    <3>1. Phase' = Phase /\ ret' = ret /\ stop' = stop
      BY <2>6 DEF Expire, Terminated, vars, env, Phase
    <3> QED  BY <3>1 DEF Lifecycle!vars
  <2> QED  BY <1>2, <2>1, <2>2, <2>3, <2>4, <2>5, <2>6 DEF Next, Routine
<1> QED  BY <1>1, <1>2, ControlInvariant, OutcomeHasCauseHolds, PTL
         DEF Spec, ImplementsLifecycle, Lifecycle!Spec
=============================================================================
