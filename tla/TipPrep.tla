------------------------------ MODULE TipPrep ------------------------------
(***************************************************************************)
(* The tip-preparation routine (src/tip_prep/runner.rs) inside run_routine *)
(* (src/routine/mod.rs), with the composite actions it calls               *)
(* (CalibratedApproach, Reposition), the guarded cleanups, the shutdown    *)
(* flag and the cycle and time budgets.                                    *)
(*                                                                         *)
(* The routine is one thread: `pc` names its next instrument call or       *)
(* decision.  Any instrument call may fail; another thread may request a   *)
(* stop at any time, which the routine notices only at the points where    *)
(* the code looks (`CheckStop`, `NextCycle`, `PollScan`, `SettleStep`).    *)
(*                                                                         *)
(* `site` names the call site of the shared sequences withdraw -> motor    *)
(* move -> approach -> read:                                               *)
(*   init      the first approach of run()                                 *)
(*   cycle     reposition and measurement after a pulse                    *)
(*   confirm   one of the three confirmation reads                         *)
(*   plan      prepare_for_sweep                                           *)
(*   final     measure_final_freq_shift                                    *)
(*   max       the withdraw before the maximum-voltage pulse               *)
(*   unstable  the reposition after it                                     *)
(***************************************************************************)
EXTENDS Instrument, PulseStrategy

CONSTANTS
  SharpLo, SharpHi,   \* sharp_tip_bounds
  CheckStability,     \* stability.check_stability
  AllowedChange,      \* stability.stable_tip_allowed_change
  UseScanSpeed,       \* stability.scan_speed_m_s is Some
  Polarities,         \* the sweep plans of polarity_mode: <<1>>, <<-1>> or <<1, -1>>
  BiasSteps,          \* stability.bias_steps
  MaxPolls,           \* status polls while the scan starts, 50 in the code
  StatusInterval,     \* timing.status_interval
  Limited, MaxCycles, \* max_cycles, when it is Some
  HasMaxDuration,     \* max_duration_secs is Some
  InitialBias         \* initial_bias_v

ASSUME TipPrepAssumption ==
  /\ SharpLo \in Int /\ SharpHi \in Int /\ AllowedChange \in Int
  /\ CheckStability \in BOOLEAN /\ UseScanSpeed \in BOOLEAN
  /\ Polarities \in {<<1>>, <<-1>>, <<1, -1>>}
  /\ BiasSteps \in Nat \ {0}
  /\ MaxPolls \in Nat \ {0}
  /\ StatusInterval \in Nat
  /\ Limited \in BOOLEAN /\ MaxCycles \in Nat
  /\ HasMaxDuration \in BOOLEAN
  /\ InitialBias \in Int

Confirmations == 3  \* CONFIRMATION_READS

VARIABLES
  pc, site,
  ret,       \* what is being returned: "none" while the body runs on
  n,         \* the running loop's counter: confirmations, polls or bias steps
  plan,      \* the sweep plan being executed
  origin,    \* where the stability check was started: "init" or "cycle"
  cycle,     \* Cycles.completed
  cycleFs,   \* freq_shift of the current cycle
  baseline,  \* the last confirmation read
  savedSpeed, \* original_speed: "none", or the scan speed read before the sweeps
  savedProps, \* the scan properties read before the running sweep
  wasSafe,   \* was_enabled of the running CalibratedApproach
  pulse,     \* the PulseState
  stop,      \* the ShutdownFlag
  expired    \* the time budget has run out

\* History, read by no action.
VARIABLES
  ownSafe,   \* whether the operator had safe-tip enabled before the run
  lost,      \* settings for which a call reported a failure
  fresh,     \* the coarse motor has moved since the last reading
  good,      \* consecutive in-window readings on fresh spots since the last pulse
  swept,     \* sweep plans completed since the last pulse
  latePulses, lateMoves  \* pulses and motor moves begun after the stop request

kept    == <<savedSpeed, savedProps, wasSafe>>
locals  == <<n, plan, origin, cycle, cycleFs, baseline, kept>>
env     == <<stop, expired, ownSafe>>
history == <<lost, fresh, good, swept, latePulses, lateMoves>>
vars    == <<pc, site, ret, locals, pulse, hw, env, history>>

-----------------------------------------------------------------------------
(***************************************************************************)
(* Control flow.                                                           *)
(***************************************************************************)

\* Where each point that looks at the shutdown flag continues.
AfterCheck ==
  [ settleInit    |-> "read",     settlePulse  |-> "withdraw",
    checkConfirm  |-> "withdraw", checkRead    |-> "read",
    checkPlan     |-> "withdraw", settleOff    |-> "offBias",
    settlePlan    |-> "sweepProps", settleFinal |-> "read",
    checkStep     |-> "stepBias", settleSwept  |-> "biasBack" ]

AfterWithdraw ==
  [ cycle |-> "move", confirm |-> "move", unstable |-> "move", plan |-> "move",
    final |-> "settleOff", max |-> "maxPulse" ]

AfterMove ==
  [ cycle |-> "approach1", confirm |-> "approach1", unstable |-> "approach1",
    plan |-> "settleOff" ]

AfterApproach ==
  [ init |-> "settleInit", cycle |-> "read", confirm |-> "checkRead",
    unstable |-> "reset", plan |-> "settlePlan", final |-> "settleFinal" ]

Sites == {"init", "cycle", "confirm", "plan", "final", "max", "unstable"}

\* Inside the guarded body of execute_stability_sweep ...
SweepPcs == {"scanStart", "scanPoll", "checkStep", "stepBias", "settleStep"}

\* ... inside the guarded body of check_stability only ...
PlanPcs == {"checkPlan", "settlePlan", "sweepProps", "settleSwept", "biasBack"}

\* ... or on one of the shared sequences, where `site` tells.
SharedPcs == {"withdraw", "move", "settleOff", "offBias", "approach1", "armSafeTip", "restoreSafeTip"}

InPlan == pc \in PlanPcs \/ (pc \in SharedPcs /\ site = "plan")

\* Where an error leaves the routine: the innermost cleanup around it.
Handler ==
  IF pc \in {"zHome", "approach2"} THEN "restoreSafeTip"
  ELSE IF pc \in SweepPcs THEN "sweepCleanup"
  ELSE IF InPlan \/ pc = "sweepCleanup" THEN "restoreSpeed"
  ELSE "cleanup"

Goto(l) == pc' = l /\ ret' = ret

Raise(e) == pc' = Handler /\ ret' = e

\* `?` on an instrument call.
Try(ok, l) == IF ok THEN Goto(l) ELSE Raise("fault")

\* A plausible bug: an early return past the withdraw.
Return_Direct(r) == pc' = "teardown" /\ ret' = r

\* Ok(outcome) from run(), or a panic: nothing between run() and its caller.
Return(r) == pc' = "cleanup" /\ ret' = r

Pcs ==
  DOMAIN AfterCheck \cup SweepPcs \cup PlanPcs \cup SharedPcs \cup
  { "prepare", "setBias", "setpoint", "zHome", "approach2", "read", "loop", "pulse",
    "maxPulse", "reset", "update", "saveSpeed", "sweepCleanup", "restoreSpeed",
    "cleanup", "teardown", "done" }

Start(k) == Polarities[k] * BiasSteps  \* starting_bias of plan k

IsSharp(fs) == SharpLo <= fs /\ fs <= SharpHi

Distance(a, b) == IF a < b THEN b - a ELSE a - b

Blame(ok, what) == lost' = IF ok THEN lost ELSE lost \cup {what}

Init ==
  /\ pc = "prepare" /\ site = "init" /\ ret = "none"
  /\ n = 0 /\ plan = 1 /\ origin = "init"
  /\ cycle = 0 /\ cycleFs = NoReading /\ baseline = NoReading
  /\ savedSpeed = "none" /\ savedProps = "original" /\ wasSafe = FALSE
  /\ pulse = NewPulseState
  /\ tip \in {"withdrawn", "engaged"} /\ scan = FALSE /\ bias = 0
  /\ speed = "original" /\ props = "original" /\ safe \in BOOLEAN /\ ownSafe = safe
  /\ stop \in BOOLEAN /\ expired = FALSE
  /\ lost = {} /\ fresh = FALSE /\ good = 0 /\ swept = 0
  /\ latePulses = 0 /\ lateMoves = 0

-----------------------------------------------------------------------------
(***************************************************************************)
(* Other threads and the clock.                                            *)
(***************************************************************************)
RequestStop ==
  /\ ~stop /\ pc # "done"
  /\ stop' = TRUE
  /\ UNCHANGED <<pc, site, ret, locals, pulse, hw, expired, ownSafe, history>>

\* The budget clock starts just before the initial measurement.
Clocked == pc # "done" /\ (site = "init" => pc \in {"read", "loop", "pulse"})

Expire ==
  /\ HasMaxDuration /\ ~expired /\ Clocked
  /\ expired' = TRUE
  /\ UNCHANGED <<pc, site, ret, locals, pulse, hw, stop, ownSafe, history>>

-----------------------------------------------------------------------------
(***************************************************************************)
(* run_routine before the routine, and the head of run().                  *)
(***************************************************************************)
Prepare ==
  /\ pc = "prepare"
  /\ \/ Goto("setBias")
     \/ pc' = "done" /\ ret' = "prepareError"
  /\ UNCHANGED <<site, locals, pulse, hw, env, history>>

SetInitialBias ==
  /\ pc = "setBias"
  /\ \E ok \in BOOLEAN : SetBias(ok, InitialBias) /\ Try(ok, "setpoint") /\ Blame(ok, "bias")
  /\ UNCHANGED <<site, locals, pulse, tip, scan, speed, props, safe, env,
                 fresh, good, swept, latePulses, lateMoves>>

SetSetpoint ==
  /\ pc = "setpoint"
  /\ \E ok \in BOOLEAN : Try(ok, "approach1")
  /\ UNCHANGED <<site, locals, pulse, hw, env, history>>

\* A plausible bug: confirm_sharp does not look at the flag.
CheckStop_SettlesOnly ==
  /\ pc \in DOMAIN AfterCheck
  /\ IF stop /\ pc \notin {"checkConfirm", "checkRead"}
       THEN Raise("shutdownRequested") ELSE Goto(AfterCheck[pc])
  /\ UNCHANGED <<site, locals, pulse, hw, env, history>>

\* rt.settle, rt.check_shutdown.
CheckStop ==
  /\ pc \in DOMAIN AfterCheck
  /\ IF stop THEN Raise("shutdownRequested") ELSE Goto(AfterCheck[pc])
  /\ UNCHANGED <<site, locals, pulse, hw, env, history>>

-----------------------------------------------------------------------------
(***************************************************************************)
(* Withdraw, motor move and calibrated approach.                           *)
(***************************************************************************)

\* A plausible bug: the error of the withdraw is logged, not propagated.
Withdraw_ErrorIgnored ==
  /\ pc = "withdraw"
  /\ \E ok \in BOOLEAN : WithdrawTip(ok) /\ Goto(AfterWithdraw[site])
  /\ UNCHANGED <<site, locals, pulse, scan, bias, speed, props, safe, env, history>>

Withdraw ==
  /\ pc = "withdraw"
  /\ \E ok \in BOOLEAN : WithdrawTip(ok) /\ Try(ok, AfterWithdraw[site])
  /\ UNCHANGED <<site, locals, pulse, scan, bias, speed, props, safe, env, history>>

MoveMotor ==
  /\ pc = "move"
  /\ \E ok \in BOOLEAN : Try(ok, AfterMove[site]) /\ fresh' \in Effect(ok, fresh, TRUE)
  /\ lateMoves' = IF stop /\ lateMoves < 2 THEN lateMoves + 1 ELSE lateMoves
  /\ UNCHANGED <<site, locals, pulse, hw, env, lost, good, swept, latePulses>>

\* The bias set between the settled withdraw and the approach that follows it.
SetBiasWithdrawn ==
  /\ pc = "offBias"
  /\ \E ok \in BOOLEAN :
       /\ SetBias(ok, IF site = "plan" THEN Start(plan) ELSE InitialBias)
       /\ Try(ok, "approach1")
       /\ Blame(ok, "bias")
  /\ UNCHANGED <<site, locals, pulse, tip, scan, speed, props, safe, env,
                 fresh, good, swept, latePulses, lateMoves>>

FirstApproach ==
  /\ pc = "approach1"
  /\ \E ok \in BOOLEAN : AutoApproach(ok) /\ Try(ok, "armSafeTip")
  /\ UNCHANGED <<site, locals, pulse, scan, bias, speed, props, safe, env, history>>

\* was_enabled = safe_tip_enabled().unwrap_or(false): a failed read counts as "disabled".
ArmSafeTip ==
  /\ pc = "armSafeTip"
  /\ \E known \in {safe, FALSE}, ok \in BOOLEAN :
       /\ wasSafe' = known
       /\ IF known THEN safe' = safe /\ Goto("zHome")
                   ELSE SafeTipSet(ok, TRUE) /\ Try(ok, "zHome")
       /\ lost' = lost \cup (IF known # safe THEN {"safeRead"} ELSE {})
                       \cup (IF known \/ ok THEN {} ELSE {"safe"})
  /\ UNCHANGED <<site, n, plan, origin, cycle, cycleFs, baseline, savedSpeed, savedProps, pulse,
                 tip, scan, bias, speed, props, env, fresh, good, swept, latePulses, lateMoves>>

ZHome ==
  /\ pc = "zHome"
  /\ \E ok \in BOOLEAN : GoZHome(ok) /\ Try(ok, "approach2")
  /\ UNCHANGED <<site, locals, pulse, scan, bias, speed, props, safe, env, history>>

\* Centering the frequency shift may fail without consequence; then the
\* second auto-approach.
SecondApproach ==
  /\ pc = "approach2"
  /\ \E ok \in BOOLEAN : AutoApproach(ok) /\ Try(ok, "restoreSafeTip")
  /\ UNCHANGED <<site, locals, pulse, scan, bias, speed, props, safe, env, history>>

\* A plausible bug: the restore is skipped when the approach failed.
RestoreSafeTip_OnlyOnSuccess ==
  /\ pc = "restoreSafeTip"
  /\ \E ok \in BOOLEAN :
       IF wasSafe \/ ret # "none" THEN UNCHANGED <<safe, lost>>
                                  ELSE SafeTipSet(ok, FALSE) /\ Blame(ok, "safe")
  /\ IF ret = "none" THEN Goto(AfterApproach[site]) ELSE Raise(ret)
  /\ UNCHANGED <<site, locals, pulse, tip, scan, bias, speed, props, env,
                 fresh, good, swept, latePulses, lateMoves>>

\* "Always restore safe-tip state before propagating errors"; its own error
\* is logged only.
RestoreSafeTip ==
  /\ pc = "restoreSafeTip"
  /\ \E ok \in BOOLEAN :
       IF wasSafe THEN UNCHANGED <<safe, lost>>
                  ELSE SafeTipSet(ok, FALSE) /\ Blame(ok, "safe")
  /\ IF ret = "none" THEN Goto(AfterApproach[site]) ELSE Raise(ret)
  /\ UNCHANGED <<site, locals, pulse, tip, scan, bias, speed, props, env,
                 fresh, good, swept, latePulses, lateMoves>>

-----------------------------------------------------------------------------
(***************************************************************************)
(* Measurements and the decisions taken on them.                           *)
(***************************************************************************)

\* The head of check_stability and of confirm_sharp.
StartConfirming(from) ==
  /\ pc' = "checkConfirm" /\ ret' = ret /\ site' = "confirm"
  /\ n' = 0 /\ origin' = from

\* handle_stability returns false; only a cycle's check is followed by
\* update_voltage.
ResumeLoop == Goto(IF origin = "cycle" THEN "update" ELSE "loop")

ReadFails ==
  /\ pc = "read"
  /\ Raise("fault")
  /\ UNCHANGED <<site, locals, pulse, hw, env, history>>

ReadInitial ==
  /\ pc = "read" /\ site = "init"
  /\ \E fs \in Readings :
       IF IsSharp(fs) THEN StartConfirming("init")
                      ELSE Goto("loop") /\ UNCHANGED <<site, n, origin>>
  /\ fresh' = FALSE
  /\ UNCHANGED <<plan, cycle, cycleFs, baseline, kept, pulse, hw, env,
                 lost, good, swept, latePulses, lateMoves>>

ReadCycle ==
  /\ pc = "read" /\ site = "cycle"
  /\ \E fs \in Readings :
       /\ cycleFs' = fs
       /\ IF IsSharp(fs) THEN StartConfirming("cycle")
                         ELSE Goto("update") /\ UNCHANGED <<site, n, origin>>
  /\ fresh' = FALSE
  /\ UNCHANGED <<plan, cycle, baseline, kept, pulse, hw, env,
                 lost, good, swept, latePulses, lateMoves>>

\* A plausible bug: the count survives from one confirmation to the next.
AfterConfirm_Majority(fs) ==
  IF n + 1 < Confirmations THEN Goto("checkConfirm")
  ELSE IF ~IsSharp(fs) THEN ResumeLoop
  ELSE IF CheckStability THEN Goto("saveSpeed")
  ELSE Return("completed")

\* Where a confirmation read of value fs leads.
AfterConfirm(fs) ==
  IF ~IsSharp(fs) THEN ResumeLoop
  ELSE IF n + 1 < Confirmations THEN Goto("checkConfirm")
  ELSE IF CheckStability THEN Goto("saveSpeed")
  ELSE Return("completed")

ReadConfirm ==
  /\ pc = "read" /\ site = "confirm"
  /\ \E fs \in Readings :
       /\ AfterConfirm(fs)
       /\ baseline' = fs
       /\ good' = IF IsSharp(fs) /\ fresh THEN (IF good < Confirmations THEN good + 1 ELSE good)
                                          ELSE 0
  /\ n' = n + 1
  /\ fresh' = FALSE
  /\ UNCHANGED <<site, plan, origin, cycle, cycleFs, kept, pulse, hw, env,
                 lost, swept, latePulses, lateMoves>>

\* measure_final_freq_shift and the comparison with the baseline.
ReadFinal ==
  /\ pc = "read" /\ site = "final"
  /\ \E fs \in Readings :
       IF Distance(fs, baseline) <= AllowedChange
         THEN Return("completed") /\ site' = site
         ELSE Goto("withdraw") /\ site' = "max"
  /\ fresh' = FALSE
  /\ UNCHANGED <<locals, pulse, hw, env, lost, good, swept, latePulses, lateMoves>>

-----------------------------------------------------------------------------
(***************************************************************************)
(* The pulse loop.                                                         *)
(***************************************************************************)

\* A plausible bug: off by one.
CyclesSpent_OneMore == Limited /\ cycle > MaxCycles

CyclesSpent == Limited /\ cycle >= MaxCycles

\* Without a limit the count decides nothing and is left out.
CountCycle == cycle' = IF Limited THEN cycle + 1 ELSE cycle

\* Cycles::next, then the status line: `cycle % status_interval` panics on 0.
NextCycle ==
  /\ pc = "loop"
  /\ \/ stop /\ Return("stoppedByUser") /\ cycle' = cycle
     \/ ~stop /\ expired /\ Return("timedOut") /\ cycle' = cycle
     \/ ~stop /\ ~expired /\ CyclesSpent /\ Return("cycleLimit") /\ cycle' = cycle
     \/ /\ ~stop /\ ~expired /\ ~CyclesSpent
        /\ CountCycle
        /\ IF StatusInterval = 0 THEN Return("panic") ELSE Goto("pulse")
  /\ UNCHANGED <<site, n, plan, origin, cycleFs, baseline, kept, pulse, hw, env, history>>

\* What both kinds of pulse do to the strategy's counter and to the history.
PulseCounted ==
  /\ pulse' = CountPulse(pulse)
  /\ good' = 0 /\ swept' = 0
  /\ latePulses' = IF stop /\ latePulses < 2 THEN latePulses + 1 ELSE latePulses

Pulse ==
  /\ pc = "pulse"
  /\ PulseCounted
  /\ \E ok \in BOOLEAN : Try(ok, "settlePulse")
  /\ site' = "cycle"
  /\ UNCHANGED <<locals, hw, env, lost, fresh, lateMoves>>

UpdateStrategy ==
  /\ pc = "update"
  /\ pulse' = UpdateVoltage(pulse, cycleFs)
  /\ Goto("loop")
  /\ UNCHANGED <<site, locals, hw, env, history>>

\* The maximum-voltage pulse after a failed stability check.
MaxPulse ==
  /\ pc = "maxPulse"
  /\ PulseCounted
  /\ \E ok \in BOOLEAN : Try(ok, "withdraw")
  /\ site' = "unstable"
  /\ UNCHANGED <<locals, hw, env, lost, fresh, lateMoves>>

ResetStrategy ==
  /\ pc = "reset"
  /\ pulse' = ResetPulse(pulse)
  /\ ResumeLoop
  /\ UNCHANGED <<site, locals, hw, env, history>>

-----------------------------------------------------------------------------
(***************************************************************************)
(* The stability sweep.                                                    *)
(***************************************************************************)

\* speed_get, then speed_set; neither failure stops the check.
SaveSpeed ==
  /\ pc = "saveSpeed"
  /\ \E got, ok \in BOOLEAN :
       IF UseScanSpeed /\ got
         THEN savedSpeed' = speed /\ SpeedSet(ok, "sweep")
         ELSE UNCHANGED <<savedSpeed, speed>>
  /\ plan' = 1 /\ site' = "plan"
  /\ Goto("checkPlan")
  /\ UNCHANGED <<n, origin, cycle, cycleFs, baseline, savedProps, wasSafe, pulse, tip, scan, bias,
                 props, safe,
                 env, history>>

\* props_get()? and props_set()?, both before the guarded body.
SetSweepProps ==
  /\ pc = "sweepProps"
  /\ \E got, ok \in BOOLEAN :
       IF got
         THEN savedProps' = props /\ PropsSet(ok, "sweep") /\ Try(ok, "scanStart") /\ Blame(ok, "props")
         ELSE Raise("fault") /\ UNCHANGED <<savedProps, props, lost>>
  /\ UNCHANGED <<site, n, plan, origin, cycle, cycleFs, baseline, savedSpeed, wasSafe, pulse, tip,
                 scan, bias, speed, safe, env,
                 fresh, good, swept, latePulses, lateMoves>>

StartScan ==
  /\ pc = "scanStart"
  /\ \E ok \in BOOLEAN : ScanAction(ok, TRUE) /\ Try(ok, "scanPoll")
  /\ n' = 0
  /\ UNCHANGED <<site, plan, origin, cycle, cycleFs, baseline, kept, pulse,
                 tip, bias, speed, props, safe, env, history>>

\* A plausible bug: waiting for the scan with plain sleeps and no limit.
PollScan_Endless ==
  /\ pc = "scanPoll"
  /\ \/ Goto("checkStep") /\ n' = 0
     \/ Goto("scanPoll") /\ n' = (n + 1) % MaxPolls
  /\ UNCHANGED <<site, plan, origin, cycle, cycleFs, baseline, kept, pulse, hw, env, history>>

\* One round of settle(100) and status(); the last unsuccessful one is a Timeout.
PollScan ==
  /\ pc = "scanPoll"
  /\ \/ stop /\ Raise("shutdownRequested") /\ n' = n
     \/ ~stop /\ Raise("fault") /\ n' = n
     \/ ~stop /\ Goto("checkStep") /\ n' = 0
     \/ ~stop /\ n + 1 < MaxPolls /\ Goto("scanPoll") /\ n' = n + 1
  /\ UNCHANGED <<site, plan, origin, cycle, cycleFs, baseline, kept, pulse, hw, env, history>>

StepBias ==
  /\ pc = "stepBias"
  /\ \E ok \in BOOLEAN :
       /\ SetBias(ok, Polarities[plan] * (BiasSteps - n))
       /\ Try(ok, "settleStep")
       /\ Blame(ok, "bias")
  /\ UNCHANGED <<site, locals, pulse, tip, scan, speed, props, safe, env,
                 fresh, good, swept, latePulses, lateMoves>>

SettleStep ==
  /\ pc = "settleStep"
  /\ \/ stop /\ Raise("shutdownRequested") /\ n' = n
     \/ ~stop /\ n + 1 < BiasSteps /\ Goto("checkStep") /\ n' = n + 1
     \/ ~stop /\ n + 1 = BiasSteps /\ Goto("sweepCleanup") /\ n' = n
  /\ UNCHANGED <<site, plan, origin, cycle, cycleFs, baseline, kept, pulse, hw, env, history>>

\* What the cleanup of execute_stability_sweep passes on: the body's result.
LeaveSweep == IF ret = "none" THEN Goto("settleSwept") ELSE Raise(ret)

\* A plausible bug: the scan is stopped only after a completed sweep.
SweepCleanup_StopOnSuccess ==
  /\ pc = "sweepCleanup"
  /\ \E stopped, restored, up \in BOOLEAN :
       /\ IF ret = "none" THEN ScanAction(stopped, FALSE) ELSE scan' = scan
       /\ PropsSet(restored, savedProps) /\ WithdrawTip(up)
       /\ lost' = lost \cup (IF stopped THEN {} ELSE {"scan"})
                       \cup (IF restored THEN {} ELSE {"props"})
  /\ LeaveSweep
  /\ UNCHANGED <<site, locals, pulse, bias, speed, safe, env,
                 fresh, good, swept, latePulses, lateMoves>>

\* Stop the scan, restore its properties, withdraw; each error is logged only.
SweepCleanup ==
  /\ pc = "sweepCleanup"
  /\ \E stopped, restored, up \in BOOLEAN :
       /\ ScanAction(stopped, FALSE) /\ PropsSet(restored, savedProps) /\ WithdrawTip(up)
       /\ lost' = lost \cup (IF stopped THEN {} ELSE {"scan"})
                       \cup (IF restored THEN {} ELSE {"props"})
  /\ LeaveSweep
  /\ UNCHANGED <<site, locals, pulse, bias, speed, safe, env,
                 fresh, good, swept, latePulses, lateMoves>>

\* bias.set(starting_bias) after a completed sweep, and the next plan.
RestoreSweepBias ==
  /\ pc = "biasBack"
  /\ \E ok \in BOOLEAN :
       /\ SetBias(ok, Start(plan))
       /\ Try(ok, IF plan < Len(Polarities) THEN "checkPlan" ELSE "restoreSpeed")
       /\ Blame(ok, "bias")
       /\ plan' = IF ok /\ plan < Len(Polarities) THEN plan + 1 ELSE plan
       /\ swept' = IF ok THEN swept + 1 ELSE swept
  /\ UNCHANGED <<site, n, origin, cycle, cycleFs, baseline, kept, pulse,
                 tip, scan, speed, props, safe, env, fresh, good, latePulses, lateMoves>>

\* A plausible bug: an early return with `?` instead of a guarded cleanup.
RestoreSpeed_OnlyOnSuccess ==
  /\ pc = "restoreSpeed"
  /\ \E ok \in BOOLEAN :
       IF savedSpeed # "none" /\ ret = "none"
         THEN SpeedSet(ok, savedSpeed) /\ Blame(ok, "speed")
         ELSE UNCHANGED <<speed, lost>>
  /\ IF ret = "none" THEN Goto("withdraw") /\ site' = "final" ELSE Raise(ret) /\ site' = site
  /\ savedSpeed' = "none"
  /\ UNCHANGED <<n, plan, origin, cycle, cycleFs, baseline, savedProps, wasSafe, pulse,
                 tip, scan, bias, props, safe, env, fresh, good, swept, latePulses, lateMoves>>

RestoreSpeed ==
  /\ pc = "restoreSpeed"
  /\ \E ok \in BOOLEAN :
       IF savedSpeed # "none"
         THEN SpeedSet(ok, savedSpeed) /\ Blame(ok, "speed")
         ELSE UNCHANGED <<speed, lost>>
  /\ IF ret = "none" THEN Goto("withdraw") /\ site' = "final" ELSE Raise(ret) /\ site' = site
  /\ savedSpeed' = "none"
  /\ UNCHANGED <<n, plan, origin, cycle, cycleFs, baseline, savedProps, wasSafe, pulse,
                 tip, scan, bias, props, safe, env, fresh, good, swept, latePulses, lateMoves>>

-----------------------------------------------------------------------------
(***************************************************************************)
(* run_routine after the routine.                                          *)
(***************************************************************************)

\* A plausible bug: only a failed run is withdrawn.
CleanupWithdraw_OnError ==
  /\ pc = "cleanup"
  /\ \E ok \in BOOLEAN :
       IF ret \in {"fault", "panic"} THEN WithdrawTip(ok) /\ Blame(ok, "withdraw")
                                     ELSE UNCHANGED <<tip, lost>>
  /\ Goto("teardown")
  /\ UNCHANGED <<site, locals, pulse, scan, bias, speed, props, safe, env,
                 fresh, good, swept, latePulses, lateMoves>>

CleanupWithdraw ==
  /\ pc = "cleanup"
  /\ \E ok \in BOOLEAN : WithdrawTip(ok) /\ Blame(ok, "withdraw")
  /\ Goto("teardown")
  /\ UNCHANGED <<site, locals, pulse, scan, bias, speed, props, safe, env,
                 fresh, good, swept, latePulses, lateMoves>>

\* teardown(), then the match that turns a shutdown request into an outcome.
Teardown ==
  /\ pc = "teardown"
  /\ pc' = "done"
  /\ ret' = IF ret = "shutdownRequested" THEN "stoppedByUser" ELSE ret
  /\ UNCHANGED <<site, locals, pulse, hw, env, history>>

Terminated == pc = "done" /\ UNCHANGED vars

-----------------------------------------------------------------------------
Approach == FirstApproach \/ ArmSafeTip \/ ZHome \/ SecondApproach \/ RestoreSafeTip

Read == ReadFails \/ ReadInitial \/ ReadCycle \/ ReadConfirm \/ ReadFinal

Loop == NextCycle \/ Pulse \/ UpdateStrategy \/ MaxPulse \/ ResetStrategy

Sweep ==
  \/ SaveSpeed \/ SetSweepProps \/ StartScan \/ PollScan \/ StepBias \/ SettleStep
  \/ SweepCleanup \/ RestoreSweepBias \/ RestoreSpeed

Routine ==
  \/ Prepare \/ SetInitialBias \/ SetSetpoint \/ CheckStop
  \/ Withdraw \/ MoveMotor \/ SetBiasWithdrawn \/ Approach \/ Read \/ Loop \/ Sweep
  \/ CleanupWithdraw \/ Teardown

Next == Routine \/ RequestStop \/ Expire \/ Terminated

Spec == Init /\ [][Next]_vars

\* Every instrument call returns: the client has a socket timeout and the
\* waiting calls (withdraw, auto_approach, settle) have one of their own.
\* Nobody has to request a stop, and a time budget need not run out.
FairSpec == Spec /\ WF_vars(Routine)

-----------------------------------------------------------------------------
(***************************************************************************)
(* Properties.                                                             *)
(***************************************************************************)

\* run_routine as its callers see it.
Phase ==
  CASE pc = "prepare"  -> "prepare"
    [] pc = "cleanup"  -> "withdraw"
    [] pc = "teardown" -> "teardown"
    [] pc = "done"     -> "done"
    [] OTHER           -> "running"

Lifecycle ==
  INSTANCE RoutineLifecycle WITH
    phase <- Phase, ret <- IF Phase = "running" THEN "none" ELSE ret

\* The routine implements the life cycle run_routine promises for it: whatever
\* fails wherever, exactly one withdraw and one teardown follow the routine,
\* and a stop is reported only when one was requested.
ImplementsLifecycle == Lifecycle!Spec

Returns == Lifecycle!Endings \cup {"none", "prepareError"}

TypeOK ==
  /\ InstrumentTypeOK
  /\ pc \in Pcs /\ site \in Sites /\ ret \in Returns
  /\ n \in Nat /\ plan \in 1 .. Len(Polarities)
  /\ origin \in {"init", "cycle"}
  /\ cycle \in Nat
  /\ cycleFs \in Readings \cup {NoReading} /\ baseline \in Readings \cup {NoReading}
  /\ savedSpeed \in {"none", "original", "sweep"} /\ savedProps \in {"original", "sweep"}
  /\ wasSafe \in BOOLEAN
  /\ pulse \in PulseStates
  /\ stop \in BOOLEAN /\ expired \in BOOLEAN /\ ownSafe \in BOOLEAN
  /\ lost \subseteq {"bias", "safe", "safeRead", "props", "scan", "speed", "withdraw"}
  /\ fresh \in BOOLEAN
  /\ good \in 0 .. Confirmations /\ swept \in Nat
  /\ latePulses \in 0 .. 2 /\ lateMoves \in 0 .. 2

\* The coarse motor never moves, and a maximum-voltage pulse never fires,
\* unless the tip is known to be withdrawn -- although the withdraw that ends
\* a sweep may have failed silently (runner.rs: "so a max-voltage pulse never
\* fires on an engaged tip if the earlier withdraw silently failed").
TipClear == pc \in {"move", "maxPulse"} => tip = "withdrawn"

\* A scan runs only inside a sweep, however the sweep is left, unless the call
\* that stops it failed.
ScanConfined == scan => pc \in SweepPcs \cup {"sweepCleanup"} \/ "scan" \in lost

\* When the run is over, scan, scan properties and scan speed are as they
\* were, unless a call that sets them reported an error (docs/tip-prep/
\* algorithm.md: "restored no matter how the sweep ends").
SettingsRestored ==
  pc = "done" =>
    /\ scan => "scan" \in lost
    /\ props = "sweep" => "props" \in lost
    /\ speed = "sweep" => "speed" \in lost

\* The tip is never left on the surface by a run that got past prepare(),
\* unless the final withdraw failed (run_routine: "an error mid-routine never
\* leaves the tip engaged on the surface").
WithdrawnAtEnd ==
  pc = "done" /\ ret # "prepareError" => tip = "withdrawn" \/ "withdraw" \in lost

\* Completed is reported only for a tip whose last three readings were in the
\* sharp window, each on a spot the motor had moved to and with no pulse since
\* the first, and, with stability checking on, after every planned sweep.
CompletedIsEarned ==
  ret = "completed" =>
    good = Confirmations /\ (CheckStability => swept = Len(Polarities))

\* The reported outcome is the one whose condition holds, and the cycle limit
\* is never exceeded.
OutcomeHasCause ==
  /\ ret \in {"stoppedByUser", "shutdownRequested"} => stop
  /\ ret = "timedOut" => expired
  /\ ret = "cycleLimit" => Limited /\ cycle = MaxCycles
  /\ Limited => cycle <= MaxCycles

\* After the stop request at most one more pulse is fired and at most one more
\* motor move is begun, wherever the routine was.
BoundedAfterStop == latePulses <= 1 /\ lateMoves <= 1

\* Safe-tip protection ends as the operator had it, unless reading or setting
\* it failed (CalibratedApproach: "Restore safe-tip to previous state").
SafeTipRestoredUnlessUnread ==
  pc = "done" => safe = ownSafe \/ lost \cap {"safe", "safeRead"} # {}

\* docs/tip-prep/algorithm.md: "Scan properties, scan speed, and bias are
\* restored no matter how the sweep ends": the bias a run leaves behind is not
\* one a sweep stepped to, unless a call that sets the bias failed.
SteppedBias == {Polarities[k] * (BiasSteps - i) : k \in 1 .. Len(Polarities), i \in 1 .. BiasSteps - 1}

BiasRestored == pc = "done" /\ "bias" \notin lost => bias \notin SteppedBias

\* No step of a cycle waits for ever: the run always gets back to the head of
\* its loop, where the flag and the budgets are looked at, or ends.
CyclesEnd == []<>(pc \in {"loop", "done"})

\* A stop request, or the end of the time budget, ends the run, with the tip
\* withdrawn and the controller torn down, wherever the routine is.
StopEndsRun == (stop \/ expired) ~> pc = "done"
=============================================================================
