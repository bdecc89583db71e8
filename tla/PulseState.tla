----------------------------- MODULE PulseState -----------------------------
(***************************************************************************)
(* The pulse strategy driven the way the runner drives it                  *)
(* (src/tip_prep/runner.rs, run): fire, measure, feed the measurement      *)
(* back; after a failed stability check fire at the maximum, reset, and    *)
(* then feed back the measurement that had looked sharp.                   *)
(* The instrument is left out: TipPrep has it.                             *)
(***************************************************************************)
EXTENDS PulseStrategy

CONSTANTS SharpLo, SharpHi  \* sharp_tip_bounds

ASSUME SharpAssumption == SharpLo \in Int /\ SharpHi \in Int

VARIABLES
  phase,        \* where the run is: "init", "pulse", "read" or "done"
  pulse,        \* the PulseState of the code
  fired,        \* the last pulse: its level and whether its polarity was switched
  sinceSwitch,  \* history: pulses since the last switched one, saturating at SwitchEveryN
  atLevel,      \* history: updates since the voltage last changed, saturating
  verdict       \* history: what the last update or reset was

vars == <<phase, pulse, fired, sinceSwitch, atLevel, verdict>>

Saturate(n, max) == IF n < max THEN n ELSE max

IsSharp(fs) == SharpLo <= fs /\ fs <= SharpHi

NoPulse == [level |-> 0, switched |-> FALSE]

TypeOK ==
  /\ phase \in {"init", "pulse", "read", "done"}
  /\ pulse \in PulseStates
  /\ fired \in [level : Levels, switched : BOOLEAN]
  /\ sinceSwitch \in 0 .. SwitchEveryN
  /\ atLevel \in 0 .. CyclesBeforeStep
  /\ verdict \in {"none", "improved", "stalled", "reset"}

Init ==
  /\ phase = "init"
  /\ pulse = NewPulseState
  /\ fired = NoPulse
  /\ sinceSwitch = 0
  /\ atLevel = 0
  /\ verdict = "none"

-----------------------------------------------------------------------------
\* Fires at `level`, with the counter already stepped in `p`.
Fire(p, level) ==
  /\ fired' = [level |-> level, switched |-> OppositePolarity(p)]
  /\ sinceSwitch' = IF OppositePolarity(p) THEN 0 ELSE Saturate(sinceSwitch + 1, SwitchEveryN)

\* update_voltage on `p`; the history variables record what came of it.
Feedback(p, fs) ==
  /\ pulse' = UpdateVoltage(p, fs)
  /\ atLevel' = IF pulse'.current_voltage # pulse.current_voltage
                  THEN 0 ELSE Saturate(atLevel + 1, CyclesBeforeStep)

FirePulse ==
  /\ phase = "pulse"
  /\ phase' = "read"
  /\ pulse' = CountPulse(pulse)
  /\ Fire(pulse', pulse.current_voltage)
  /\ UNCHANGED <<atLevel, verdict>>

\* The reading is outside the window, or it was not confirmed.
Measure ==
  /\ phase = "read"
  /\ phase' = "pulse"
  /\ \E fs \in Readings :
       /\ Feedback(pulse, fs)
       /\ verdict' = IF Improved(pulse, PushReading(pulse.freq_shift_history, fs), fs)
                       THEN "improved" ELSE "stalled"
  /\ UNCHANGED <<fired, sinceSwitch>>

\* A plausible bug: the maximum pulse does not count for the polarity switch.
ResetAfterMax_Uncounted == ResetPulse(pulse)

\* The strategy after the maximum pulse: the counter stepped, the rest reset.
ResetAfterMax == ResetPulse(CountPulse(pulse))

\* Sharp and confirmed, but moved by the sweep: maximum pulse, reset, and the
\* sharp-looking reading of this cycle is fed back after the reset.
StabilityFails ==
  /\ phase = "read"
  /\ phase' = "pulse"
  /\ Fire(ResetAfterMax, MaxVoltage)
  /\ \E fs \in {r \in Readings : IsSharp(r)} : Feedback(ResetAfterMax, fs)
  /\ verdict' = "reset"

\* The same after the initial approach, where nothing is fed back.
InitialStabilityFails ==
  /\ phase = "init"
  /\ phase' = "pulse"
  /\ Fire(ResetAfterMax, MaxVoltage)
  /\ pulse' = ResetAfterMax
  /\ atLevel' = 0
  /\ verdict' = "reset"

StartBlunt ==
  /\ phase = "init"
  /\ phase' = "pulse"
  /\ UNCHANGED <<pulse, fired, sinceSwitch, atLevel, verdict>>

Complete ==
  /\ phase \in {"init", "read"}
  /\ phase' = "done"
  /\ UNCHANGED <<pulse, fired, sinceSwitch, atLevel, verdict>>

Next ==
  \/ StartBlunt \/ InitialStabilityFails
  \/ FirePulse \/ Measure \/ StabilityFails
  \/ Complete

Spec == Init /\ [][Next]_vars

\* run() takes its next step unless an instrument call hangs.
FairSpec == Spec /\ WF_vars(Next)

-----------------------------------------------------------------------------
(***************************************************************************)
(* Properties.                                                             *)
(***************************************************************************)

\* The voltage is raised only after the configured number of cycles at the
\* present level (cycles_before_step: "Number of cycles to perform at each
\* voltage level before stepping up"): the stall counter is neither carried
\* over from an earlier level nor from before a reset.
StepsUpOnlyAfterStall ==
  [][pulse'.current_voltage > pulse.current_voltage => atLevel + 1 >= CyclesBeforeStep]_vars

\* Exactly every SwitchEveryN-th pulse has the opposite polarity, the
\* maximum-voltage pulses of failed stability checks counted too
\* (fire_max_pulse_voltage: "Counts as a pulse").
EveryNthPulseSwitched ==
  [][FirePulse \/ StabilityFails \/ InitialStabilityFails
       => (fired'.switched <=> sinceSwitch = SwitchEveryN - 1)]_vars

\* After a failed stability check the next pulse starts again from the minimum
\* voltage (reset: "back to minimum voltage"), whatever reading is fed back
\* between the reset and that pulse.
ResetReachesNextPulse ==
  phase = "pulse" /\ verdict = "reset" => pulse.current_voltage = 0

\* A run whose readings stop improving walks the voltage up to the maximum:
\* neither the history's cap nor the mean it feeds can freeze the ramp.
StallReachesMax ==
  \/ []<>(verdict \in {"improved", "reset"})
  \/ <>(pulse.current_voltage = VoltageSteps \/ phase = "done")
=============================================================================
