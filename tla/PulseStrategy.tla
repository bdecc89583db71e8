--------------------------- MODULE PulseStrategy ---------------------------
(***************************************************************************)
(* The pulse-voltage strategies of tip preparation                         *)
(* (src/tip_prep/pulse_state.rs, PulseMethod in src/controller_types.rs):  *)
(* what voltage the next conditioning pulse has, as a function of the      *)
(* frequency shifts measured so far.  Operators only; the modules PulseState and   *)
(* TipPrep drive them.                                                     *)
(*                                                                         *)
(* Units.  A voltage is a level: 0 is voltage_bounds.0 and VoltageSteps is *)
(* voltage_bounds.1.  Under "Stepping" a level is one step_size, so every  *)
(* voltage the code can reach is a level.  Under "Linear" the frequency    *)
(* shift is counted in units of which linear_clamp spans VoltageSteps, so  *)
(* that the interpolation line is level = freq_shift - ClampLo.  A         *)
(* frequency shift is an integer in any unit otherwise.                    *)
(***************************************************************************)
EXTENDS Integers, Sequences

CONSTANTS
  Method,            \* which PulseMethod is configured
  VoltageSteps,      \* Stepping: voltage_steps; Linear: the clamp's width
  CyclesBeforeStep,  \* Stepping: cycles_before_step
  Threshold,         \* Stepping: threshold_value
  ClampLo,           \* Linear: linear_clamp.0
  SwitchEveryN,      \* random_polarity_switch, 0 when absent or disabled
  HistoryCap,        \* the cap on freq_shift_history, 100 in the code
  Readings,          \* the frequency shifts a measurement can return
  NoReading          \* last_freq_shift before the first reading

\* PulseMethod::validate rejects zero voltage_steps and an empty or reversed
\* clamp; cycles_before_step, threshold_value and switch_every_n_pulses are
\* accepted as they come.
ASSUME PulseAssumption ==
  /\ Method \in {"Fixed", "Stepping", "Linear"}
  /\ VoltageSteps \in Nat \ {0}
  /\ CyclesBeforeStep \in Nat
  /\ Threshold \in Int
  /\ ClampLo \in Int
  /\ SwitchEveryN \in Nat
  /\ HistoryCap \in Nat \ {0}
  /\ Readings \subseteq Int
  /\ NoReading \notin Int

ClampHi == ClampLo + VoltageSteps

Levels == 0 .. VoltageSteps

(***************************************************************************)
(* The state of a strategy.  pulse_count is kept modulo SwitchEveryN: the  *)
(* code only ever asks whether it is a multiple of it.                     *)
(***************************************************************************)
PulseStates ==
  [ current_voltage      : Levels,
    cycles_without_change : Nat,
    last_freq_shift      : Readings \cup {NoReading},
    freq_shift_history   : Seq(Readings),
    pulse_count          : Nat ]

NewPulseState ==
  [ current_voltage       |-> 0,
    cycles_without_change |-> 0,
    last_freq_shift       |-> NoReading,
    freq_shift_history    |-> << >>,
    pulse_count           |-> 0 ]

\* PulseMethod::max_voltage: a fixed pulse has one voltage only.
MaxVoltage == IF Method = "Fixed" THEN 0 ELSE VoltageSteps

\* A plausible bug: only the voltage is reset.
ResetPulse_VoltageOnly(p) == [p EXCEPT !.current_voltage = 0]

\* `reset` forgets the voltage and the readings; the pulse counter goes on.
ResetPulse(p) == [NewPulseState EXCEPT !.pulse_count = p.pulse_count]

\* The counter step that both signed_voltage and fire_max_pulse_voltage begin with.
CountPulse(p) ==
  [p EXCEPT !.pulse_count =
     IF SwitchEveryN = 0 THEN 0 ELSE (@ + 1) % SwitchEveryN]

\* Asked after the counter step, so pulse_count > 0 holds in the code.
OppositePolarity(p) == SwitchEveryN > 0 /\ p.pulse_count = 0

-----------------------------------------------------------------------------
(***************************************************************************)
(* update_voltage.                                                         *)
(***************************************************************************)

\* push_front, then pop_back beyond the cap.
PushReading(h, fs) ==
  IF Len(h) < HistoryCap
    THEN <<fs>> \o h
    ELSE <<fs>> \o SubSeq(h, 1, HistoryCap - 1)

SumOf(h, m, n) ==
  LET sum[k \in 0 .. n] == IF k = 0 THEN 0 ELSE sum[k - 1] + h[m + k]
  IN  sum[n]

\* n * (fs - reference), with n the number of readings the reference is the mean of.
ScaledChange(p, h, fs) ==
  LET n == p.cycles_without_change
  IN  IF n > 0 /\ Len(h) > n
        THEN n * fs - SumOf(h, 1, n)
        ELSE fs - p.last_freq_shift

ChangeScale(p, h) ==
  LET n == p.cycles_without_change IN IF n > 0 /\ Len(h) > n THEN n ELSE 1

HasReference(p, h) ==
  \/ p.cycles_without_change > 0 /\ Len(h) > p.cycles_without_change
  \/ p.last_freq_shift # NoReading

\* A significant rise of the frequency shift, or no reading to compare with.
Improved(p, h, fs) ==
  HasReference(p, h) =>
    ScaledChange(p, h, fs) >= 0 /\ ScaledChange(p, h, fs) > Threshold * ChangeScale(p, h)

\* A plausible bug: counting stalled cycles on the capped history.
Stall_FromHistory(p, h, fs) ==
  CASE Improved(p, h, fs)                  -> 0
    [] p.cycles_without_change + 1 < Len(h) -> p.cycles_without_change + 1
    [] OTHER                               -> Len(h) - 1

\* cycles_without_change counted on; 0 exactly when the reading improved.
Stall(p, h, fs) == IF Improved(p, h, fs) THEN 0 ELSE p.cycles_without_change + 1

\* A plausible bug: off by one.
StepDue_Early(stall) == stall + 1 >= CyclesBeforeStep

StepDue(stall) == stall >= CyclesBeforeStep

\* A plausible bug: no min(voltage_bounds.1).
NextLevel_Uncapped(v) == v + 1

NextLevel(v) == IF v < VoltageSteps THEN v + 1 ELSE v

UpdateStepping(p, fs) ==
  LET h     == PushReading(p.freq_shift_history, fs)
      stall == Stall(p, h, fs)
      level == IF stall = 0 THEN 0 ELSE p.current_voltage
  IN  [p EXCEPT
        !.freq_shift_history    = h,
        !.last_freq_shift       = fs,
        !.cycles_without_change = IF StepDue(stall) THEN 0 ELSE stall,
        !.current_voltage       = IF StepDue(stall) THEN NextLevel(level) ELSE level]

\* A plausible bug: interpolation beyond the clamp.
UpdateLinear_Unclamped(p, fs) ==
  [p EXCEPT !.last_freq_shift = fs, !.current_voltage = fs - ClampLo]

UpdateLinear(p, fs) ==
  [p EXCEPT
    !.last_freq_shift = fs,
    !.current_voltage = IF fs < ClampLo \/ fs > ClampHi THEN VoltageSteps ELSE fs - ClampLo]

UpdateVoltage(p, fs) ==
  CASE Method = "Fixed"    -> p
    [] Method = "Stepping" -> UpdateStepping(p, fs)
    [] Method = "Linear"   -> UpdateLinear(p, fs)
=============================================================================
