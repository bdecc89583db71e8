-------------------------- MODULE PulseStateProofs --------------------------
(***************************************************************************)
(* Proofs about PulseState: how the runner's use of the pulse strategy     *)
(* keeps the promises of the configuration, for every PulseMethod that     *)
(* PulseMethod::validate accepts and any readings.                         *)
(***************************************************************************)
EXTENDS PulseState, SequenceTheorems, TLAPS

-----------------------------------------------------------------------------
(***************************************************************************)
(* The strategies: each operation on a PulseState gives a PulseState, so   *)
(* that the voltage never leaves voltage_bounds.                           *)
(***************************************************************************)

\* new(), reset() and the counter step of a pulse give a well-formed state.
LEMMA PulseOperationsType ==
  /\ NewPulseState \in PulseStates
  /\ \A p \in PulseStates : ResetPulse(p) \in PulseStates /\ CountPulse(p) \in PulseStates
<1>1. NewPulseState \in PulseStates
  BY PulseAssumption DEF NewPulseState, PulseStates, Levels
<1>2. ASSUME NEW p \in PulseStates
      PROVE  ResetPulse(p) \in PulseStates
  <2>1. p.pulse_count \in Nat
    BY DEF PulseStates
  <2> QED  BY <1>1, <2>1 DEF ResetPulse, PulseStates
<1>3. ASSUME NEW p \in PulseStates
      PROVE  CountPulse(p) \in PulseStates
  <2>1. CASE SwitchEveryN = 0
    BY <2>1 DEF CountPulse, PulseStates
  <2>2. CASE SwitchEveryN # 0
    <3>1. (p.pulse_count + 1) % SwitchEveryN \in Nat
      BY <2>2, PulseAssumption DEF PulseStates
    <3> QED  BY <2>2, <3>1 DEF CountPulse, PulseStates
  <2> QED  BY <2>1, <2>2
<1> QED  BY <1>1, <1>2, <1>3

\* update_voltage under the stepping strategy: the counter of the stall is either
\* counted on and below cycles_before_step, or 0; it is 0 after any change of the
\* voltage; the voltage rises only when the stall has lasted cycles_before_step
\* cycles; and the first reading after a reset counts as an improvement.
LEMMA UpdateSteppingEffect ==
  ASSUME NEW p \in PulseStates, NEW fs \in Readings,
         NEW q, q = UpdateStepping(p, fs)
  PROVE  /\ q \in PulseStates
         /\ q.pulse_count = p.pulse_count
         /\ q.cycles_without_change = 0
            \/ /\ q.cycles_without_change = p.cycles_without_change + 1
               /\ q.cycles_without_change < CyclesBeforeStep
               /\ q.current_voltage = p.current_voltage
         /\ q.current_voltage > p.current_voltage
              => p.cycles_without_change + 1 >= CyclesBeforeStep
         /\ p.last_freq_shift = NoReading /\ p.cycles_without_change = 0 /\ CyclesBeforeStep > 0
              => q.current_voltage = 0 /\ q.cycles_without_change = 0
<1> DEFINE h     == PushReading(p.freq_shift_history, fs)
           stall == Stall(p, h, fs)
           level == IF stall = 0 THEN 0 ELSE p.current_voltage
<1>1. h \in Seq(Readings)
  <2>1. p.freq_shift_history \in Seq(Readings) /\ <<fs>> \in Seq(Readings)
    BY DEF PulseStates
  <2>2. CASE Len(p.freq_shift_history) < HistoryCap
    BY <2>1, <2>2, ConcatProperties DEF PushReading
  <2>3. CASE ~(Len(p.freq_shift_history) < HistoryCap)
    <3>1. SubSeq(p.freq_shift_history, 1, HistoryCap - 1) \in Seq(Readings)
      BY <2>1, <2>3, PulseAssumption, SubSeqProperties, LenProperties, ElementOfSeq
    <3> QED  BY <2>1, <2>3, <3>1, ConcatProperties DEF PushReading
  <2> QED  BY <2>2, <2>3
<1>2. stall = 0 \/ stall = p.cycles_without_change + 1
  BY DEF Stall
<1>3. p.last_freq_shift = NoReading /\ p.cycles_without_change = 0 => stall = 0
  BY DEF Stall, Improved, HasReference
<1>4. q = [p EXCEPT
             !.freq_shift_history    = h,
             !.last_freq_shift       = fs,
             !.cycles_without_change = IF StepDue(stall) THEN 0 ELSE stall,
             !.current_voltage       = IF StepDue(stall) THEN NextLevel(level) ELSE level]
  BY DEF UpdateStepping
<1> HIDE DEF h, stall
<1>5. /\ p.cycles_without_change \in Nat /\ p.current_voltage \in 0 .. VoltageSteps
      /\ VoltageSteps \in Nat \ {0} /\ CyclesBeforeStep \in Nat
      /\ p.pulse_count \in Nat
  BY PulseAssumption DEF PulseStates, Levels
<1>6. stall \in Nat /\ level \in 0 .. VoltageSteps /\ level <= p.current_voltage
  BY <1>2, <1>5
<1>7. NextLevel(level) \in 0 .. VoltageSteps
  <2> HIDE DEF level
  <2> QED  BY <1>5, <1>6 DEF NextLevel
<1>8. /\ q.pulse_count = p.pulse_count
      /\ q.cycles_without_change = IF stall >= CyclesBeforeStep THEN 0 ELSE stall
      /\ q.current_voltage = IF stall >= CyclesBeforeStep THEN NextLevel(level) ELSE level
  BY <1>4 DEF PulseStates, StepDue
<1>9. q \in PulseStates
  <2>1. (IF StepDue(stall) THEN 0 ELSE stall) \in Nat
    BY <1>6
  <2>2. (IF StepDue(stall) THEN NextLevel(level) ELSE level) \in Levels
    BY <1>6, <1>7 DEF Levels
  <2> QED  BY <1>1, <1>4, <2>1, <2>2 DEF PulseStates
<1>10. CASE stall >= CyclesBeforeStep
  BY <1>2, <1>3, <1>5, <1>6, <1>8, <1>9, <1>10
<1>11. CASE ~(stall >= CyclesBeforeStep)
  BY <1>2, <1>3, <1>5, <1>6, <1>8, <1>9, <1>11
<1> QED  BY <1>10, <1>11

\* update_voltage, whichever strategy is configured, keeps the next pulse's
\* voltage within voltage_bounds and the state well formed.
THEOREM UpdateVoltageType ==
  ASSUME NEW p \in PulseStates, NEW fs \in Readings
  PROVE  UpdateVoltage(p, fs) \in PulseStates /\ UpdateVoltage(p, fs).pulse_count = p.pulse_count
<1>1. CASE Method = "Fixed"
  BY <1>1 DEF UpdateVoltage
<1>2. CASE Method = "Stepping"
  BY <1>2, UpdateSteppingEffect DEF UpdateVoltage
<1>3. CASE Method = "Linear"
  <2>1. (IF fs < ClampLo \/ fs > ClampHi THEN VoltageSteps ELSE fs - ClampLo) \in Levels
    BY PulseAssumption DEF Levels, ClampHi
  <2> QED  BY <1>3, <2>1 DEF UpdateVoltage, UpdateLinear, PulseStates
<1> QED  BY <1>1, <1>2, <1>3, PulseAssumption

-----------------------------------------------------------------------------
(***************************************************************************)
(* The parts of the inductive invariant, and what a step does to them.     *)
(***************************************************************************)

\* The stall counter never runs ahead of the updates since the voltage last changed.
StallAtLevel ==
  /\ pulse.cycles_without_change <= atLevel
  /\ Method # "Stepping" => pulse.cycles_without_change = 0

\* The pulse counter, modulo SwitchEveryN, is the number of pulses since the last
\* one with the opposite polarity.
CountedSinceSwitch ==
  SwitchEveryN > 0 => pulse.pulse_count = sinceSwitch /\ sinceSwitch < SwitchEveryN

\* Under "Linear" the reading that is fed back sets the voltage, and with
\* cycles_before_step = 0 every update is a step up: only otherwise does a reset last.
ResetLasts == Method # "Linear" /\ CyclesBeforeStep > 0 => ResetReachesNextPulse

\* Nothing is fed back or reset before the initial approach is over.
NothingYet == phase = "init" => verdict = "none"

IInv == TypeOK /\ StallAtLevel /\ CountedSinceSwitch /\ ResetLasts /\ NothingYet

\* What update_voltage does to the state it is given, under each strategy.
LEMMA UpdateVoltageEffect ==
  ASSUME NEW p \in PulseStates, NEW fs \in Readings, Method # "Stepping" => p.cycles_without_change = 0,
         NEW q, q = UpdateVoltage(p, fs)
  PROVE  /\ q.cycles_without_change \in Nat
         /\ Method # "Stepping" => q.cycles_without_change = 0
         /\ q.cycles_without_change = 0
            \/ /\ q.cycles_without_change = p.cycles_without_change + 1
               /\ q.cycles_without_change < CyclesBeforeStep
               /\ q.current_voltage = p.current_voltage
         /\ Method # "Linear" /\ q.current_voltage > p.current_voltage
              => p.cycles_without_change + 1 >= CyclesBeforeStep
         /\ Method # "Linear" /\ CyclesBeforeStep > 0 /\ p.current_voltage = 0
            /\ p.last_freq_shift = NoReading /\ p.cycles_without_change = 0
              => q.current_voltage = 0 /\ q.cycles_without_change = 0
<1>1. p.current_voltage \in Int /\ p.cycles_without_change \in Nat
  BY PulseAssumption DEF PulseStates, Levels
<1>2. CASE Method = "Fixed"
  BY <1>1, <1>2 DEF UpdateVoltage
<1>3. CASE Method = "Stepping"
  <2>1. q = UpdateStepping(p, fs)
    BY <1>3 DEF UpdateVoltage
  <2>2. q.cycles_without_change \in Nat
    BY <2>1, UpdateSteppingEffect DEF PulseStates
  <2> QED  BY <1>3, <2>1, <2>2, UpdateSteppingEffect
<1>4. CASE Method = "Linear"
  <2>1. q.cycles_without_change = p.cycles_without_change
    BY <1>4 DEF UpdateVoltage, UpdateLinear, PulseStates
  <2> QED  BY <1>4, <2>1
<1> QED  BY <1>2, <1>3, <1>4, PulseAssumption

\* The strategy after an ordinary pulse and after the maximum pulse of a failed
\* stability check: both count, and only the latter forgets the readings.
LEMMA PulseSteps ==
  ASSUME pulse \in PulseStates
  PROVE  /\ ResetAfterMax \in PulseStates /\ CountPulse(pulse) \in PulseStates
         /\ ResetAfterMax.pulse_count = CountPulse(pulse).pulse_count
         /\ ResetAfterMax.cycles_without_change = 0 /\ ResetAfterMax.current_voltage = 0
         /\ ResetAfterMax.last_freq_shift = NoReading
         /\ CountPulse(pulse).cycles_without_change = pulse.cycles_without_change
         /\ CountPulse(pulse).current_voltage = pulse.current_voltage
         /\ MaxVoltage \in Levels
<1>1. CountPulse(pulse) \in PulseStates /\ ResetAfterMax \in PulseStates
  BY PulseOperationsType DEF ResetAfterMax
<1>2. MaxVoltage \in Levels
  BY PulseAssumption DEF MaxVoltage, Levels
<1>3. /\ ResetAfterMax.pulse_count = CountPulse(pulse).pulse_count
      /\ ResetAfterMax.cycles_without_change = 0 /\ ResetAfterMax.current_voltage = 0
      /\ ResetAfterMax.last_freq_shift = NoReading
  BY DEF ResetAfterMax, ResetPulse, NewPulseState
<1>4. /\ CountPulse(pulse).cycles_without_change = pulse.cycles_without_change
      /\ CountPulse(pulse).current_voltage = pulse.current_voltage
  BY DEF CountPulse, PulseStates
<1> QED  BY <1>1, <1>2, <1>3, <1>4

\* A pulse fired in state r, with the counter of `pulse` stepped, is switched exactly
\* when SwitchEveryN - 1 pulses came since the last switched one.
LEMMA FireCounts ==
  ASSUME IInv, NEW r \in PulseStates, NEW level \in Levels,
         r.pulse_count = CountPulse(pulse).pulse_count, Fire(r, level)
  PROVE  /\ fired' \in [level : Levels, switched : BOOLEAN]
         /\ sinceSwitch' \in 0 .. SwitchEveryN
         /\ SwitchEveryN > 0 => r.pulse_count = sinceSwitch' /\ sinceSwitch' < SwitchEveryN
         /\ fired'.switched <=> sinceSwitch = SwitchEveryN - 1
<1>1. /\ sinceSwitch \in 0 .. SwitchEveryN /\ SwitchEveryN \in Nat
      /\ pulse.pulse_count \in Nat /\ pulse \in PulseStates
  BY PulseAssumption DEF IInv, TypeOK, PulseStates
<1>2. /\ fired' = [level |-> level, switched |-> OppositePolarity(r)]
      /\ sinceSwitch' = IF OppositePolarity(r) THEN 0 ELSE Saturate(sinceSwitch + 1, SwitchEveryN)
  BY DEF Fire
<1>3. OppositePolarity(r) \in BOOLEAN
  BY <1>1 DEF OppositePolarity
<1>4. fired' \in [level : Levels, switched : BOOLEAN] /\ fired'.switched = OppositePolarity(r)
  BY <1>2, <1>3
<1>5. CASE SwitchEveryN = 0
  <2>1. ~OppositePolarity(r) /\ sinceSwitch = 0 /\ sinceSwitch' = 0
    BY <1>1, <1>2, <1>5 DEF OppositePolarity, Saturate
  <2> QED  BY <1>4, <1>5, <2>1
<1>6. CASE SwitchEveryN > 0
  <2>1. pulse.pulse_count = sinceSwitch /\ sinceSwitch < SwitchEveryN
    BY <1>6 DEF IInv, CountedSinceSwitch
  <2>2. r.pulse_count = (sinceSwitch + 1) % SwitchEveryN
    BY <1>1, <1>6, <2>1 DEF CountPulse, PulseStates
  <2>3. CASE sinceSwitch = SwitchEveryN - 1
    <3>1. r.pulse_count = 0
      BY <1>1, <1>6, <2>2, <2>3
    <3>2. OppositePolarity(r)
      BY <1>6, <3>1 DEF OppositePolarity
    <3>3. sinceSwitch' = 0 /\ fired'.switched
      BY <1>2, <1>4, <3>2
    <3> QED  BY <1>1, <1>4, <1>6, <2>3, <3>1, <3>3
  <2>4. CASE sinceSwitch # SwitchEveryN - 1
    <3>1. sinceSwitch + 1 \in 1 .. SwitchEveryN - 1
      BY <1>1, <2>1, <2>4
    <3>2. r.pulse_count = sinceSwitch + 1
      BY <1>1, <1>6, <2>2, <3>1
    <3>3. ~OppositePolarity(r) /\ sinceSwitch' = sinceSwitch + 1
      BY <1>1, <1>2, <3>1, <3>2 DEF OppositePolarity, Saturate
    <3> QED  BY <1>1, <1>4, <2>4, <3>1, <3>2, <3>3
  <2> QED  BY <2>3, <2>4
<1> QED  BY <1>1, <1>5, <1>6

\* TypeOK: the voltage never leaves voltage_bounds, and every component of the
\* strategy's state keeps its type.  The state and the history of the pulses fit
\* together at every step.
THEOREM TypeCorrect == Spec => [](TypeOK /\ IInv)
<1>1. Init => IInv
  <2> SUFFICES ASSUME Init PROVE IInv
    OBVIOUS
  <2>1. pulse \in PulseStates /\ 0 \in Levels /\ 0 \in 0 .. SwitchEveryN /\ 0 \in 0 .. CyclesBeforeStep
    BY PulseOperationsType, PulseAssumption DEF Init, Levels
  <2>2. TypeOK
    BY <2>1 DEF Init, NoPulse, TypeOK
  <2>3. pulse.cycles_without_change = 0 /\ pulse.pulse_count = 0 /\ pulse.current_voltage = 0
    BY DEF Init, NewPulseState
  <2> QED  BY <2>2, <2>3, PulseAssumption
           DEF Init, IInv, StallAtLevel, CountedSinceSwitch, ResetLasts, ResetReachesNextPulse, NothingYet
<1>2. IInv /\ [Next]_vars => IInv'
  <2> SUFFICES ASSUME IInv, [Next]_vars PROVE IInv'
    OBVIOUS
  <2>1. /\ pulse \in PulseStates /\ atLevel \in 0 .. CyclesBeforeStep /\ CyclesBeforeStep \in Nat
        /\ sinceSwitch \in 0 .. SwitchEveryN /\ fired \in [level : Levels, switched : BOOLEAN]
        /\ pulse.cycles_without_change \in Nat /\ pulse.cycles_without_change <= atLevel
        /\ pulse.current_voltage \in Levels
        /\ Method # "Stepping" => pulse.cycles_without_change = 0
    BY PulseAssumption DEF IInv, TypeOK, StallAtLevel, PulseStates
  <2>2. ASSUME UNCHANGED <<pulse, fired, sinceSwitch, atLevel, verdict>>,
               phase' \in {phase, "done"} \/ (phase' = "pulse" /\ phase = "init")
        PROVE  IInv'
    <3>1. TypeOK'
      BY <2>2 DEF IInv, TypeOK
    <3>2. ResetLasts'
      BY <2>2 DEF IInv, ResetLasts, ResetReachesNextPulse, NothingYet
    <3> QED  BY <2>2, <3>1, <3>2 DEF IInv, StallAtLevel, CountedSinceSwitch, NothingYet
  <2>3. CASE StartBlunt
    BY <2>2, <2>3 DEF StartBlunt
  <2>4. CASE Complete
    BY <2>2, <2>4 DEF Complete
  <2>5. CASE UNCHANGED vars
    BY <2>2, <2>5 DEF vars
  <2>6. /\ ResetAfterMax \in PulseStates /\ CountPulse(pulse) \in PulseStates
        /\ ResetAfterMax.pulse_count = CountPulse(pulse).pulse_count
        /\ ResetAfterMax.cycles_without_change = 0 /\ ResetAfterMax.current_voltage = 0
        /\ ResetAfterMax.last_freq_shift = NoReading
        /\ CountPulse(pulse).cycles_without_change = pulse.cycles_without_change
        /\ CountPulse(pulse).current_voltage = pulse.current_voltage
        /\ MaxVoltage \in Levels
    BY <2>1, PulseSteps
  <2>7. CASE FirePulse
    <3>1. /\ phase' = "read" /\ pulse' = CountPulse(pulse) /\ Fire(CountPulse(pulse), pulse.current_voltage)
          /\ UNCHANGED <<atLevel, verdict>>
      BY <2>7 DEF FirePulse
    <3>2. /\ fired' \in [level : Levels, switched : BOOLEAN] /\ sinceSwitch' \in 0 .. SwitchEveryN
          /\ CountedSinceSwitch'
      BY <2>1, <2>6, <3>1, FireCounts DEF CountedSinceSwitch
    <3>3. TypeOK'
      BY <2>6, <3>1, <3>2 DEF IInv, TypeOK
    <3> QED  BY <2>1, <2>6, <3>1, <3>2, <3>3 DEF IInv, StallAtLevel, ResetLasts, ResetReachesNextPulse,
                NothingYet
  <2>8. CASE Measure
    <3>1. PICK fs \in Readings :
            /\ Feedback(pulse, fs)
            /\ verdict' \in {"improved", "stalled"}
      BY <2>8 DEF Measure
    <3>2. /\ phase' = "pulse" /\ UNCHANGED <<fired, sinceSwitch>>
          /\ pulse' = UpdateVoltage(pulse, fs)
          /\ atLevel' = IF pulse'.current_voltage # pulse.current_voltage
                          THEN 0 ELSE Saturate(atLevel + 1, CyclesBeforeStep)
      BY <2>8, <3>1 DEF Measure, Feedback
    <3>3. pulse' \in PulseStates /\ pulse'.pulse_count = pulse.pulse_count
      BY <2>1, <3>2, UpdateVoltageType
    <3>4. /\ pulse'.cycles_without_change \in Nat
          /\ Method # "Stepping" => pulse'.cycles_without_change = 0
          /\ pulse'.cycles_without_change = 0
             \/ /\ pulse'.cycles_without_change = pulse.cycles_without_change + 1
                /\ pulse'.cycles_without_change < CyclesBeforeStep
                /\ pulse'.current_voltage = pulse.current_voltage
      BY <2>1, <3>2, UpdateVoltageEffect
    <3>5. atLevel' \in 0 .. CyclesBeforeStep
      BY <2>1, <3>2 DEF Saturate
    <3>6. StallAtLevel'
      <4>1. pulse'.cycles_without_change <= atLevel'
        BY <2>1, <3>2, <3>4, <3>5 DEF Saturate
      <4> QED  BY <3>4, <4>1 DEF StallAtLevel
    <3>7. TypeOK'
      BY <2>1, <3>1, <3>2, <3>3, <3>5 DEF IInv, TypeOK
    <3> QED  BY <3>1, <3>2, <3>3, <3>6, <3>7
             DEF IInv, CountedSinceSwitch, ResetLasts, ResetReachesNextPulse, NothingYet
  <2>9. CASE StabilityFails
    <3>1. PICK fs \in Readings : Feedback(ResetAfterMax, fs)
      BY <2>9 DEF StabilityFails
    <3>2. /\ phase' = "pulse" /\ verdict' = "reset" /\ Fire(ResetAfterMax, MaxVoltage)
          /\ pulse' = UpdateVoltage(ResetAfterMax, fs)
          /\ atLevel' = IF pulse'.current_voltage # pulse.current_voltage
                          THEN 0 ELSE Saturate(atLevel + 1, CyclesBeforeStep)
      BY <2>9, <3>1 DEF StabilityFails, Feedback
    <3>3. pulse' \in PulseStates /\ pulse'.pulse_count = CountPulse(pulse).pulse_count
      BY <2>6, <3>2, UpdateVoltageType
    <3>4. /\ pulse'.cycles_without_change \in Nat
          /\ Method # "Stepping" => pulse'.cycles_without_change = 0
          /\ pulse'.cycles_without_change = 0 \/ pulse'.cycles_without_change < CyclesBeforeStep
          /\ Method # "Linear" /\ CyclesBeforeStep > 0
               => pulse'.current_voltage = 0 /\ pulse'.cycles_without_change = 0
      BY <2>6, <3>2, UpdateVoltageEffect
    <3>5. atLevel' \in 0 .. CyclesBeforeStep
      BY <2>1, <3>2 DEF Saturate
    <3>6. StallAtLevel'
      <4>1. pulse'.cycles_without_change = 0
        <5>1. CASE CyclesBeforeStep > 0
          BY <3>4, <5>1
        <5>2. CASE CyclesBeforeStep = 0
          BY <3>4, <5>2
        <5> QED  BY <2>1, <5>1, <5>2
      <4> QED  BY <3>5, <4>1 DEF StallAtLevel
    <3>7. /\ fired' \in [level : Levels, switched : BOOLEAN] /\ sinceSwitch' \in 0 .. SwitchEveryN
          /\ CountedSinceSwitch'
      BY <2>1, <2>6, <3>2, <3>3, FireCounts DEF CountedSinceSwitch
    <3>8. TypeOK'
      BY <3>2, <3>3, <3>5, <3>7 DEF TypeOK
    <3> QED  BY <3>2, <3>4, <3>6, <3>7, <3>8
             DEF IInv, ResetLasts, ResetReachesNextPulse, NothingYet
  <2>10. CASE InitialStabilityFails
    <3>1. /\ phase' = "pulse" /\ verdict' = "reset" /\ Fire(ResetAfterMax, MaxVoltage)
          /\ pulse' = ResetAfterMax /\ atLevel' = 0
      BY <2>10 DEF InitialStabilityFails
    <3>2. /\ fired' \in [level : Levels, switched : BOOLEAN] /\ sinceSwitch' \in 0 .. SwitchEveryN
          /\ CountedSinceSwitch'
      BY <2>1, <2>6, <3>1, FireCounts DEF CountedSinceSwitch
    <3>3. TypeOK'
      BY <2>1, <2>6, <3>1, <3>2 DEF TypeOK
    <3> QED  BY <2>6, <3>1, <3>2, <3>3
             DEF IInv, StallAtLevel, ResetLasts, ResetReachesNextPulse, NothingYet
  <2> QED  BY <2>3, <2>4, <2>5, <2>7, <2>8, <2>9, <2>10 DEF Next
<1>3. IInv => TypeOK
  BY DEF IInv
<1> QED  BY <1>1, <1>2, <1>3, PTL DEF Spec

\* EveryNthPulseSwitched, for every switch_every_n_pulses, 0 and 1 included.
THEOREM EveryNthPulseSwitchedHolds == Spec => EveryNthPulseSwitched
<1> DEFINE Switched == FirePulse \/ StabilityFails \/ InitialStabilityFails
                         => (fired'.switched <=> sinceSwitch = SwitchEveryN - 1)
<1>1. IInv /\ [Next]_vars => [Switched]_vars
  <2> SUFFICES ASSUME IInv, FirePulse \/ StabilityFails \/ InitialStabilityFails
               PROVE  fired'.switched <=> sinceSwitch = SwitchEveryN - 1
    OBVIOUS
  <2>1. /\ pulse \in PulseStates /\ pulse.current_voltage \in Levels
        /\ ResetAfterMax \in PulseStates /\ CountPulse(pulse) \in PulseStates
        /\ ResetAfterMax.pulse_count = CountPulse(pulse).pulse_count
        /\ MaxVoltage \in Levels
    <3>1. pulse \in PulseStates /\ pulse.current_voltage \in Levels
      BY DEF IInv, TypeOK, PulseStates
    <3> QED  BY <3>1, PulseSteps
  <2>2. CASE FirePulse
    <3>1. Fire(CountPulse(pulse), pulse.current_voltage)
      BY <2>2 DEF FirePulse
    <3> QED  BY <2>1, <3>1, FireCounts
  <2>3. CASE StabilityFails \/ InitialStabilityFails
    <3>1. Fire(ResetAfterMax, MaxVoltage)
      BY <2>3 DEF StabilityFails, InitialStabilityFails
    <3> QED  BY <2>1, <3>1, FireCounts
  <2> QED  BY <2>2, <2>3
<1> QED  BY <1>1, TypeCorrect, PTL DEF Spec, EveryNthPulseSwitched

\* StepsUpOnlyAfterStall, unless the voltage is a function of the last reading
\* ("Linear").
THEOREM StepsUpOnlyAfterStallHolds == Method # "Linear" => (Spec => StepsUpOnlyAfterStall)
<1> SUFFICES ASSUME Method # "Linear" PROVE Spec => StepsUpOnlyAfterStall
  OBVIOUS
<1> DEFINE Stalled == pulse'.current_voltage > pulse.current_voltage => atLevel + 1 >= CyclesBeforeStep
<1>1. IInv /\ [Next]_vars => [Stalled]_vars
  <2> SUFFICES ASSUME IInv, Next, pulse'.current_voltage > pulse.current_voltage
               PROVE  atLevel + 1 >= CyclesBeforeStep
    OBVIOUS
  <2>1. /\ pulse \in PulseStates /\ atLevel \in Nat /\ CyclesBeforeStep \in Nat
        /\ pulse.current_voltage \in Nat /\ pulse.cycles_without_change \in Nat
        /\ pulse.cycles_without_change <= atLevel
        /\ Method # "Stepping" => pulse.cycles_without_change = 0
    BY PulseAssumption DEF IInv, TypeOK, StallAtLevel, PulseStates, Levels
  <2>2. CASE Measure
    <3>1. PICK fs \in Readings : pulse' = UpdateVoltage(pulse, fs)
      BY <2>2 DEF Measure, Feedback
    <3>2. pulse.cycles_without_change + 1 >= CyclesBeforeStep
      BY <2>1, <3>1, UpdateVoltageEffect
    <3> QED  BY <2>1, <3>2
  <2>3. CASE StabilityFails
    <3>1. PICK fs \in Readings : pulse' = UpdateVoltage(ResetAfterMax, fs)
      BY <2>3 DEF StabilityFails, Feedback
    <3>2. CyclesBeforeStep > 0 => pulse'.current_voltage = 0
      BY <2>1, <3>1, PulseSteps, UpdateVoltageEffect
    <3> QED  BY <2>1, <3>2
  <2>4. CASE InitialStabilityFails
    <3>1. pulse'.current_voltage = 0
      BY <2>1, <2>4, PulseSteps DEF InitialStabilityFails
    <3> QED  BY <2>1, <3>1
  <2>5. CASE FirePulse
    <3>1. pulse'.current_voltage = pulse.current_voltage
      BY <2>1, <2>5, PulseSteps DEF FirePulse
    <3> QED  BY <2>1, <3>1
  <2>6. CASE StartBlunt \/ Complete
    BY <2>1, <2>6 DEF StartBlunt, Complete
  <2> QED  BY <2>2, <2>3, <2>4, <2>5, <2>6 DEF Next
<1> QED  BY <1>1, TypeCorrect, PTL DEF Spec, StepsUpOnlyAfterStall

\* ResetReachesNextPulse, where the reading that is fed back after the reset cannot
\* raise the voltage at once.
THEOREM ResetReachesNextPulseHolds ==
  Method # "Linear" /\ CyclesBeforeStep > 0 => (Spec => []ResetReachesNextPulse)
<1> SUFFICES ASSUME Method # "Linear", CyclesBeforeStep > 0 PROVE Spec => []ResetReachesNextPulse
  OBVIOUS
<1>1. IInv => ResetReachesNextPulse
  BY DEF IInv, ResetLasts
<1> QED  BY <1>1, TypeCorrect, PTL
=============================================================================
