CONSTANTS
  NoReading = NoReading
  Method = "Stepping"
  VoltageSteps = 2
  CyclesBeforeStep = 3
  Threshold = 1
  SwitchEveryN = 3
  HistoryCap = 2
  ClampLo <- LinearClampLo
  Readings <- StepReadings
  SharpLo = 0
  SharpHi = 0
SPECIFICATION FairSpec
INVARIANTS TypeOK ResetReachesNextPulse
PROPERTIES StepsUpOnlyAfterStall EveryNthPulseSwitched StallReachesMax
CHECK_DEADLOCK FALSE
