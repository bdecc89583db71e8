CONSTANTS
  NoReading = NoReading
  ClampLo <- MCClampLo
  Readings <- MCReadings
  Polarities <- Negative
  Method = "Stepping"
  VoltageSteps = 2
  CyclesBeforeStep = 1
  Threshold = 0
  SwitchEveryN = 2
  HistoryCap = 2
  SharpLo = 0
  SharpHi = 1
  CheckStability = TRUE
  AllowedChange = 0
  UseScanSpeed = TRUE
  BiasSteps = 2
  MaxPolls = 2
  StatusInterval = 10
  Limited = TRUE
  MaxCycles = 1
  HasMaxDuration = FALSE
  InitialBias = 5
SPECIFICATION Spec
INVARIANT BiasRestored
