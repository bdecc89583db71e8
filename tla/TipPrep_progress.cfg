CONSTANTS
  NoReading = NoReading
  ClampLo <- MCClampLo
  Readings <- TwoReadings
  Polarities <- Negative
  Method = "Fixed"
  VoltageSteps = 2
  CyclesBeforeStep = 1
  Threshold = 0
  SwitchEveryN = 0
  HistoryCap = 2
  SharpLo = 0
  SharpHi = 1
  CheckStability = TRUE
  AllowedChange = 0
  UseScanSpeed = FALSE
  BiasSteps = 1
  MaxPolls = 2
  StatusInterval = 10
  Limited = FALSE
  MaxCycles = 0
  HasMaxDuration = TRUE
  InitialBias = 5
SPECIFICATION FairSpec
PROPERTIES CyclesEnd StopEndsRun
