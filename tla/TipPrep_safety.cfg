CONSTANTS
  NoReading = NoReading
  ClampLo <- MCClampLo
  Readings <- TwoReadings
  Polarities <- BothPolarities
  Method = "Linear"
  VoltageSteps = 2
  CyclesBeforeStep = 1
  Threshold = 0
  SwitchEveryN = 0
  HistoryCap = 2
  SharpLo = 0
  SharpHi = 1
  CheckStability = TRUE
  AllowedChange = 0
  UseScanSpeed = TRUE
  BiasSteps = 2
  MaxPolls = 2
  StatusInterval = 10
  Limited = TRUE
  MaxCycles = 1
  HasMaxDuration = TRUE
  InitialBias = 5
SPECIFICATION Spec
INVARIANTS
  TypeOK TipClear ScanConfined SettingsRestored WithdrawnAtEnd CompletedIsEarned
  OutcomeHasCause BoundedAfterStop SafeTipRestoredUnlessUnread
PROPERTY ImplementsLifecycle
