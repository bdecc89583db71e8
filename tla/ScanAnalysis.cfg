CONSTANTS
  NaN = NaN
  None = None
  NoLine = NoLine
  Coarse <- MCCoarse
  Fine <- MCFine
  Frames <- MCFrames
  Blank <- MCBlank
  Detectors <- MCDetectors
  Keys = {"scan_frame", "backward_frame"}
  MaxGrabs = 1
SPECIFICATION Spec
INVARIANTS BandsAreMaximalRuns LinesAreChords WindowsAreNeighbourhoods
