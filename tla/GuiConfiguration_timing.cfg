CONSTANTS
  NaN = NaN
  None = None
  Empty = Empty
  Junk = Junk
  Names <- MCNames
  Environment <- MCEnvironment
  Paths = {p1}
  Documents <- MCDocuments
  Edits <- MCEdits
  MaxEdits = 2
SPECIFICATION Spec
INVARIANT LoadedTimingIsRun
