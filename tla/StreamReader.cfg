CONSTANTS
  BufferSize = 2
  NumSamples = 2
  ShortFrames = {2}
  MaxFrames = 4
  MaxTime = 2
SPECIFICATION FairSpec
INVARIANTS TypeOK FreshAndDistinct NothingSkipped
PROPERTIES DeathEndsCollection StopReturns
CHECK_DEADLOCK FALSE
