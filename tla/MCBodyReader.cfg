SPECIFICATION FairSpec
CONSTANTS
  FrameSizes <- MCFrameSizes
  MaxFrames = 4
  Advertised <- MCAdvertised
  MaxBytes = 3
  MaxDecoded = 4
  BufferBytes = 2
  Plains <- MCPlains
  Idle = 2
  TotalTime = 5
INVARIANT TypeOK
INVARIANT BoundedMemory
INVARIANT BoundedTime
INVARIANT OutcomeIsTrue
PROPERTY EveryBodyEnds
