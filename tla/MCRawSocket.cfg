SPECIFICATION FairSpec
CONSTANTS
  Selected <- MCSelected
  SlowDelays <- MCSlowDelays
  ReadTimeout = 16
  Idle = 10
  MaxFaults = 2
INVARIANT TypeOK
INVARIANT DeltaIsOwn
INVARIANT CasesDistinguished
PROPERTY EveryRunEnds
