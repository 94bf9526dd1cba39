SPECIFICATION FairSpec
CONSTANTS
  c1 = c1
  c2 = c2
  c3 = c3
  Callers <- TwoCallers
  MaxEvents = 2
  Parts = 2
  WriteMayFail = TRUE
  CallersMayLeave = TRUE
  MaxLives = 2
PROPERTY ImplementsLog
PROPERTY EveryCallReturns
