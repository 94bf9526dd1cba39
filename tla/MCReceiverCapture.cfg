SPECIFICATION FairSpec
CONSTANTS
  r1 = r1
  r2 = r2
  r3 = r3
  Protocol <- DefaultCodes
  Requests <- TwoRequests
  Inputs <- SinkInputs
  Capture = TRUE
  MaxEvents = 2
  Parts = 1
  WriteMayFail = TRUE
  CallersMayLeave = TRUE
INVARIANT EventsAccounted
INVARIANT WrittenIsOnDisk
INVARIANT AnswersMatchFile
INVARIANT FileIsAuthorized
PROPERTY EveryRequestEnds
PROPERTY DrainsToExit
