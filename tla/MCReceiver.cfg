SPECIFICATION Spec
CONSTANTS
  r1 = r1
  r2 = r2
  r3 = r3
  Protocol <- DefaultCodes
  Requests <- TwoRequests
  Inputs <- EveryFailure
  Capture = FALSE
  MaxEvents = 2
  Parts = 1
  WriteMayFail = FALSE
  CallersMayLeave = TRUE
SYMMETRY RequestSymmetry
INVARIANT TypeOK
INVARIANT RequestsAccounted
INVARIANT FailuresByCause
INVARIANT ReasonsAgree
INVARIANT LateIsRefused
