SPECIFICATION Spec
CONSTANTS
  c1 = c1
  c2 = c2
  c3 = c3
  Callers <- ThreeCallers
  MaxEvents = 2
  Parts = 2
  WriteMayFail = TRUE
  CallersMayLeave = TRUE
  MaxLives = 2
SYMMETRY CallerSymmetry
INVARIANT TypeOK
INVARIANT AcceptedOnDisk
INVARIANT EveryFaultReportedOnce
INVARIANT OwnLinesUndisturbed
