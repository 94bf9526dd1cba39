SPECIFICATION Spec
CONSTANTS
  c1 = c1
  c2 = c2
  c3 = c3
  Callers <- TwoCallers
  MaxEvents = 1
  Parts = 1
  WriteMayFail = FALSE
  CallersMayLeave = TRUE
  MaxLives = 1
INVARIANT AcceptedOwnLines
