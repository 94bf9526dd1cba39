SPECIFICATION Spec
CONSTANTS
  Envelopes <- MCEnvelopes
  MaxItems = 3
  MaxScanned = 6
  MaxEvents = 2
  ValidNames <- MCValidNames
  Tokens <- MCTokens
  NoIndex = "none"
INVARIANT TypeOK
INVARIANT FirstFaultAnswers
INVARIANT AcceptedWhole
INVARIANT LinesWhole
