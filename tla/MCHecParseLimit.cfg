SPECIFICATION Spec
CONSTANTS
  Envelopes <- MCEnvelopes
  MaxItems = 3
  MaxScanned = 2
  MaxEvents = 2
  ValidNames <- MCValidNames
  Tokens <- MCTokens
  NoIndex = "none"
INVARIANT BusyOnlyOverLimit
