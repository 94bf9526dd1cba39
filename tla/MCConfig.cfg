SPECIFICATION Spec
CONSTANTS
  Texts <- MCTexts
  Trimmed <- MCTrimmed
  Ascii <- MCAscii
  Garbled = Garbled
  Files <- MCFiles
  Clis <- MCClis
  Envs <- MCEnvs
  Empty = Empty
  Malformed = Malformed
  NoPath = "none"
  NoIndex = NoIndex
  Port <- MCPort
  Durations <- MCDurations
  NameLength <- MCNameLength
  Levels = {"info", "warn", "debug", "trace"}
  Blank = {"", " "}
  Control = {"control"}
INVARIANT HighestSourceRules
INVARIANT MeetsAssumptions
INVARIANT IdentifiesItsToken
INVARIANT NoSecretShown
INVARIANT ShownReloads
