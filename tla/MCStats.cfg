SPECIFICATION FairSpec
CONSTANTS
  h1 = h1
  h2 = h2
  h3 = h3
  Handlers <- TwoHandlers
  Latencies <- ThreeLatencies
  Width = 5
INVARIANT TypeOK
INVARIANT MaxIsMax
INVARIANT SnapshotCovers
INVARIANT Settled
PROPERTY EveryReportEnds
