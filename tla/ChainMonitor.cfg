CONSTANTS
  v1 = v1
  v2 = v2
  x = x
  Managed <- TwoManaged
  Chains <- SomeChains
  Elected <- ThreeEpochs
  Months <- TwoMonths
  Window = 2
  Chunk = 2
  StatsEvery = 2
  Lag = 1
  MaxCrashes = 1
  NoList = NoList
SPECIFICATION FairSpec
INVARIANTS
  TypeOK
  CountedOnce
  SnapshotTruth
PROPERTY
  Settles
