CONSTANTS
  n1 = n1
  n2 = n2
  j1 = j1
  j2 = j2
  j3 = j3
  v0 = v0
  v1 = v1
  Nodes <- OneNode
  Jobs <- ThreeJobs
  Kinds <- AllKinds
  Tags <- TwoTags
  Tag0 = v0
  NoJob = NoJob
  Exclusive = TRUE
  MaxFaults = 1
  MaxDeaths = 1
SPECIFICATION Spec
SYMMETRY Symmetry
INVARIANTS
  TypeOK
  QuietDB
  CompleteCopyAlive
  NoDamagedStart
PROPERTIES
  Truthful
  
CHECK_DEADLOCK FALSE
