CONSTANTS
  n1 = n1
  n2 = n2
  j1 = j1
  j2 = j2
  j3 = j3
  v0 = v0
  v1 = v1
  Nodes <- OneNode
  Jobs <- ThreeJobs
  Kinds <- AllKinds
  Tags <- TwoTags
  Tag0 = v0
  NoJob = NoJob
  Exclusive = FALSE
  MaxFaults = 0
  MaxDeaths = 0
SPECIFICATION Spec
SYMMETRY Symmetry
INVARIANT
  NodeSurvives
CHECK_DEADLOCK FALSE
