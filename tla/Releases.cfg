CONSTANTS
  s1 = s1
  q1 = q1
  q2 = q2
  v1 = v1
  v2 = v2
  b0 = b0
  b1 = b1
  no = no
  Servers <- OneServer
  Reqs <- TwoReqs
  Versions <- TwoVersions
  Builds <- TwoBuilds
  Origin = b0
  Legacy <- OldBuild
  None = no
  Torn = Torn
  Tags <- NewTag
  OwnLabel = v1
  Stored <- OneStored
  MaxUploads = 1
  MaxFaults = 1
SPECIFICATION Spec
SYMMETRY Interchangeable
INVARIANTS
  TypeOK
  
  NoFalseSuccess
CHECK_DEADLOCK FALSE
