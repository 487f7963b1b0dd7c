CONSTANTS
  c1 = c1
  c2 = c2
  i1 = i1
  i2 = i2
  i3 = i3
  r1 = r1
  s1 = s1
  s2 = s2
  v0 = v0
  v1 = v1
  Containers <- OneContainer
  Tags <- TwoTags
  Ids <- ThreeIds
  Reqs <- OneReq
  Kinds <- AllKinds
  Sessions <- TwoSessions
  None = None
  MaxEvents = 1
SPECIFICATION Spec
INVARIANTS
  TypeOK
  
  OwedIsKept
PROPERTIES
  Refreshed
CHECK_DEADLOCK FALSE
