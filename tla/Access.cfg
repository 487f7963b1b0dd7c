CONSTANTS
  r1 = r1
  r2 = r2
  t1 = t1
  p1 = p1
  p2 = p2
  k1 = k1
  k2 = k2
  a1 = a1
  Reqs <- TwoReqs
  Kinds <- AllKinds
  Tokens <- OneToken
  Passwords <- TwoPasswords
  Passkeys <- TwoPasskeys
  Addresses <- OneAddress
  None = None
  MaxFails = 1
  Window = 2
  MaxDeaths = 1
  MaxRefusals = 1
SPECIFICATION Spec
INVARIANTS
  TypeOK
  
  FailuresBounded
  
PROPERTIES
  LockoutEnds
  UsedOnce
CHECK_DEADLOCK FALSE
