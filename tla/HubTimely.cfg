CONSTANTS
  srv1 = srv1
  srv2 = srv2
  s1 = s1
  s2 = s2
  s3 = s3
  c1 = c1
  c2 = c2
  Servers <- OneServer
  Sessions <- TwoSessions
  Cmds <- OneCmd
  ServerOf <- AllOnServer
  TargetOf <- AllToServer
  None = None
  NoCmd = NoCmd
  SendCap = 1
  Timely = TRUE
SPECIFICATION FairSpec
INVARIANT
  WaitingCallHasAnAnswer
PROPERTIES
  CallsEnd
  Converges
