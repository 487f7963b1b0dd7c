CONSTANTS
  srv1 = srv1
  srv2 = srv2
  s1 = s1
  s2 = s2
  s3 = s3
  c1 = c1
  c2 = c2
  Servers <- TwoServers
  Sessions <- ThreeSessions
  Cmds <- OneCmd
  ServerOf <- SplitSessions
  TargetOf <- SplitCmds
  None = None
  NoCmd = NoCmd
  SendCap = 1
  Timely = FALSE
SPECIFICATION Spec
INVARIANTS
  OpenIffRegistered
  NoMisdelivery
