CONSTANTS
  j1 = j1
  j2 = j2
  j3 = j3
  r1 = r1
  r2 = r2
  set0 = set0
  set1 = set1
  k1 = k1
  k2 = k2
  Jobs <- ThreeJobs
  Releases <- TwoReleases
  Settings <- TwoSettings
  Keys <- TwoKeys
  Default = set0
  None = None
  Torn = Torn
  Stranger = Stranger
  MaxBeside = 2
  MaxFaults = 1
SPECIFICATION Spec
SYMMETRY Alike
INVARIANTS
  TypeOK
  SettingKept
  FailedLeavesNone

  
CHECK_DEADLOCK FALSE
