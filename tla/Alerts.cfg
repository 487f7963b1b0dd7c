CONSTANTS
  k1 = k1
  a1 = a1
  a2 = a2
  Keys <- OneKey
  Ids <- TwoIds
  NoId = NoId
  Duration = 2
  Cooldown = 2
  StaleAfter = 1
  Threshold = 1
  Lookback = 1
  Faults <- WriteFaults
SPECIFICATION FairSpec
INVARIANTS
  TypeOK
  
PROPERTIES
  CooldownRespected
  FiresAfterSustainedBreach
  
