CONSTANTS
  JobCap = 1
  ResultCap = 1
  Configs <- MCConfigs
  MaxCharge = 0
  MaxDischarge = 1
  MinPower = 1
  AutoMode = TRUE
  OfflineAfter = 1
  FailMax = 1
SPECIFICATION IndFairSpec
VIEW View
INVARIANT IndInv
PROPERTIES PollingGoesOn RequestInForce OnlineFollows
