CONSTANTS
  JobCap = 1
  ResultCap = 1
  MaxCharge = 1
  MaxDischarge = 2
  KickPower = 1
  KickBoost = 1
  Refresh = 1
  OfflineAfter = 2
  FailMax = 2
  FlashOnStop = TRUE
  OffGrid = TRUE
  Restored = TRUE
  PropValues = {0, 1}
  Changes = 2
SPECIFICATION ZenFairSpec
INVARIANT ZenInv
PROPERTIES RequestInForce EntitiesAgree KickStarts
