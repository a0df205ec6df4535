CONSTANTS
  hub = hub
  rmode = rmode
  wmode = wmode
  wpower = wpower
  NoValue = NoValue
  Order <- OneHub
  Ranges <- HubRanges
  Writes <- HubWrites
  SkipUpdates <- HubSkip
  Values = {"on", "off"}
  MaxRetries = 1
  OfflineSkip = 1
  ModeRange = rmode
  ModeReg = wmode
  CommandRegs = {wpower}
SPECIFICATION HubFairSpec
INVARIANT HubInv
PROPERTIES SilenceNoticed ReadBackCorrects
