CONSTANTS
  d1 = d1
  d2 = d2
  r1 = r1
  r2 = r2
  w1 = w1
  NoValue = NoValue
  Order <- OrderTwo
  Ranges <- RangesTwo
  Writes <- WritesTwo
  SkipUpdates <- SkipTwo
  Values = {1, 2}
  MaxRetries = 1
  OfflineSkip = 2
SPECIFICATION Spec
PROPERTY AcknowledgedIsSent
