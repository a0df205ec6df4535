CONSTANTS
  NaN = NaN
  LevelMax = 4
  HmsMin = 2
  MinC = 1
  MaxC = 3
  MinD = 2
  MaxD = 4
  Slack = 0
  PminCh = 2
  PminDis = 1
  PstartCh = 3
  Reverse = FALSE
  Errors <- ErrorClasses
SPECIFICATION DualFairSpec
VIEW View
INVARIANT Interlocked
PROPERTY EmptyBatteryCharges
