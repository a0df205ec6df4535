CONSTANTS
  LevelMax = 4
  StartLevel = 1
  MinC = 0
  MaxC = 4
  MinD = 1
  MaxD = 3
  Slack = 1
  PstopC = 2
  PstopD = 2
  PstartC = 3
  PstartD = 3
  Errors <- ErrorClasses
SPECIFICATION PcmFairSpec
INVARIANT ConverterOK
PROPERTIES SwapsAtMinimum EmptyBatteryCharges
