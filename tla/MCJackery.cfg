CONSTANTS
  Slots = {1, 2}
  PlugCap = 2
  Top = 2
  DevLo = 0
  DevHi = 1
  Garbage <- MCGarbage
  MaxUp = 1
  MaxCmds = 1
  Configs <- MCConfigs
SPECIFICATION JackFairSpec
INVARIANT JackInv
PROPERTIES SensorsHonest PlugsShown OutputInForce
