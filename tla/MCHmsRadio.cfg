CONSTANTS
  i1 = i1
  i2 = i2
  d1 = d1
  d2 = d2
  None = None
  Invs = {i1, i2}
  Limited = {i1}
  Buttons = {i1}
  BoardDtu = d1
  Configs <- Settings
  Frags = 2
  MaxResend = 1
  MaxRetransmit = 1
  Threshold = 0
  MaxAir = 2
SPECIFICATION FairSpec
VIEW View
INVARIANTS LockIffActive ChannelRestored ReassemblyOK
PROPERTIES ExchangeEnds 
