SPECIFICATION FairSpec
CONSTANTS
  Bars = {0, 4}
  BarAddr = 1
  Aperture = 2
  RamSize = 3
  LowRange = 2
  Limits = {0, 2, 4}
  Lows = {0, 1}
  Highs = {0, 1}
  MaxRestart = 1
INVARIANTS
  TypeOK
  AliasTransparent
  AliasInRam
PROPERTY
  ClearedCloses
CHECK_DEADLOCK TRUE
