CONSTANTS
  Lookups = {t1}
  Kids = {k1}
  KeysTTL = 2
  Cooldown = 1
  MaxFetch = 1
  Gated = TRUE
  MaxTime = 4
  MaxRotations = 1
SPECIFICATION BusySpec
PROPERTIES TurnsReady
CHECK_DEADLOCK FALSE
