CONSTANTS
  Lookups = {t1, t2}
  Kids = {k1, k2}
  KeysTTL = 1
  Cooldown = 0
  MaxFetch = 1
  Gated = FALSE
  MaxTime = 3
  MaxRotations = 1
SPECIFICATION JwksSpec
INVARIANT OneFetchPerGet
PROPERTIES RotationIsFollowed WithdrawnKeyExpires EveryGetReturns
