CONSTANTS
  k1 = k1
  k2 = k2
  kLong = kLong
  s1 = s1
  s2 = s2
  big = big
  Absent = Absent
  NotCached = NotCached
  ShortKeys = {k1, k2}
  LongKeys = {kLong}
  SmallValues = {s1, s2}
  LargeValues = {big}
  Regimes = {"NO_CACHE", "GET_CACHE", "ONLY_CACHE", "DEFFER_DUMP"}
  MAX_COUNT_OPERATION = 4
SPECIFICATION HSpec
SYMMETRY MCSymmetry
INVARIANTS
  TypeOK
  LatestPendingIsCached
  CacheCoherence
  MemoryIsOfTheRegime
PROPERTIES
  CrashKeepsWholeBatches
  StaleOnlyBehindLarge
