CONSTANTS
  k1 = k1
  k2 = k2
  kLong = kLong
  s1 = s1
  s2 = s2
  big = big
  Absent = Absent
  NotCached = NotCached
  ShortKeys = {k1, k2}
  LongKeys = {}
  SmallValues = {s1}
  LargeValues = {big}
  Regimes = {"DEFFER_DUMP"}
  MAX_COUNT_OPERATION = 3
SPECIFICATION HSpec
INVARIANT NothingPendingMeansSaved
