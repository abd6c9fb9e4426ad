CONSTANTS
  k1 = k1
  k2 = k2
  v1 = v1
  v2 = v2
  Keys = {k1, k2}
  Values = {v1, v2}
  NoValue = NoValue
  Size <- MCSize
  TABLE_SIZE = 6
  MAX_COUNT_OPERATION = 3
SPECIFICATION Spec
INVARIANTS
  TypeOK
  CursorFollowsCount
  TransactionFits
PROPERTY ImplementsBatchQueue
