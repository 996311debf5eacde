SPECIFICATION MCSpec
CONSTANTS
  AllBlockCount = 4
  RecyclePoolSize = 1
  k1 = k1 k2 = k2 k3 = k3 a1 = a1 a2 = a2 b1 = b1 b2 = b2 c1 = c1
  Items <- MCItems
  SizeOf <- MCSizeOf
  NoItem = NoItem
  Keys <- MCKeys
  NoKey = NoKey
  KeyOf <- MCKeyOf
  HashOf <- MCHashOf
  LenOf <- MCLenOf
  CommonOf <- MCCommonOf
  RowsNodeNum <- MCRows
  UsageLimit = 60
  EraseScan = 2
  MaxTime = 2
  Readers = {r1}
  Modes = {"index", "readers"}
INVARIANTS IndexSound NothingLost FailureKeepsValue TakeoverNoticed
PROPERTY WriterReturns
