SPECIFICATION FairSpec
CONSTANTS
  AllBlockCount = 5
  RecyclePoolSize = 2
  BufBlocks = 2
  a1 = a1 a2 = a2 b1 = b1 b2 = b2 c1 = c1 s1 = s1 s2 = s2
  Items <- FewItems
  SizeOf <- FewSizeOf
  Slots = {s1}
  Readers = {r1}
  NoItem = NoItem
INVARIANT ReaderProtected
PROPERTIES CallsReturn ReadsReturn
