SPECIFICATION Spec
CONSTANTS
  AllBlockCount = 5
  RecyclePoolSize = 1
  BufBlocks = 3
  a1 = a1 a2 = a2 b1 = b1 b2 = b2 c1 = c1 s1 = s1 s2 = s2
  Items <- MCItems
  SizeOf <- MCSizeOf
  Slots <- MCSlots
  Readers = {}
  NoItem = NoItem
SYMMETRY Symmetry
INVARIANTS StoredIntact FreeCountSound
PROPERTIES NoOverwrite ImplementsStore
