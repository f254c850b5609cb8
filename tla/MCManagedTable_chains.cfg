SPECIFICATION MCSpec
CONSTANTS
  Kind = "item"
  SlotsPerTable = 2
  MaxTables = 2
  MaxFreeSpace = 2
  VectorSlots = 3
  VectorFreeSpace = 8
  h1 = h1
  h2 = h2
  nil = nil
  Holders = {h1, h2}
  Nil = nil
SYMMETRY HolderSymmetry
INVARIANTS TypeOK ChainIntact FreeSpaceExact
PROPERTIES NeverShared GrowsOnlyWhenFull ImplementsPool VectorsSharedOnlyWhenFull
