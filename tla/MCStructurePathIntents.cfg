SPECIFICATION StructureSpec
CONSTANTS
  Folder = {f}
  Name = {m, n}
  Dir = {dir1, dir2}
  Order = Order
  Nothing = Nothing
  MaxBatches = 2
  MaxOthers = 0
SYMMETRY Symmetry
CHECK_DEADLOCK FALSE
INVARIANTS PathIntentsArrive
