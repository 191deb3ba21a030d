SPECIFICATION StructureSpec
CONSTANTS
  Volume = {v1, v2}
  Chapter = {c1, c2}
  v1 = v1
  v2 = v2
  Tree = Tree
  Note = Note
  Nothing = Nothing
  NoBase = NoBase
  NoRow = NoRow
  MaxEdits = 3
  MaxForeign = 1
  Shelf = {s}
  Title = {m, n}
  Dir = {dir1, dir2}
  Order = Order
  MaxBatches = 2
  MaxOthers = 1
  FolderName = {f}
  DocName = {d, e}
  Uuid = {u1, u2}
  Main = Main
  Bin = Bin
  Trash = Trash
  Idle = Idle
  Fault = {"crash", "refused files", "refused identity", "refused record"}
  MaxFaults = 1
  MaxOrder = 1
  MaxWorks = 2
  MaxTurns = 2
  MaxEvents = 3
SYMMETRY Symmetric
CHECK_DEADLOCK FALSE
INVARIANTS BatchesAreSound IdentityNamesFiles GateFitsTheQueue
PROPERTIES DeletionsAreOrderly HoldAndModeAreKept
