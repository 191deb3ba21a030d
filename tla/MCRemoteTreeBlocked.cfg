SPECIFICATION TreeSpec
CONSTANTS
  Folder = {d1, d2}
  Name = {left, right}
  Document = {t1}
  Own = {own}
  Tree = Tree
  Trash = Trash
  None = None
  MaxChanges = 2
  MaxLocal = 0
  MaxFaults = 0
CHECK_DEADLOCK FALSE
INVARIANT RowsAreNamed
