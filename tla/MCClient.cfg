SPECIFICATION ClientSpec
CONSTANTS
  Nothing = Nothing
  Document = {d}
  Text = {a, b}
  NoBase = NoBase
  NoRow = NoRow
  Errors = {"NETWORK"}
  Refusals = {"REFUSED"}
  MaxOps = 3
  MaxForeign = 2
  Work = {w1, w2}
  Project = {p1, p2, p3}
  Title = {s, t}
  MaxFaults = 1
  MaxOthers = 1
  MaxActs = 4
  Folder = {f}
  Leaf = {m}
  Top = Top
  Content = {x}
  MaxRequests = 12
  MaxEmpty = 1
  MaxEdits = 2
  MaxSurprises = 1
SYMMETRY Symmetric
CHECK_DEADLOCK FALSE
INVARIANTS QueueIsTrue WorksStayInReach LeavesOnce EditorIsSound
PROPERTIES IdentityIsKept
