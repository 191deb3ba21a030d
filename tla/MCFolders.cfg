SPECIFICATION FoldersSpec
CONSTANTS
  desktop = desktop
  draft = draft
  Draft = Draft
  Client = {desktop}
  UserOf <- MCUserOf
  MemberRole <- MCMemberRole
  Project = {p, q}
  Document = {}
  Path = {}
  Content = {}
  Operation = {o1, o2, o3}
  NoProject = NoProject
  NoDocument = NoDocument
  NoLease = NoLease
  LeaseTTL = 1
  MaxTime = 1
  MaxTokens = 0
  MaxInProgress = 0
  MaxBase = 2
  Folder = {f, g}
  Name = {draft, Draft}
  Lower <- MCLower
  Root = Root
  NoFolder = NoFolder
  Directory = {d1, d2}
  Label = {left, right}
  Leaf = {t1}
  Own = {own}
  Tree = Tree
  Trash = Trash
  None = None
  first = d1
  second = d2
  left = left
  MaxChanges = 2
  MaxLocal = 1
  MaxFaults = 1
  MaxDisturbances = 1
CHECK_DEADLOCK FALSE
INVARIANTS FoldersFormATree
PROPERTIES PullsKeepAndAgree
