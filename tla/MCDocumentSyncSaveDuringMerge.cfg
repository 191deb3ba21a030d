SPECIFICATION SyncSpec
CONSTANTS
  desktop = desktop
  laptop = laptop
  theProject = theProject
  theDocument = theDocument
  thePath = thePath
  Client <- Devices
  UserOf <- Account
  MemberRole <- NoMember
  Passage = {p, q, r}
  Content <- Texts
  Project = {theProject}
  Document = {theDocument}
  Path = {thePath}
  TheProject = theProject
  TheDocument = theDocument
  ThePath = thePath
  Operation <- Operations
  OperationOf <- OperationNumber
  FirstOperation = 0
  NoProject = NoProject
  NoDocument = NoDocument
  NoLease = NoLease
  NoBase = NoBase
  NoRow = NoRow
  LeaseTTL = 1
  MaxTime = 0
  MaxTokens = 2
  MaxInProgress = 1
  MaxBase = 1
  Writers <- Both
  StructureRows = TRUE
  MergeConflicts = FALSE
  MaxOps = 4
  MaxCrashes = 0
SYMMETRY Symmetry
CHECK_DEADLOCK FALSE
PROPERTIES NoForcedOverwrite
