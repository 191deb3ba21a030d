SPECIFICATION WritersSpec
CONSTANTS
  desktop = desktop
  laptop = laptop
  theProject = theProject
  theDocument = theDocument
  thePath = thePath
  Client <- Devices
  UserOf <- Account
  MemberRole <- NoMember
  Passage = {p, q}
  Content <- Texts
  Project = {theProject}
  Document = {theDocument}
  Path = {thePath}
  TheProject = theProject
  TheDocument = theDocument
  ThePath = thePath
  Operation <- Operations
  OperationOf <- OperationNumber
  FirstOperation = 0
  NoProject = NoProject
  NoDocument = NoDocument
  NoLease = NoLease
  NoBase = NoBase
  NoRow = NoRow
  LeaseTTL = 1
  MaxTime = 1
  MaxTokens = 2
  MaxInProgress = 2
  MaxBase = 1
  Writers <- OneOrBoth
  StructureRows = TRUE
  MergeConflicts = TRUE
  MaxOps = 2
  MaxCrashes = 1
  Chapters = 3
  Collected = 1
  Window = 1
  Nothing = Nothing
  MaxActs = 3
  MaxFaults = 1
SYMMETRY Symmetry
CHECK_DEADLOCK FALSE
INVARIANTS CommittedNeverConflicts ReadersFollow AssistantKeepsTexts AnswersAreTrue
PROPERTIES SoleWriterLosesNothing
