SPECIFICATION Spec
CONSTANTS
  desktop = desktop
  tablet = tablet
  Client <- MCClient
  UserOf <- MCUserOf
  MemberRole <- MCMemberRole
  Project = {p}
  Document = {d}
  Path = {a}
  Content = {c}
  Operation = {o1, o2}
  NoProject = NoProject
  NoDocument = NoDocument
  NoLease = NoLease
  LeaseTTL = 1
  MaxTime = 1
  MaxTokens = 2
  MaxInProgress = 2
  MaxBase = 2
SYMMETRY Symmetry
CHECK_DEADLOCK FALSE
INVARIANTS TypeOK ProjectionIsLastVersion
PROPERTIES RevisionsAreWrittenUnderLease TrashedDocumentsAreFrozen
