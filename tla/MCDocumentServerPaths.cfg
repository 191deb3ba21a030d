SPECIFICATION Spec
CONSTANTS
  desktop = desktop
  tablet = tablet
  Client = {desktop}
  UserOf <- MCUserOf
  MemberRole <- MCMemberRole
  Project = {p}
  Document = {d, e}
  Path = {a, b}
  Content = {c}
  Operation = {o1, o2, o3, o4}
  NoProject = NoProject
  NoDocument = NoDocument
  NoLease = NoLease
  LeaseTTL = 1
  MaxTime = 0
  MaxTokens = 2
  MaxInProgress = 1
  MaxBase = 2
SYMMETRY Symmetry
CHECK_DEADLOCK FALSE
INVARIANTS OperationAppliedOnce LedgerIsAChain LivePathsAreUnique PurgeIsFinal
PROPERTIES ImplementsHistory
