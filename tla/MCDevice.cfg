SPECIFICATION DeviceSpec
CONSTANTS
  Document = {d}
  Text = {a, b}
  NoBase = NoBase
  NoRow = NoRow
  Errors = {"NETWORK", "LEASE_CONFLICT"}
  Refusals = {}
  MaxOps = 3
  MaxForeign = 1
  Nothing = Nothing
  MaxActs = 3
  MaxSurprises = 3
  MaxBatches = 3
  MaxRuns = 4
  MaxOthers = 1
  Opener = {p, q}
  Operation = {o}
  MaxOpenings = 2
  MaxSends = 1
  File = {d1, d2}
  Listing = Listing
  Damaged = Damaged
  MaxSaves = 3
  MaxTries = 3
  MaxDamages = 1
CHECK_DEADLOCK FALSE
INVARIANTS NormalEditorIsSound TrialIsHarmless OldStoresOpen BackupsAreTrue
PROPERTIES EverySaveSettles
