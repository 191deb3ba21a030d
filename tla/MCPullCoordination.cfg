SPECIFICATION FairPullSpec
CONSTANTS
    Project = {theProject}
    Account = {writer}
    Nothing = Nothing
    MaxChanges = 1
    MaxPulls = 4
PROPERTIES ClosedOnlyWhileChoosing
CHECK_DEADLOCK FALSE
