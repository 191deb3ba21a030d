SPECIFICATION PathSpec
CONSTANTS
    Process = {p1, p2, p3}
    None = None
    Project = {theProject}
    Account = {writer, other}
    Nothing = Nothing
    MaxChanges = 2
    MaxPulls = 3
SYMMETRY Symmetric
INVARIANTS StoppedMeansUnsent AtMostOneHttp LedgerTellsTheTruth SentUnderOneAuthorization FreshReadingIsThisLogin PullsAreOrderly
PROPERTIES OpeningCleansUp AuthorityIsHeld
CHECK_DEADLOCK FALSE
