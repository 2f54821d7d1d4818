CONSTANTS
    Events = {1, 2, 3}
    ThreadOf <- MCThreadOf
    LockRetryLimit = 1
SPECIFICATION FairSpec
INVARIANTS
    NoResultLost
    DuplicateOnlyIfUnsettled
PROPERTIES
    ImplementsMailbox
    ReliableResultsSettle
