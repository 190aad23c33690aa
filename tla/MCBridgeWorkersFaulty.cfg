SPECIFICATION FairSpec
CONSTANTS
    Transfers = {t1}
    Workers = {w1, w2}
    None = None
    LeaseLen = 1
    RetryLen = 1
    MaxAttempts = 2
    MaxFaults = 2
INVARIANTS
    TypeOK
    CompletedIsEvidenced
PROPERTIES
    SettledUnlessUnredeemed
CHECK_DEADLOCK FALSE
