SPECIFICATION StableSpec
CONSTANTS
    Transfers = {t1}
    Workers = {w1, w2, w3}
    None = None
    LeaseLen = 2
    RetryLen = 1
    MaxAttempts = 3
    MaxFaults = 1
SYMMETRY Symmetry
INVARIANTS
    OneWorkerPerTransfer
    ExhaustedIsParked
PROPERTIES
    StatusFollowsPolicy
CHECK_DEADLOCK FALSE
