SPECIFICATION LateSpec
CONSTANTS
    Transfers = {t1}
    Workers = {w1, w2}
    None = None
    LeaseLen = 2
    RetryLen = 1
    MaxAttempts = 3
    MaxFaults = 1
PROPERTIES
    StatusFollowsPolicy
CHECK_DEADLOCK FALSE
