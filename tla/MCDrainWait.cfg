SPECIFICATION WaitSpec
CONSTANTS
    Workers = {w1}
    Jobs = {j1}
    Operators = {o1}
    Reasons = {r1}
    Overridden = {}
    Batch = 1
    MaxRevision = 1
    None = None
INVARIANTS QuiescenceEndsWait
CHECK_DEADLOCK FALSE
