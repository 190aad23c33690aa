SPECIFICATION Spec
CONSTANTS
    Workers = {w1, w2}
    Jobs = {j1}
    Operators = {o1}
    Reasons = {r1}
    Overridden = {w2}
    Batch = 2
    MaxRevision = 2
    None = None
INVARIANTS Supervised
PROPERTIES ClaimsAreCleared DrainIsEffective
CHECK_DEADLOCK FALSE
