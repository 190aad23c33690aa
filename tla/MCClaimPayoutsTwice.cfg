SPECIFICATION TimelySpec
CONSTANTS
    Wallets = {w1}
    ChallengeIds = {c1}
    ClaimIds = {p1}
    Keys = {k1}
    None = None
    ChallengeTTL = 1
    ReservationTTL = 2
    RequestTTL = 0
    Workers = {v1, v2}
    LeaseLen = 1
    MaxFaults = 1
    Payments = {t1, t2}
    RetryLen = 1
    MaxAttempts = 3
SYMMETRY Symmetry
INVARIANTS
    PaidOnce
