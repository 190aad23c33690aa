SPECIFICATION StableSpec
CONSTANTS
    Wallets = {w1}
    ChallengeIds = {c1, c2}
    ClaimIds = {p1, p2}
    Keys = {k1, k2}
    None = None
    ChallengeTTL = 1
    ReservationTTL = 2
    RequestTTL = 1
    Workers = {v1, v2}
    LeaseLen = 1
    MaxFaults = 0
    Payments = {t1, t2}
    RetryLen = 1
    MaxAttempts = 2
SYMMETRY Symmetry
INVARIANTS
    OneClaimPerWallet
    FinalizedIsClaimed
    OneHolderPerJob
    PaidOnce
