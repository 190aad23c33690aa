SPECIFICATION ServiceSpec
CONSTANTS
    Wallets = {w1}
    ChallengeIds = {c1, c2}
    ClaimIds = {p1, p2}
    Keys = {k1, k2}
    None = None
    ChallengeTTL = 1
    ReservationTTL = 2
    RequestTTL = 1
SYMMETRY Symmetry
INVARIANTS
    ExpiredReopens
