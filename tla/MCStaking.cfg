SPECIFICATION Spec
CONSTANTS
    alice = alice
    bob = bob
    admin = admin
    defaultKey = defaultKey
    programKey = programKey
    Owners <- TwoOwners
    Admins <- OneAdmin
    RejectedKeys <- BadKeys
    U64Max = 3
    PPM = 2
    EpochLengths <- OneSlot
    Cap = 1
    Cooldown = 1
    MinStake = 1
    Fees <- ZeroOrOne
    Gifts <- OneUnit
    EpochMultiple = 2
    MaxSlot = 3
SYMMETRY Symmetry
INVARIANTS
    TypeOK
    StakeLedgerBalanced
    PrincipalBacked
    PrincipalConserved
    RewardsBacked
    RewardsMatchEarnings
PROPERTIES
    PolicyNeverRetroactive
    CooldownRespected
CHECK_DEADLOCK FALSE
