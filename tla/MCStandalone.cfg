SPECIFICATION StandaloneSpec
CONSTANTS
    a1 = a1
    a2 = a2
    b1 = b1
    b2 = b2
    c1 = c1
    c2 = c2
    d1 = d1
    d2 = d2
    plain = plain
    delegated = delegated
    hook = hook
    none = none
    r3 = r3
    zero = zero
    swap = swap
    s1 = s1
    n1 = n1
    n2 = n2
    getSlot = getSlot
    getBalance = getBalance
    getSignatures = getSignatures
    QuoteIds <- A
    TransferIds <- B
    Keys <- C
    Txs <- D
    Snapshots <- TwoSnapshots
    None = None
    MaxInFlight = 2
    Mints <- TwoMints
    MintExtensions <- Extensions
    Receipts <- ThreeReceipts
    MintOf <- MintsOf
    Amounts <- OneTwo
    Fees <- ZeroOne
    Gifts <- One
    Policies <- TwoPolicies
    Hooks <- OneHook
    NoHook = none
    U64Max = 2
    MaxSlot = 1
    Chains <- BothChains
    Signers <- B
    Rejected <- BadSigners
    Bodies <- OneBody
    NonceMax = 2
    MaxEvents = 7
    Tabs <- C
    Signatures <- OneSignature
    ChainSlots <- D
    MaxEntries = 2
    MaxMessages = 1
    MaxReconnects = 2
    Slots <- B
    Options <- FourOptions
    NumEndpoints = 2
    CallTimeout = 1
    BackOff <- OneThenTwo
    Threshold = 2
    RateLimitRest = 2
    MaxActive = 2
    Payers <- A
    Terms <- TwoTerms
    Outputs <- ThreeOrFour
    Denominator = 4
    QuoteTtl = 1
    MaxPrompts = 2
    Nothing = Nothing
SYMMETRY Symmetry
INVARIANTS
    OneTransferEach
    RepliesAgree
    ReceiptsBacked
    EventsTellState
    SaysWhatWasReported
    NeverStranded
    FreshEnough
    BuiltAsReviewed
PROPERTIES
    BindingPermanent
    TermsKept
    LimitRespected
CHECK_DEADLOCK FALSE
