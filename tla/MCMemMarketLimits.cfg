SPECIFICATION MemSpec
CONSTANTS
    alice = alice
    bob = bob
    stakeacct = stakeacct
    memacct = memacct
    INR = INR
    Accounts = {alice, bob, stakeacct, memacct}
    Signers = {alice}
    Symbols = {INR}
    CoreSymbol = INR
    Creator = Creator
    NoIssuer = NoIssuer
    Quantities = {}
    Supplies = {}
    Precision = 2
    Border = 1
    StakeAccount = stakeacct
    Receivers = {alice}
    StakeAmounts = {}
    LimitValues <- TriedLimits
    ManagedKinds = {"mem", "net", "cpu"}
    RefundDelay = 2
    MemGift = 1
    Vested = Vested
    VestedFloor = 0
    InitialFunds <- AliceHas12
    MayExpire = FALSE
    MemAccount = memacct
    BytesPerINR = 3
    InitialMax = 26
    InitialBase = 18
    InitialQuote = 1
    MaxRealistic = 40
    Word = 256
    SlotWord = 16
    FloatBits = 3
    Buys = {2}
    Bytes = {3}
    MemSizes = {}
    Rates = {}
    MaxSince = 2
    MaxSupply = 29
INVARIANTS MemLimitCovers LimitsFollowStake
PROPERTIES ManagedLimitsStay
