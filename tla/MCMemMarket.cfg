SPECIFICATION MemSpec
CONSTANTS
    alice = alice
    bob = bob
    stakeacct = stakeacct
    memacct = memacct
    INR = INR
    Accounts = {alice, bob, stakeacct, memacct}
    Signers = {alice}
    Symbols = {INR}
    CoreSymbol = INR
    Creator = Creator
    NoIssuer = NoIssuer
    Quantities = {}
    Supplies = {}
    Precision = 2
    Border = 1
    StakeAccount = stakeacct
    Receivers = {alice, bob}
    StakeAmounts = {}
    LimitValues = {}
    ManagedKinds = {}
    RefundDelay = 2
    MemGift = 1
    Vested = Vested
    VestedFloor = 0
    InitialFunds <- AliceHas14
    MayExpire = FALSE
    MemAccount = memacct
    BytesPerINR = 3
    InitialMax = 16
    InitialBase = 8
    InitialQuote = 1
    MaxRealistic = 40
    Word = 256
    SlotWord = 16
    FloatBits = 3
    Buys = {1, 2, 3}
    Bytes = {3, 4}
    MemSizes = {18}
    Rates = {1}
    MaxSince = 2
    MaxSupply = 19
INVARIANTS MarketTypeOK MemConserved MemBacked StakeTablesAgree
PROPERTY ImplementsDepot
