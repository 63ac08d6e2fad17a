SPECIFICATION MemSpec
CONSTANTS
    alice = alice
    bob = bob
    stakeacct = stakeacct
    memacct = memacct
    INR = INR
    Accounts = {alice, bob, stakeacct, memacct}
    Signers = {alice, bob}
    Symbols = {INR}
    CoreSymbol = INR
    Creator = Creator
    NoIssuer = NoIssuer
    Quantities = {}
    Supplies = {}
    Precision = 2
    Border = 1
    StakeAccount = stakeacct
    Receivers = {alice, bob}
    StakeAmounts = {}
    LimitValues = {}
    ManagedKinds = {}
    RefundDelay = 2
    MemGift = 1
    Vested = Vested
    VestedFloor = 0
    InitialFunds <- AliceHas12
    MayExpire = FALSE
    MemAccount = memacct
    BytesPerINR = 3
    InitialMax = 26
    InitialBase = 18
    InitialQuote = 1
    MaxRealistic = 40
    Word = 256
    SlotWord = 16
    FloatBits = 3
    Buys = {1, 2, 3}
    Bytes = {3, 4}
    MemSizes = {}
    Rates = {}
    MaxSince = 0
    MaxSupply = 29
INVARIANTS ReceiverCanSell
