SPECIFICATION FairSpec
CONSTANTS
    alice = alice
    bob = bob
    createacc = createacc
    stakeacct = stakeacct
    INR = INR
    Accounts = {alice, bob, stakeacct}
    Signers = {alice, bob}
    Symbols = {INR}
    CoreSymbol = INR
    Creator = createacc
    NoIssuer = NoIssuer
    Quantities = {}
    Supplies = {}
    Precision = 1
    Border = 1
    StakeAccount = stakeacct
    Receivers = {alice, bob}
    StakeAmounts = {0, 1}
    LimitValues = {}
    ManagedKinds = {}
    RefundDelay = 2
    MemGift = 1
    Vested = createacc
    VestedFloor = 0
    InitialFunds <- OneEach
    MayExpire = FALSE
PROPERTIES RefundArrives
