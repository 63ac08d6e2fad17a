SPECIFICATION RewardsFairSpec
CONSTANTS
    alice = alice
    bob = bob
    sys = sys
    saving = saving
    bpay = bpay
    vpay = vpay
    createacc = createacc
    INR = INR
    Accounts = {alice, bob, sys, saving, bpay, vpay}
    Signers = {alice, bob}
    Symbols = {INR}
    CoreSymbol = INR
    Creator = createacc
    NoIssuer = NoIssuer
    Quantities = {1}
    Supplies = {}
    Precision = 1
    Border = 1
    NoOne = NoOne
    Growth <- Doubling
    MinActivated = 3
    ShareLife = 2
    InitialFunds <- OneEach
    InitialStake <- Stakes
    StakeChanges <- UpDown
    Founders = {alice, bob}
    Incumbents = {alice, bob}
    Leavers = {alice, bob}
    Proxies = {}
    Stakers = {bob}
    MaxStake = 2
    LastDay = 0
    System = sys
    Saving = saving
    BlockPayer = bpay
    VotePayer = vpay
    MaxSupply = 18
    PayDelay = 0
    PayPrecision = 2
    MinVotePay = 1
    ContinuousRate <- Rates
    YearUnits = 1
    InitialRates <- Start
    RateChanges <- NoInflation
    MaxElected = 2
    MaxUnpaid = 1
INVARIANT ProducersBacked
PROPERTY ScheduleSettles
