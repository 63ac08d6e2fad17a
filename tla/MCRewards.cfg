SPECIFICATION RewardsSpec
CONSTANTS
    alice = alice
    bob = bob
    sys = sys
    saving = saving
    bpay = bpay
    vpay = vpay
    createacc = createacc
    INR = INR
    Accounts = {alice, bob, sys, saving, bpay, vpay}
    Signers = {alice, bob}
    Symbols = {INR}
    CoreSymbol = INR
    Creator = createacc
    NoIssuer = NoIssuer
    Quantities = {}
    Supplies = {}
    Precision = 1
    Border = 1
    NoOne = NoOne
    Growth <- Doubling
    MinActivated = 2
    ShareLife = 2
    InitialFunds <- TwoForBob
    InitialStake <- Stakes
    StakeChanges <- Down
    Founders = {alice, bob}
    Incumbents = {bob}
    Leavers = {bob}
    Proxies = {}
    Stakers = {}
    MaxStake = 2
    LastDay = 2
    System = sys
    Saving = saving
    BlockPayer = bpay
    VotePayer = vpay
    MaxSupply = 18
    PayDelay = 0
    PayPrecision = 2
    MinVotePay = 1
    ContinuousRate <- Rates
    YearUnits = 1
    InitialRates <- Start
    RateChanges = {}
    MaxElected = 1
    MaxUnpaid = 2
INVARIANTS RewardsTypeOK BlocksAddUp BucketsCovered ClaimPayable SharesAddUp Conservation
