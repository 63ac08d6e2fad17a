SPECIFICATION VotingSpec
CONSTANTS
    alice = alice
    bob = bob
    carol = carol
    createacc = createacc
    INR = INR
    Accounts = {alice, bob, carol}
    Signers = {alice, bob, carol}
    Symbols = {INR}
    CoreSymbol = INR
    Creator = createacc
    NoIssuer = NoIssuer
    Quantities = {}
    Supplies = {}
    Precision = 1
    Border = 1
    NoOne = NoOne
    Growth <- Doubling
    MinActivated = 1
    ShareLife = 1
    InitialFunds <- AllFunded
    InitialStake <- TwoStaked
    StakeChanges <- UpAndDown
    Founders = {alice, bob}
    Incumbents = {}
    Leavers = {carol}
    Proxies = {alice, bob, carol}
    Stakers = {bob}
    MaxStake = 1
    LastDay = 1
INVARIANTS VotingTypeOK ProxiesEnd RestakeNeverRefused VotesAddUp ProxiedAddsUp SharesAddUp
