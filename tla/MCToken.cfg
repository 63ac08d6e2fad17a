SPECIFICATION TokenSpec
CONSTANTS
    alice = alice
    bob = bob
    createacc = createacc
    INR = INR
    OTH = OTH
    Accounts = {alice, bob, createacc}
    Signers = {alice, bob, createacc}
    Symbols = {INR, OTH}
    CoreSymbol = INR
    Creator = createacc
    NoIssuer = NoIssuer
    Quantities <- TriedQuantities
    Supplies = {0, 3}
    Precision = 2
    Border = 1
INVARIANTS TypeOK Conservation Backed
PROPERTIES ProducerLock ImplementsLedger
SYMMETRY Symmetry
