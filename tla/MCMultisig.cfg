CONSTANTS
    alice = alice
    bob = bob
    pay = pay
    pause = pause
    alice_active = alice_active
    alice_owner = alice_owner
    bob_active = bob_active
    upgrade = upgrade
    Proposers = {alice}
    Names = {upgrade}
    Transactions = {pay, pause}
    Accounts = {alice, bob}
    Levels = {alice_active, alice_owner, bob_active}
    Actor <- MCActor
    Needs <- MCNeeds
    NoTrx = NoTrx
    NoRow = NoRow
    Expirations = {0, 1}
    Lists <- MCLists
    Legacy <- MCLegacy
    LastSlot = 3
SPECIFICATION MsigSpec
INVARIANTS
    MsigTypeOK
    RowsMatch
PROPERTIES
    NoLevelLost
    ImplementsConsent
