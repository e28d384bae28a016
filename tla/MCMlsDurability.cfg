SPECIFICATION Spec
CONSTANTS
    a1 = a1
    a2 = a2
    b1 = b1
    alice = alice
    bob = bob
    Devices <- MCPair
    Accounts <- MCAccounts
    AccountOf <- MCAccountOf
    Founders = {a1, b1}
    Online = {b1}
    EventIds = {x}
    Ciphertexts = {p}
    Faults = {"power"}
    MaxAppends = 3
    ReuseIds = FALSE
    MaxSequence = 4
    MaxRevision = 0
    BatchLimit = 2
INVARIANTS
    TypeOK
    StoreReopens
    RecoveredCursorsBehind
    NothingUnseenDeleted
PROPERTIES
    RepliesSurvive
