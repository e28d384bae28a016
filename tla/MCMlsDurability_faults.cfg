SPECIFICATION Spec
CONSTANTS
    a1 = a1
    a2 = a2
    b1 = b1
    alice = alice
    bob = bob
    Devices <- MCDevices
    Accounts <- MCAccounts
    AccountOf <- MCAccountOf
    Founders = {a1, b1}
    Online = {b1}
    EventIds = {x}
    Ciphertexts = {p}
    Faults = {"process", "write", "checkpoint", "rotate", "reset"}
    MaxAppends = 2
    ReuseIds = FALSE
    MaxSequence = 4
    MaxRevision = 1
    BatchLimit = 2
INVARIANTS
    ReopensUnlessUnreset
PROPERTIES
    RepliesSurvive
CHECK_DEADLOCK FALSE
