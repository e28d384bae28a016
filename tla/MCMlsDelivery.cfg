SPECIFICATION Spec
CONSTANTS
    a1 = a1
    a2 = a2
    b1 = b1
    alice = alice
    bob = bob
    Devices <- MCDevices
    Accounts <- MCAccounts
    AccountOf <- MCAccountOf
    EventIds = {x}
    Ciphertexts = {x}
    Online = {a2, b1}
    Inbox = {b1}
    MaxSequence = 3
    MaxRevision = 1
    BatchLimit = 1
INVARIANTS
    TypeOK
    StoredLogValid
    EpochChain
    CursorsValid
    WelcomesValid
    NothingUnseenDeleted
    Inv
PROPERTIES
    NoApplicationToRevokedLeaf
    LogAppendOnly
CHECK_DEADLOCK FALSE
