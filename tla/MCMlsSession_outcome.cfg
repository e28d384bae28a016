SPECIFICATION Spec
CONSTANTS
    alice = alice
    bob = bob
    me = me
    b1 = b1
    b2 = b2
    m1 = m1
    m2 = m2
    p1 = p1
    Devices <- DevicesPair
    Accounts <- AccountsAll
    AccountOf <- AccountOfAll
    Ciphertexts <- CiphertextsAll
    EventIds = {m1}
    MyEvents = {m1}
    PeerEvents = {}
    Malformed = {}
    Me = me
    MaxSequence = 20
    MaxRevision = 0
    BatchLimit = 2
    BatchSize = 2
    MaxPeerCommits = 1
    MaxExpiries = 1
    MaxFailures = 1
    CleanupQueued = FALSE
INVARIANTS
    PreOutcomeGroupSpared
CHECK_DEADLOCK FALSE
