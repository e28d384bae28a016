SPECIFICATION FairSpec
CONSTANTS
    alice = alice
    bob = bob
    me = me
    b1 = b1
    b2 = b2
    m1 = m1
    m2 = m2
    p1 = p1
    Devices <- DevicesPair
    Accounts <- AccountsAll
    AccountOf <- AccountOfAll
    Ciphertexts <- CiphertextsAll
    EventIds = {m1, p1}
    MyEvents = {m1}
    PeerEvents = {p1}
    Malformed = {p1}
    Me = me
    MaxSequence = 20
    MaxRevision = 0
    BatchLimit = 2
    BatchSize = 2
    MaxPeerCommits = 1
    MaxExpiries = 1
    MaxFailures = 0
    CleanupQueued = FALSE
INVARIANTS
    NeverFatal
    ExactlyOnce
PROPERTIES
    ShownUnlessRejoinLost
CHECK_DEADLOCK FALSE
