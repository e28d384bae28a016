SPECIFICATION Spec
CONSTANTS
    alice = alice
    bob = bob
    me = me
    b1 = b1
    b2 = b2
    m1 = m1
    m2 = m2
    p1 = p1
    Devices <- DevicesAll
    Accounts <- AccountsAll
    AccountOf <- AccountOfAll
    Ciphertexts <- CiphertextsAll
    EventIds = {m1, p1}
    MyEvents = {m1}
    PeerEvents = {p1}
    Malformed = {}
    Me = me
    MaxSequence = 20
    MaxRevision = 1
    BatchLimit = 2
    BatchSize = 2
    MaxPeerCommits = 0
    MaxExpiries = 0
    MaxFailures = 1
    CleanupQueued = FALSE
INVARIANTS
    TypeOK
    ServerNeverAhead
    NeverFatal
    NothingLost
CHECK_DEADLOCK FALSE
