SPECIFICATION FairSpec
CONSTANTS
    MaxId = 4
    MaxMessages = 4
    Reserve = 2
    MaxActive = 1
    MaxResident = 1
    Capacity = 1
    PageLimit = 2
    Faults = {"kill"}
INVARIANTS
    NothingStranded
    PagesContiguous
    StartTruthful
PROPERTIES
    FetchesEnd
