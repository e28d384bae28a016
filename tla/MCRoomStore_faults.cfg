SPECIFICATION Spec
CONSTANTS
    MaxId = 3
    MaxMessages = 3
    Reserve = 2
    MaxActive = 1
    MaxResident = 1
    Capacity = 1
    PageLimit = 2
    Faults = {"open", "rename", "write"}
INVARIANTS
    TypeOK
    PagesContiguous
    StartTruthful
