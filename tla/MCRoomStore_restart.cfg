SPECIFICATION Spec
CONSTANTS
    MaxId = 7
    MaxMessages = 3
    Reserve = 2
    MaxActive = 1
    MaxResident = 1
    Capacity = 1
    PageLimit = 1
    Faults = {"kill", "state"}
INVARIANTS
    LogAscending
    ReservedIdsFresh
PROPERTIES
    ImplementsMessageIds
    ShutdownKeepsMessages
