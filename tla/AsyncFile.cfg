CONSTANTS
    FileSize = 4
    BufferSize = 2
    BufferCount = 4
    ReadSize = 1
    ElementSizes = {2}
    MaxElements = 1
    Targets = {0, 3}
    Faults = {"open", "thread", "seek"}
    NDebug = FALSE
SPECIFICATION Spec
INVARIANTS WellPlaced
PROPERTIES IsStoredFile CloseReturns
CHECK_DEADLOCK FALSE
