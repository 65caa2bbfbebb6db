CONSTANTS
    FileSize = 8
    BufferSize = 2
    BufferCount = 4
    ReadSize = 1
    ElementSizes = {2}
    MaxElements = 1
    Targets = {0, 3}
    Faults = {}
    NDebug = TRUE
SPECIFICATION Spec
INVARIANTS GivesFile
CHECK_DEADLOCK FALSE
