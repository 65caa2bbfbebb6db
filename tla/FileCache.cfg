CONSTANTS
    Byte = {0, 1}
    Junk = 0
    MaxSize = 4
    CacheSize = 2
    Modes = {"read", "append", "readwrite", "readplus"}
    ElementSizes = {1, 2}
    MaxElements = 1
    Contents <- MCContents
    Faults = {"write", "read", "flush", "memory"}
    ReadAhead = FALSE
SPECIFICATION Spec
INVARIANTS WellFormed NativePositionIsTrue CacheAgrees
PROPERTIES IsStoredFile CallsReturn
CHECK_DEADLOCK FALSE
