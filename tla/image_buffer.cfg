SPECIFICATION Spec
CONSTANTS
    Graphs <- Buffers
    Caps <- Ample
    WordBytes = 2
    MinSlots = 2
    Align = 2
    Address <- Addresses
    ExternKeys = 1
CHECK_DEADLOCK FALSE
INVARIANTS
    LoadsOuters
