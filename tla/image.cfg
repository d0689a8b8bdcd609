SPECIFICATION Spec
CONSTANTS
    Graphs <- AllHeaps
    Caps <- AllCaps
    WordBytes = 2
    MinSlots = 2
    Align = 2
    Address <- Addresses
    ExternKeys = 1
CHECK_DEADLOCK FALSE
INVARIANTS
    RoundTrip
    NamedOnce
    NoOverrun
    RefusedForCause
    HalfEmpty
