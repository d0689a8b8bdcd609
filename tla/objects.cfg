SPECIFICATION Spec
CONSTANTS
    Programs <- AllPrograms
    Decls <- AllDecls
    Sizes = {0, 1, 2, 3}
    DescribedMax = 2
CHECK_DEADLOCK FALSE
INVARIANTS
    CrashesForCause
    LiveStays
    PinsHold
PROPERTIES
    CollectsTheRest
