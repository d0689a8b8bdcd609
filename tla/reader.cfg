SPECIFICATION Spec
CONSTANTS
    Sources <- AllSources
    Modes = {"stream", "string"}
    Orders <- BothOrders
CHECK_DEADLOCK FALSE
INVARIANTS
    TypeOK
    ReadsBack
    LinesRight
    NoReadAhead
PROPERTIES
    Terminates
