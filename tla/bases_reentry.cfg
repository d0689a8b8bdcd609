SPECIFICATION Spec
CONSTANTS
    Child = {t}
    Host = host
    Id <- Ids
    Programs <- Reentering
CHECK_DEADLOCK FALSE
INVARIANTS
    NoDeadNodes
