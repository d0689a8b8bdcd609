SPECIFICATION Spec
CONSTANTS
    Child = {t, u}
    Host = host
    Id <- Ids
    Programs <- MCPrograms
CHECK_DEADLOCK FALSE
INVARIANTS
    TypeOK
    HandlersAreTheStack
    EnvMatchesStack
    UncaughtUnguarded
    MarkWalksLiveFrames
PROPERTIES
    CatchesInnermost
