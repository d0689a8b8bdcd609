SPECIFICATION Spec
CONSTANTS
    Env = {root, e1, e2, e3}
    Root = root
    NoEnv = noenv
    NoCont = nocont
    Programs <- MCPrograms
    MaxDepth = 3
SYMMETRY EnvSymmetry
INVARIANTS
    TypeOK
    ChainMatchesStack
    HandlersOnStack
    SaveStackMatches
    TcoClean
    LocalsRooted
PROPERTIES
    EvalKeepsItsPromise
CHECK_DEADLOCK FALSE
