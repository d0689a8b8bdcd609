SPECIFICATION Spec
CONSTANTS
    Env = {root, e1, e2, e3}
    Root = root
    NoEnv = noenv
    NoCont = nocont
    Programs <- ApplyCollects
    MaxDepth = 2
SYMMETRY EnvSymmetry
INVARIANTS
    NothingSwept
CHECK_DEADLOCK FALSE
