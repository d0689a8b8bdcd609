SPECIFICATION Spec
VIEW MCView
CONSTANTS
    a = a
    c = c
    h = h
    t = t
    Bases = {h, t}
    Spellings = {1, 2}
    Atoms <- MCAtoms
    Params <- MCParams
    Args <- MCArgs
    Programs <- MCPrograms
    Unbound = Unbound
INVARIANTS
    InternedOnce
    FoundWhereFiled
PROPERTIES
    ImplementsMap
