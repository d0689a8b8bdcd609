SPECIFICATION Spec
CONSTANTS
    Cell = {driver, c1, c2}
    Driver = driver
    Fd = {f0, f1, f2}
    Stdin = f0
    NoCont = nocont
    Programs <- MCPrograms
SYMMETRY InputSymmetry
CHECK_DEADLOCK FALSE
INVARIANTS
    HeadsInStep
    TypeOK
    InputMatchesStack
    DescriptorsMatchInput
PROPERTIES
    EofIsSticky
