SPECIFICATION Spec
CONSTANTS
    Obj = {o1, o2, o3}
    MaxRefs = 1
    MarkHook = {"alloc", "store", "raise"}
    FreeHook = {"alloc"}
    Raw = "paired"
SYMMETRY ObjSymmetry
INVARIANTS
    TypeOK
    NothingLiveFreed
    NoMarkLeft
PROPERTIES
    SweepIsExact
