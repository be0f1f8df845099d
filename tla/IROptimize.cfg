SPECIFICATION Spec
CONSTANTS
    Literals = {2}
    Inputs <- MCInputs
    BinOps = {"mul", "div"}
    MaxInsts = 4
    LongBits = 6
    IntBits = 4
CHECK_DEADLOCK FALSE
INVARIANTS
    TypeOK
    MeaningKept
