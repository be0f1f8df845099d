SPECIFICATION Spec
CONSTANTS
    Vars = {x, y, z}
    x = x
    y = y
    z = z
    Dialects <- EveryDialect
    MaxStmts = 5
    MaxNest = 2
SYMMETRY Identifiers
CHECK_DEADLOCK FALSE
INVARIANT TypeOK
INVARIANT NothingRecorded
 
