SPECIFICATION Spec
CONSTANTS
    Exprs <- MCExprs
    Depth <- MCDepth
    Values <- MCValues
    Conds <- MCConds
    Arguments <- MCArguments
    Stride = 6
    MaxStmts = 4
    MaxNest = 2
CHECK_DEADLOCK FALSE
INVARIANTS
    TypeOK
    OperandsDefinedButCalls
    PathsAgree
