SPECIFICATION Spec
CONSTANTS
    Names = {x, y}
    x = x
    y = y
    MaxShared = 2
    MaxErrors = 2
    MaxDepth = 2
INVARIANTS
    TypeOK
    Exclusive
PROPERTY
    FollowsProtocol
