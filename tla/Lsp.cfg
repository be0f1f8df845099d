SPECIFICATION Spec
CONSTANTS
    Uris = {u, v, w}
    Texts = {good, bad}
    Parses = {good}
    Numbers <- MCNumbers
    Frames <- AllFrames
    FirstCap = 2
    MaxBuffers = 3
    MaxFrames = 1
SYMMETRY DocumentNames
INVARIANTS
    TypeOK
    AstOfLiveText
    StoreIsEditors
