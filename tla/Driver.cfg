SPECIFICATION Spec
CONSTANTS
    Capacity = 3
    MaxMade = 5
INVARIANTS TypeOK ErrorsStopOutput
