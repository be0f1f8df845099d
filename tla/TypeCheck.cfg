SPECIFICATION Spec
CONSTANTS
    Names = {"x"}
    Annotations <- SomeAnnotations
    NameKinds = {TRUE, FALSE}
    MaxCells = 2
    MaxValues = 2
    MaxScopes = 3
    MaxErrors = 1
    MaxSteps = 5
INVARIANTS TypeOK ResolveEnds
PROPERTY TypesSettle
