SPECIFICATION Spec
CONSTANTS
    Scalars <- SomeScalars
    MaxTypes = 2
    MaxParts = 3
    Counts = {0, 3}
INVARIANTS TypeOK FieldsApart LayoutsAgree
