SPECIFICATION Spec
CONSTANTS
    Tokens <- AllTokens
    Scripts <- Beginnings
    MaxTokens = 2
    MaxErrors = 2
INVARIANTS TypeOK CleanMeansBalanced Grouping
PROPERTY ParsingEnds
