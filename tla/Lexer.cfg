SPECIFICATION Spec
CONSTANTS
    Sources <- Texts
    Words <- AsIsAWord
INVARIANTS TypeOK MaximalMunch
PROPERTY CommentsNest
