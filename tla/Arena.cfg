SPECIFICATION Spec
CONSTANTS
    BlockSize = 8
    HeaderSize = 2
    Requests <- MCRequests
    Aligns <- MCAligns
    MaxSerial = 4
    MaxMarks = 2
INVARIANTS
    TypeOK
    Disjoint
    MarksSeparate
    Accounting
PROPERTY
    ImplementsRegion
