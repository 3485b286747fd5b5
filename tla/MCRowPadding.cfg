\* A row that ends in padding, as bwapi_unittype_row does, and hosts whose
\* headers are aligned like it.
SPECIFICATION Spec
CONSTANTS
    Word = 2
    Fields = 3
    Align = 4
    Total = 3
    MemBytes = 42
    Strides <- HeaderStrides
    Caps <- HostCaps
INVARIANT HasFieldTruthful
