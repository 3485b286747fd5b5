\* Hosts older and newer than the DLL: a row without padding.
SPECIFICATION Spec
CONSTANTS
    Word = 2
    Fields = 3
    Align = 1
    Total = 3
    MemBytes = 42
    Strides <- HostStrides
    Caps <- HostCaps
INVARIANTS
    OnlyWholeRows
    ConsumerView
    Reusable
