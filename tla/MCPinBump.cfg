SPECIFICATION Spec
CONSTANTS
    Family0 <- Families
    MaxChanges <- Changes
INVARIANTS
    DenseIsComplete
