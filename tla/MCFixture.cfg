\* Neutrals over each other, and both tables filled.
SPECIFICATION Spec
CONSTANTS
    Owners = {"self"}
    Types <- TwoTypes
    Width <- Wide
    Height <- High
    Tiles <- Corner
    Strays <- OneStray
    TableSize = 3
    MAX_EVENTS = 3
    MaxAccepted = 5
    MaxNeutrals = 4
INVARIANTS
    TypeOK
    NoMisalignedStack
    PhantomsAreHarmless
    EveryUnitDiscovered
    DeliveredOnceInOrder
PROPERTY FrameFitsOncePumped
