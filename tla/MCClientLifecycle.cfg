SPECIFICATION Spec
CONSTANTS
  Threads = {t1, t2, t3}
  NoThread = NoThread
  ConnectAlone = TRUE
  MaxGames = 2
  MaxFrames = 2
SYMMETRY ThreadSymmetry
INVARIANTS
  TypeOK
  NoDanglingGame
  OwnerTouches
  SnapshotFresh
  BoundIffConnected
PROPERTIES
  ConnectTruthful
  ImplementsConnection
