SPECIFICATION Spec
CONSTANTS
  Threads = {t1, t2}
  NoThread = NoThread
  callback = callback
  NoCallback = NoCallback
  NoHandler <- MCNoHandler
  Handlers <- MCHandlers
  MaxDepth = 4
  MaxGames = 2
  MaxEra = 1
SYMMETRY ThreadSymmetry
INVARIANTS
  TypeOK
  TouchesLiveGame
  NeverSilent
  RaisesAtTheCall
  NeutralString
PROPERTIES
  FirstRuleReported
  OwnerEndsConnection
