SPECIFICATION Spec
CONSTANTS
  Threads = {t1, t2}
  NoThread = NoThread
  ConnectAlone = FALSE
  MaxGames = 2
  MaxFrames = 2
INVARIANT
  BoundThreadTouches
