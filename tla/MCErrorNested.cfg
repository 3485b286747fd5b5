SPECIFICATION Spec
CONSTANTS
  Threads = {t1, t2}
  NoThread = NoThread
  c1 = c1
  c2 = c2
  Codes = {c1, c2}
  None = None
  m1 = m1
  m2 = m2
  Texts = {m1, m2}
  Empty = Empty
  Errors <- MCErrors
  cbA = cbA
  cbB = cbB
  Callbacks = {cbA, cbB}
  NoCallback = NoCallback
  userA = userA
  userB = userB
  Users = {userA, userB}
  NoUser = NoUser
  Handlers <- MCOneHandler
  LogHandlers <- MCNoHandler
  MaxDepth = 3
  MaxEra = 3
SYMMETRY ThreadSymmetry
INVARIANTS
  DepthCountsCallbacks
  OneNoticePerEra
  NoticeMatchesChannel
