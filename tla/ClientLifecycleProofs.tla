------------------------ MODULE ClientLifecycleProofs ------------------------
(* Proofs about ClientLifecycle, for any threads and any number of           *)
(* connections and frames.                                                   *)
EXTENDS ClientLifecycle, TLAPS

\* Every step of a thread keeps the types.
LEMMA TypeStep ==
  ASSUME TypeOK,
         NEW t \in Threads, HostStep(t) \/ LibraryStep(t)
  PROVE  TypeOK'
<1> USE DEF TypeOK, Points, Codes, None, NoGame, NoEvents, server, client, Connecting, Updating, Disconnecting, Calling
<1>1. CASE HostStep(t)
  BY <1>1 DEF HostStep, Call, MayCall, Goto
<1>2. CASE ConnectCheck(t)
  BY <1>2 DEF ConnectCheck, Latch, Goto
<1>3. CASE ConnectFails(t)
  BY <1>3 DEF ConnectFails, Goto
<1>4. CASE ConnectOpens(t)
  <2>1. games' \in Nat /\ game' \in Nat /\ frame' \in Nat
    BY <1>4 DEF ConnectOpens
  <2>2. pc' \in [Threads -> Points] /\ connected' \in BOOLEAN /\ link' \in BOOLEAN
    BY <1>4 DEF ConnectOpens, Goto
  <2> QED
    BY <1>4, <2>1, <2>2 DEF ConnectOpens
<1>5. CASE ConnectBind(t)
  BY <1>5 DEF ConnectBind, Goto
<1>6. CASE ConnectClear(t)
  BY <1>6 DEF ConnectClear, Goto
<1>7. CASE UpdateThread(t)
  BY <1>7 DEF UpdateThread, CheckThread, OnAbiThread, Latch, Goto
<1>8. CASE UpdateGame(t)
  BY <1>8 DEF UpdateGame, CheckGame, Latch, Goto
<1>9. CASE UpdateClear(t)
  BY <1>9 DEF UpdateClear, Goto
<1>10. CASE UpdateFrame(t)
  BY <1>10 DEF UpdateFrame, Goto
<1>11. CASE UpdateGone(t)
  BY <1>11 DEF UpdateGone, TakenDown, Goto
<1>12. CASE UpdateThrows(t)
  <2>1. connected' \in BOOLEAN /\ leftBound' \in BOOLEAN /\ link' = link /\ serverUp' = serverUp
    BY <1>12 DEF UpdateThrows, TakenDown
  <2>2. game' \in Nat /\ games' \in Nat /\ frame' \in Nat
    BY <1>12 DEF UpdateThrows, TakenDown
  <2> QED
    BY <1>12, <2>1, <2>2 DEF UpdateThrows, Latch, Goto
<1>13. CASE UpdateCheck(t)
  BY <1>13 DEF UpdateCheck, Goto
<1>14. CASE UpdateSnapshot(t)
  BY <1>14 DEF UpdateSnapshot, Goto
<1>15. CASE DisconnectThread(t)
  BY <1>15 DEF DisconnectThread, CheckThread, OnAbiThread, Latch, Goto
<1>16. CASE DisconnectClear(t)
  BY <1>16 DEF DisconnectClear, Goto
<1>17. CASE DisconnectClient(t)
  BY <1>17 DEF DisconnectClient, TakenDown, Goto
<1>18. CASE DisconnectUnbind(t)
  BY <1>18 DEF DisconnectUnbind, Goto
<1>19. CASE CallThread(t)
  BY <1>19 DEF CallThread, CheckThread, OnAbiThread, Latch, Goto
<1>20. CASE CallGame(t)
  BY <1>20 DEF CallGame, CheckGame, Latch, Goto
<1>21. CASE CallResolve(t)
  BY <1>21 DEF CallResolve, Latch, Goto
<1>22. CASE CallUse(t)
  BY <1>22 DEF CallUse, Latch, Goto
<1>23. CASE ConnectThrows(t)
  BY <1>23 DEF ConnectThrows, Latch, Goto
<1>24. CASE SnapshotThrows(t)
  BY <1>24 DEF SnapshotThrows, Latch, Goto
<1>25. CASE DisconnectThrows(t)
  <2>1. /\ connected' \in BOOLEAN /\ leftBound' \in BOOLEAN /\ link' \in BOOLEAN
        /\ serverUp' = serverUp
    BY <1>25 DEF DisconnectThrows, TakenDown
  <2>2. game' \in Nat /\ games' \in Nat /\ frame' \in Nat
    BY <1>25 DEF DisconnectThrows, TakenDown
  <2> QED
    BY <1>25, <2>1, <2>2 DEF DisconnectThrows, Latch, Goto
<1> QED
  BY <1>1, <1>2, <1>3, <1>4, <1>5, <1>6, <1>7, <1>8, <1>9, <1>10, <1>11,
     <1>12, <1>13, <1>14, <1>15, <1>16, <1>17, <1>18, <1>19, <1>20, <1>21, <1>22,
     <1>23, <1>24, <1>25 DEF LibraryStep

\* BroodwarPtr and the client's flag change together.
LEMMA GameStep ==
  ASSUME TypeOK, GameIffConnected,
         NEW t \in Threads, HostStep(t) \/ LibraryStep(t)
  PROVE  GameIffConnected'
<1> USE DEF TypeOK, GameIffConnected, client, NoGame
<1>1. CASE HostStep(t)
  BY <1>1 DEF HostStep, Call, MayCall, Goto
<1>2. CASE ConnectCheck(t)
  BY <1>2 DEF ConnectCheck, Latch, Goto
<1>3. CASE ConnectFails(t)
  BY <1>3 DEF ConnectFails, Goto
<1>4. CASE ConnectOpens(t)
  BY <1>4 DEF ConnectOpens, Goto
<1>5. CASE ConnectBind(t)
  BY <1>5 DEF ConnectBind, Goto
<1>6. CASE ConnectClear(t)
  BY <1>6 DEF ConnectClear, Goto
<1>7. CASE UpdateThread(t)
  BY <1>7 DEF UpdateThread, CheckThread, OnAbiThread, Latch, Goto
<1>8. CASE UpdateGame(t)
  BY <1>8 DEF UpdateGame, CheckGame, Latch, Goto
<1>9. CASE UpdateClear(t)
  BY <1>9 DEF UpdateClear, Goto
<1>10. CASE UpdateFrame(t)
  BY <1>10 DEF UpdateFrame, Goto
<1>11. CASE UpdateGone(t)
  BY <1>11 DEF UpdateGone, TakenDown, Goto
<1>12. CASE UpdateThrows(t)
  BY <1>12 DEF UpdateThrows, TakenDown, Latch, Goto
<1>13. CASE UpdateCheck(t)
  BY <1>13 DEF UpdateCheck, Goto
<1>14. CASE UpdateSnapshot(t)
  BY <1>14 DEF UpdateSnapshot, Goto
<1>15. CASE DisconnectThread(t)
  BY <1>15 DEF DisconnectThread, CheckThread, OnAbiThread, Latch, Goto
<1>16. CASE DisconnectClear(t)
  BY <1>16 DEF DisconnectClear, Goto
<1>17. CASE DisconnectClient(t)
  BY <1>17 DEF DisconnectClient, TakenDown, Goto
<1>18. CASE DisconnectUnbind(t)
  BY <1>18 DEF DisconnectUnbind, Goto
<1>19. CASE CallThread(t)
  BY <1>19 DEF CallThread, CheckThread, OnAbiThread, Latch, Goto
<1>20. CASE CallGame(t)
  BY <1>20 DEF CallGame, CheckGame, Latch, Goto
<1>21. CASE CallResolve(t)
  BY <1>21 DEF CallResolve, Latch, Goto
<1>22. CASE CallUse(t)
  BY <1>22 DEF CallUse, Latch, Goto
<1>23. CASE ConnectThrows(t)
  BY <1>23 DEF ConnectThrows, Latch, Goto
<1>24. CASE SnapshotThrows(t)
  BY <1>24 DEF SnapshotThrows, Latch, Goto
<1>25. CASE DisconnectThrows(t)
  BY <1>25 DEF DisconnectThrows, TakenDown, Latch, Goto
<1> QED
  BY <1>1, <1>2, <1>3, <1>4, <1>5, <1>6, <1>7, <1>8, <1>9, <1>10, <1>11,
     <1>12, <1>13, <1>14, <1>15, <1>16, <1>17, <1>18, <1>19, <1>20, <1>21, <1>22,
     <1>23, <1>24, <1>25 DEF LibraryStep

\* The host's discipline keeps other calls out of a connect.
LEMMA AloneStep ==
  ASSUME ConnectAlone, TypeOK, ConnectsAlone,
         NEW t \in Threads, HostStep(t) \/ LibraryStep(t)
  PROVE  ConnectsAlone'
<1> USE DEF TypeOK, Points, ConnectsAlone, Connecting, Updating, Disconnecting, Calling
<1>1. CASE HostStep(t)
  BY <1>1 DEF HostStep, Call, MayCall, Goto
<1>2. CASE ConnectCheck(t)
  BY <1>2 DEF ConnectCheck, Latch, Goto
<1>3. CASE ConnectFails(t)
  BY <1>3 DEF ConnectFails, Goto
<1>4. CASE ConnectOpens(t)
  BY <1>4 DEF ConnectOpens, Goto
<1>5. CASE ConnectBind(t)
  BY <1>5 DEF ConnectBind, Goto
<1>6. CASE ConnectClear(t)
  BY <1>6 DEF ConnectClear, Goto
<1>7. CASE UpdateThread(t)
  BY <1>7 DEF UpdateThread, CheckThread, OnAbiThread, Latch, Goto
<1>8. CASE UpdateGame(t)
  BY <1>8 DEF UpdateGame, CheckGame, Latch, Goto
<1>9. CASE UpdateClear(t)
  BY <1>9 DEF UpdateClear, Goto
<1>10. CASE UpdateFrame(t)
  BY <1>10 DEF UpdateFrame, Goto
<1>11. CASE UpdateGone(t)
  BY <1>11 DEF UpdateGone, TakenDown, Goto
<1>12. CASE UpdateThrows(t)
  BY <1>12 DEF UpdateThrows, TakenDown, Latch, Goto
<1>13. CASE UpdateCheck(t)
  BY <1>13 DEF UpdateCheck, Goto
<1>14. CASE UpdateSnapshot(t)
  BY <1>14 DEF UpdateSnapshot, Goto
<1>15. CASE DisconnectThread(t)
  BY <1>15 DEF DisconnectThread, CheckThread, OnAbiThread, Latch, Goto
<1>16. CASE DisconnectClear(t)
  BY <1>16 DEF DisconnectClear, Goto
<1>17. CASE DisconnectClient(t)
  BY <1>17 DEF DisconnectClient, TakenDown, Goto
<1>18. CASE DisconnectUnbind(t)
  BY <1>18 DEF DisconnectUnbind, Goto
<1>19. CASE CallThread(t)
  BY <1>19 DEF CallThread, CheckThread, OnAbiThread, Latch, Goto
<1>20. CASE CallGame(t)
  BY <1>20 DEF CallGame, CheckGame, Latch, Goto
<1>21. CASE CallResolve(t)
  BY <1>21 DEF CallResolve, Latch, Goto
<1>22. CASE CallUse(t)
  BY <1>22 DEF CallUse, Latch, Goto
<1>23. CASE ConnectThrows(t)
  BY <1>23 DEF ConnectThrows, Latch, Goto
<1>24. CASE SnapshotThrows(t)
  BY <1>24 DEF SnapshotThrows, Latch, Goto
<1>25. CASE DisconnectThrows(t)
  BY <1>25 DEF DisconnectThrows, TakenDown, Latch, Goto
<1> QED
  BY <1>1, <1>2, <1>3, <1>4, <1>5, <1>6, <1>7, <1>8, <1>9, <1>10, <1>11,
     <1>12, <1>13, <1>14, <1>15, <1>16, <1>17, <1>18, <1>19, <1>20, <1>21, <1>22,
     <1>23, <1>24, <1>25 DEF LibraryStep

\* Nothing undoes what a connect has done so far.
LEMMA ConnectStep ==
  ASSUME ConnectAlone, TypeOK, ConnectsAlone, ConnectProgress,
         NEW t \in Threads, HostStep(t) \/ LibraryStep(t)
  PROVE  ConnectProgress'
<1> USE DEF TypeOK, Points, ConnectsAlone, ConnectProgress, Connecting, Updating, Disconnecting, Calling, client
<1>1. CASE HostStep(t)
  BY <1>1 DEF HostStep, Call, MayCall, Goto
<1>2. CASE ConnectCheck(t)
  BY <1>2 DEF ConnectCheck, Latch, Goto
<1>3. CASE ConnectFails(t)
  BY <1>3 DEF ConnectFails, Goto
<1>4. CASE ConnectOpens(t)
  BY <1>4 DEF ConnectOpens, Goto
<1>5. CASE ConnectBind(t)
  BY <1>5 DEF ConnectBind, Goto
<1>6. CASE ConnectClear(t)
  BY <1>6 DEF ConnectClear, Goto
<1>7. CASE UpdateThread(t)
  BY <1>7 DEF UpdateThread, CheckThread, OnAbiThread, Latch, Goto
<1>8. CASE UpdateGame(t)
  BY <1>8 DEF UpdateGame, CheckGame, Latch, Goto
<1>9. CASE UpdateClear(t)
  BY <1>9 DEF UpdateClear, Goto
<1>10. CASE UpdateFrame(t)
  BY <1>10 DEF UpdateFrame, Goto
<1>11. CASE UpdateGone(t)
  BY <1>11 DEF UpdateGone, TakenDown, Goto
<1>12. CASE UpdateThrows(t)
  BY <1>12 DEF UpdateThrows, TakenDown, Latch, Goto
<1>13. CASE UpdateCheck(t)
  BY <1>13 DEF UpdateCheck, Goto
<1>14. CASE UpdateSnapshot(t)
  BY <1>14 DEF UpdateSnapshot, Goto
<1>15. CASE DisconnectThread(t)
  BY <1>15 DEF DisconnectThread, CheckThread, OnAbiThread, Latch, Goto
<1>16. CASE DisconnectClear(t)
  BY <1>16 DEF DisconnectClear, Goto
<1>17. CASE DisconnectClient(t)
  BY <1>17 DEF DisconnectClient, TakenDown, Goto
<1>18. CASE DisconnectUnbind(t)
  BY <1>18 DEF DisconnectUnbind, Goto
<1>19. CASE CallThread(t)
  BY <1>19 DEF CallThread, CheckThread, OnAbiThread, Latch, Goto
<1>20. CASE CallGame(t)
  BY <1>20 DEF CallGame, CheckGame, Latch, Goto
<1>21. CASE CallResolve(t)
  BY <1>21 DEF CallResolve, Latch, Goto
<1>22. CASE CallUse(t)
  BY <1>22 DEF CallUse, Latch, Goto
<1>23. CASE ConnectThrows(t)
  BY <1>23 DEF ConnectThrows, Latch, Goto
<1>24. CASE SnapshotThrows(t)
  BY <1>24 DEF SnapshotThrows, Latch, Goto
<1>25. CASE DisconnectThrows(t)
  BY <1>25 DEF DisconnectThrows, TakenDown, Latch, Goto
<1> QED
  BY <1>1, <1>2, <1>3, <1>4, <1>5, <1>6, <1>7, <1>8, <1>9, <1>10, <1>11,
     <1>12, <1>13, <1>14, <1>15, <1>16, <1>17, <1>18, <1>19, <1>20, <1>21, <1>22,
     <1>23, <1>24, <1>25 DEF LibraryStep

\* The binding comes after the connection and goes after it.
LEMMA BindingStep ==
  ASSUME ConnectAlone, TypeOK, GameIffConnected, ConnectsAlone,
         ConnectProgress, BindingFollows, ChecksStillHold,
         NEW t \in Threads, HostStep(t) \/ LibraryStep(t)
  PROVE  BindingFollows'
<1> USE ThreadAssumption DEF TypeOK, Points, GameIffConnected, ConnectsAlone, ConnectProgress, BindingFollows,
      ChecksStillHold, PastThread, PastGame, NoGame, Connecting, Updating, Disconnecting, Calling, client
<1>1. CASE HostStep(t)
  BY <1>1 DEF HostStep, Call, MayCall, Goto
<1>2. CASE ConnectCheck(t)
  BY <1>2 DEF ConnectCheck, Latch, Goto
<1>3. CASE ConnectFails(t)
  BY <1>3 DEF ConnectFails, Goto
<1>4. CASE ConnectOpens(t)
  BY <1>4 DEF ConnectOpens, Goto
<1>5. CASE ConnectBind(t)
  BY <1>5 DEF ConnectBind, Goto
<1>6. CASE ConnectClear(t)
  BY <1>6 DEF ConnectClear, Goto
<1>7. CASE UpdateThread(t)
  BY <1>7 DEF UpdateThread, CheckThread, OnAbiThread, Latch, Goto
<1>8. CASE UpdateGame(t)
  BY <1>8 DEF UpdateGame, CheckGame, Latch, Goto
<1>9. CASE UpdateClear(t)
  BY <1>9 DEF UpdateClear, Goto
<1>10. CASE UpdateFrame(t)
  BY <1>10 DEF UpdateFrame, Goto
<1>11. CASE UpdateGone(t)
  BY <1>11 DEF UpdateGone, TakenDown, Goto
<1>12. CASE UpdateThrows(t)
  BY <1>12 DEF UpdateThrows, TakenDown, Latch, Goto
<1>13. CASE UpdateCheck(t)
  BY <1>13 DEF UpdateCheck, Goto
<1>14. CASE UpdateSnapshot(t)
  BY <1>14 DEF UpdateSnapshot, Goto
<1>15. CASE DisconnectThread(t)
  BY <1>15 DEF DisconnectThread, CheckThread, OnAbiThread, Latch, Goto
<1>16. CASE DisconnectClear(t)
  BY <1>16 DEF DisconnectClear, Goto
<1>17. CASE DisconnectClient(t)
  BY <1>17 DEF DisconnectClient, TakenDown, Goto
<1>18. CASE DisconnectUnbind(t)
  BY <1>18 DEF DisconnectUnbind, Goto
<1>19. CASE CallThread(t)
  BY <1>19 DEF CallThread, CheckThread, OnAbiThread, Latch, Goto
<1>20. CASE CallGame(t)
  BY <1>20 DEF CallGame, CheckGame, Latch, Goto
<1>21. CASE CallResolve(t)
  BY <1>21 DEF CallResolve, Latch, Goto
<1>22. CASE CallUse(t)
  BY <1>22 DEF CallUse, Latch, Goto
<1>23. CASE ConnectThrows(t)
  BY <1>23 DEF ConnectThrows, Latch, Goto
<1>24. CASE SnapshotThrows(t)
  BY <1>24 DEF SnapshotThrows, Latch, Goto
<1>25. CASE DisconnectThrows(t)
  BY <1>25 DEF DisconnectThrows, TakenDown, Latch, Goto
<1> QED
  BY <1>1, <1>2, <1>3, <1>4, <1>5, <1>6, <1>7, <1>8, <1>9, <1>10, <1>11,
     <1>12, <1>13, <1>14, <1>15, <1>16, <1>17, <1>18, <1>19, <1>20, <1>21, <1>22,
     <1>23, <1>24, <1>25 DEF LibraryStep

\* What a thread's checks have established holds until its call is over.
LEMMA ChecksStep ==
  ASSUME ConnectAlone, TypeOK, GameIffConnected, ConnectsAlone,
         ConnectProgress, BindingFollows, ChecksStillHold,
         NEW t \in Threads, HostStep(t) \/ LibraryStep(t)
  PROVE  ChecksStillHold'
<1> USE ThreadAssumption DEF TypeOK, Points, GameIffConnected, ConnectsAlone, ConnectProgress, BindingFollows,
      ChecksStillHold, PastThread, PastGame, NoGame, Connecting, Updating, Disconnecting, Calling, client
<1>1. CASE HostStep(t)
  BY <1>1 DEF HostStep, Call, MayCall, Goto
<1>2. CASE ConnectCheck(t)
  BY <1>2 DEF ConnectCheck, Latch, Goto
<1>3. CASE ConnectFails(t)
  BY <1>3 DEF ConnectFails, Goto
<1>4. CASE ConnectOpens(t)
  BY <1>4 DEF ConnectOpens, Goto
<1>5. CASE ConnectBind(t)
  BY <1>5 DEF ConnectBind, Goto
<1>6. CASE ConnectClear(t)
  BY <1>6 DEF ConnectClear, Goto
<1>7. CASE UpdateThread(t)
  BY <1>7 DEF UpdateThread, CheckThread, OnAbiThread, Latch, Goto
<1>8. CASE UpdateGame(t)
  BY <1>8 DEF UpdateGame, CheckGame, Latch, Goto
<1>9. CASE UpdateClear(t)
  BY <1>9 DEF UpdateClear, Goto
<1>10. CASE UpdateFrame(t)
  BY <1>10 DEF UpdateFrame, Goto
<1>11. CASE UpdateGone(t)
  BY <1>11 DEF UpdateGone, TakenDown, Goto
<1>12. CASE UpdateThrows(t)
  BY <1>12 DEF UpdateThrows, TakenDown, Latch, Goto
<1>13. CASE UpdateCheck(t)
  BY <1>13 DEF UpdateCheck, Goto
<1>14. CASE UpdateSnapshot(t)
  BY <1>14 DEF UpdateSnapshot, Goto
<1>15. CASE DisconnectThread(t)
  BY <1>15 DEF DisconnectThread, CheckThread, OnAbiThread, Latch, Goto
<1>16. CASE DisconnectClear(t)
  BY <1>16 DEF DisconnectClear, Goto
<1>17. CASE DisconnectClient(t)
  BY <1>17 DEF DisconnectClient, TakenDown, Goto
<1>18. CASE DisconnectUnbind(t)
  BY <1>18 DEF DisconnectUnbind, Goto
<1>19. CASE CallThread(t)
  BY <1>19 DEF CallThread, CheckThread, OnAbiThread, Latch, Goto
<1>20. CASE CallGame(t)
  BY <1>20 DEF CallGame, CheckGame, Latch, Goto
<1>21. CASE CallResolve(t)
  BY <1>21 DEF CallResolve, Latch, Goto
<1>22. CASE CallUse(t)
  BY <1>22 DEF CallUse, Latch, Goto
<1>23. CASE ConnectThrows(t)
  BY <1>23 DEF ConnectThrows, Latch, Goto
<1>24. CASE SnapshotThrows(t)
  BY <1>24 DEF SnapshotThrows, Latch, Goto
<1>25. CASE DisconnectThrows(t)
  BY <1>25 DEF DisconnectThrows, TakenDown, Latch, Goto
<1> QED
  BY <1>1, <1>2, <1>3, <1>4, <1>5, <1>6, <1>7, <1>8, <1>9, <1>10, <1>11,
     <1>12, <1>13, <1>14, <1>15, <1>16, <1>17, <1>18, <1>19, <1>20, <1>21, <1>22,
     <1>23, <1>24, <1>25 DEF LibraryStep

\* The events are cleared before the game can move or go, and stay so.
LEMMA EventsStep ==
  ASSUME ConnectAlone, TypeOK, ConnectsAlone, ConnectProgress, ChecksStillHold, EventsCleared,
         NEW t \in Threads, HostStep(t) \/ LibraryStep(t)
  PROVE  EventsCleared'
<1> USE ThreadAssumption DEF TypeOK, Points, ConnectsAlone, ConnectProgress, ChecksStillHold, EventsCleared,
      PastThread, PastGame, NoEvents, Connecting, Updating, Disconnecting, Calling, client
<1>1. CASE HostStep(t)
  BY <1>1 DEF HostStep, Call, MayCall, Goto
<1>2. CASE ConnectCheck(t)
  BY <1>2 DEF ConnectCheck, Latch, Goto
<1>3. CASE ConnectFails(t)
  BY <1>3 DEF ConnectFails, Goto
<1>4. CASE ConnectOpens(t)
  BY <1>4 DEF ConnectOpens, Goto
<1>5. CASE ConnectBind(t)
  BY <1>5 DEF ConnectBind, Goto
<1>6. CASE ConnectClear(t)
  BY <1>6 DEF ConnectClear, Goto
<1>7. CASE UpdateThread(t)
  BY <1>7 DEF UpdateThread, CheckThread, OnAbiThread, Latch, Goto
<1>8. CASE UpdateGame(t)
  BY <1>8 DEF UpdateGame, CheckGame, Latch, Goto
<1>9. CASE UpdateClear(t)
  BY <1>9 DEF UpdateClear, Goto
<1>10. CASE UpdateFrame(t)
  BY <1>10 DEF UpdateFrame, Goto
<1>11. CASE UpdateGone(t)
  BY <1>11 DEF UpdateGone, TakenDown, Goto
<1>12. CASE UpdateThrows(t)
  BY <1>12 DEF UpdateThrows, TakenDown, Latch, Goto
<1>13. CASE UpdateCheck(t)
  BY <1>13 DEF UpdateCheck, Goto
<1>14. CASE UpdateSnapshot(t)
  BY <1>14 DEF UpdateSnapshot, Goto
<1>15. CASE DisconnectThread(t)
  BY <1>15 DEF DisconnectThread, CheckThread, OnAbiThread, Latch, Goto
<1>16. CASE DisconnectClear(t)
  BY <1>16 DEF DisconnectClear, Goto
<1>17. CASE DisconnectClient(t)
  BY <1>17 DEF DisconnectClient, TakenDown, Goto
<1>18. CASE DisconnectUnbind(t)
  BY <1>18 DEF DisconnectUnbind, Goto
<1>19. CASE CallThread(t)
  BY <1>19 DEF CallThread, CheckThread, OnAbiThread, Latch, Goto
<1>20. CASE CallGame(t)
  BY <1>20 DEF CallGame, CheckGame, Latch, Goto
<1>21. CASE CallResolve(t)
  BY <1>21 DEF CallResolve, Latch, Goto
<1>22. CASE CallUse(t)
  BY <1>22 DEF CallUse, Latch, Goto
<1>23. CASE ConnectThrows(t)
  BY <1>23 DEF ConnectThrows, Latch, Goto
<1>24. CASE SnapshotThrows(t)
  BY <1>24 DEF SnapshotThrows, Latch, Goto
<1>25. CASE DisconnectThrows(t)
  BY <1>25 DEF DisconnectThrows, TakenDown, Latch, Goto
<1> QED
  BY <1>1, <1>2, <1>3, <1>4, <1>5, <1>6, <1>7, <1>8, <1>9, <1>10, <1>11,
     <1>12, <1>13, <1>14, <1>15, <1>16, <1>17, <1>18, <1>19, <1>20, <1>21, <1>22,
     <1>23, <1>24, <1>25 DEF LibraryStep

\* A snapshot is replaced before its frame is over.
LEMMA SnapshotStep ==
  ASSUME TypeOK, SnapshotFresh, EventsCleared,
         NEW t \in Threads, HostStep(t) \/ LibraryStep(t)
  PROVE  SnapshotFresh'
<1> USE DEF TypeOK, SnapshotFresh, EventsCleared, client
<1>1. CASE HostStep(t)
  BY <1>1 DEF HostStep, Call, MayCall, Goto
<1>2. CASE ConnectCheck(t)
  BY <1>2 DEF ConnectCheck, Latch, Goto
<1>3. CASE ConnectFails(t)
  BY <1>3 DEF ConnectFails, Goto
<1>4. CASE ConnectOpens(t)
  BY <1>4 DEF ConnectOpens, Goto
<1>5. CASE ConnectBind(t)
  BY <1>5 DEF ConnectBind, Goto
<1>6. CASE ConnectClear(t)
  BY <1>6 DEF ConnectClear, Goto
<1>7. CASE UpdateThread(t)
  BY <1>7 DEF UpdateThread, CheckThread, OnAbiThread, Latch, Goto
<1>8. CASE UpdateGame(t)
  BY <1>8 DEF UpdateGame, CheckGame, Latch, Goto
<1>9. CASE UpdateClear(t)
  BY <1>9 DEF UpdateClear, Goto
<1>10. CASE UpdateFrame(t)
  BY <1>10 DEF UpdateFrame, Goto
<1>11. CASE UpdateGone(t)
  BY <1>11 DEF UpdateGone, TakenDown, Goto
<1>12. CASE UpdateThrows(t)
  BY <1>12 DEF UpdateThrows, TakenDown, Latch, Goto
<1>13. CASE UpdateCheck(t)
  BY <1>13 DEF UpdateCheck, Goto
<1>14. CASE UpdateSnapshot(t)
  BY <1>14 DEF UpdateSnapshot, Goto
<1>15. CASE DisconnectThread(t)
  BY <1>15 DEF DisconnectThread, CheckThread, OnAbiThread, Latch, Goto
<1>16. CASE DisconnectClear(t)
  BY <1>16 DEF DisconnectClear, Goto
<1>17. CASE DisconnectClient(t)
  BY <1>17 DEF DisconnectClient, TakenDown, Goto
<1>18. CASE DisconnectUnbind(t)
  BY <1>18 DEF DisconnectUnbind, Goto
<1>19. CASE CallThread(t)
  BY <1>19 DEF CallThread, CheckThread, OnAbiThread, Latch, Goto
<1>20. CASE CallGame(t)
  BY <1>20 DEF CallGame, CheckGame, Latch, Goto
<1>21. CASE CallResolve(t)
  BY <1>21 DEF CallResolve, Latch, Goto
<1>22. CASE CallUse(t)
  BY <1>22 DEF CallUse, Latch, Goto
<1>23. CASE ConnectThrows(t)
  BY <1>23 DEF ConnectThrows, Latch, Goto
<1>24. CASE SnapshotThrows(t)
  BY <1>24 DEF SnapshotThrows, Latch, Goto
<1>25. CASE DisconnectThrows(t)
  BY <1>25 DEF DisconnectThrows, TakenDown, Latch, Goto
<1> QED
  BY <1>1, <1>2, <1>3, <1>4, <1>5, <1>6, <1>7, <1>8, <1>9, <1>10, <1>11,
     <1>12, <1>13, <1>14, <1>15, <1>16, <1>17, <1>18, <1>19, <1>20, <1>21, <1>22,
     <1>23, <1>24, <1>25 DEF LibraryStep

-----------------------------------------------------------------------------
LEMMA InitIInv == Init => IInv
<1> SUFFICES ASSUME Init PROVE IInv
  OBVIOUS
<1>1. \A t \in Threads : pc[t] = "host"
  BY DEF Init
<1>2. TypeOK
  BY DEF Init, TypeOK, NoGame, NoEvents, None, Points
<1>3. GameIffConnected /\ BindingFollows /\ EventsCleared /\ SnapshotFresh
  BY <1>1 DEF Init, GameIffConnected, BindingFollows, EventsCleared, SnapshotFresh
<1>4. ConnectsAlone /\ ConnectProgress /\ ChecksStillHold
  BY <1>1 DEF ConnectsAlone, ConnectProgress, ChecksStillHold, PastThread, PastGame,
    Connecting, Updating, Disconnecting, Calling
<1> QED
  BY <1>2, <1>3, <1>4 DEF IInv

\* The steps of the server and the clearing of the error channel change neither
\* the client nor where the threads are.
LEMMA SurroundingsIInv ==
  ASSUME IInv, ServerStart \/ ServerStop \/ ClearLastError \/ UNCHANGED vars
  PROVE  IInv'
<1>1. UNCHANGED <<connected, game, games, frame, abiThread, leftBound, events, pc, holds>>
  BY DEF ServerStart, ServerStop, ClearLastError, vars, client
<1>2. TypeOK'
  BY DEF IInv, TypeOK, ServerStart, ServerStop, ClearLastError, vars, server, client, None
<1> QED
  BY <1>1, <1>2
  DEF IInv, GameIffConnected, ConnectsAlone, ConnectProgress, BindingFollows,
      ChecksStillHold, EventsCleared, SnapshotFresh

LEMMA NextIInv ==
  ASSUME ConnectAlone, IInv, [Next]_vars
  PROVE  IInv'
<1>1. ASSUME NEW t \in Threads, HostStep(t) \/ LibraryStep(t) PROVE IInv'
  BY <1>1, TypeStep, GameStep, AloneStep, ConnectStep, BindingStep, ChecksStep, EventsStep,
     SnapshotStep DEF IInv
<1> QED
  BY <1>1, SurroundingsIInv DEF Next

\* For a host that lets no other call overlap a connect, the invariant holds of
\* every behaviour.
THEOREM Invariance ==
  ASSUME ConnectAlone PROVE Spec => []IInv
<1>1. IInv /\ [Next]_vars => IInv'
  BY NextIInv
<1> QED
  BY <1>1, InitIInv, PTL DEF Spec

\* Every variable has its type in every order of calls and interruptions, the
\* program counters of threads inside a call included.
THEOREM TypeCorrect ==
  ASSUME ConnectAlone PROVE Spec => []TypeOK
<1>1. IInv => TypeOK
  BY DEF IInv
<1> QED
  BY <1>1, Invariance, PTL

\* Then the thread check is enough: whatever else overlaps, only the thread that
\* connected touches the game,
THEOREM OnlyTheOwnerTouches ==
  ASSUME ConnectAlone PROVE Spec => []OwnerTouches
<1>1. IInv => OwnerTouches
  BY DEF IInv, OwnerTouches, Touching, ChecksStillHold, PastGame
<1> QED
  BY <1>1, Invariance, PTL

\* no wrapper follows a pointer into a game that has been deleted, and update()
\* reads no events through a null BroodwarPtr,
THEOREM NeverDangling ==
  ASSUME ConnectAlone PROVE Spec => []NoDanglingGame
<1>1. IInv => NoDanglingGame
  BY DEF IInv, NoDanglingGame, Touching, ChecksStillHold, PastGame, GameIffConnected
<1> QED
  BY <1>1, Invariance, PTL

\* the events that can be indexed are of the present frame of the present game,
THEOREM EventsAreFresh ==
  ASSUME ConnectAlone PROVE Spec => []SnapshotFresh
<1>1. IInv => SnapshotFresh
  BY DEF IInv
<1> QED
  BY <1>1, Invariance, PTL

\* and between calls no connection is without its thread or its game, and no
\* thread stays bound to a connection that is gone, but by a throw out of
\* Client::disconnect().
THEOREM QuiescentConsistency ==
  ASSUME ConnectAlone PROVE Spec => []BoundIffConnected
<1>1. IInv => BoundIffConnected
  BY DEF IInv, BoundIffConnected, GameIffConnected, BindingFollows, TypeOK
<1> QED
  BY <1>1, Invariance, PTL

\* A connect returns 1 to a caller that is connected and bound.
THEOREM ConnectIsTruthful ==
  ASSUME ConnectAlone PROVE Spec => ConnectTruthful
<1>1. IInv /\ [Next]_vars =>
        [\A t \in Threads : ConnectClear(t) => connected' /\ abiThread' = t]_vars
  BY DEF IInv, ConnectProgress, ConnectClear, Goto, client
<1> QED
  BY <1>1, Invariance, PTL DEF Spec, ConnectTruthful

\* Only the thread that connected takes the connection down.
THEOREM OnlyTheOwnerDisconnects ==
  ASSUME ConnectAlone
  PROVE  Spec => [][\A t \in Threads : DisconnectClient(t) /\ connected => abiThread = t]_vars
<1>1. IInv /\ [Next]_vars =>
        [\A t \in Threads : DisconnectClient(t) /\ connected => abiThread = t]_vars
  BY DEF IInv, ChecksStillHold, PastThread, Updating, Disconnecting, Calling,
     DisconnectClient, Goto
<1> QED
  BY <1>1, Invariance, PTL DEF Spec

-----------------------------------------------------------------------------
(* ClientLifecycle implements Connection *)

\* What the mapped owner is, without the CHOOSE.
OwnerMeaning ==
  /\ ~connected => AbstractOwner = NoThread
  /\ \A t \in Threads : connected /\ pc[t] = "connect.bind" => AbstractOwner = t
  /\ connected /\ (\A t \in Threads : pc[t] # "connect.bind") => AbstractOwner = abiThread

LEMMA OwnerMeant == IInv => OwnerMeaning
<1> SUFFICES ASSUME IInv PROVE OwnerMeaning
  OBVIOUS
<1>1. ASSUME NEW t \in Threads, connected, pc[t] = "connect.bind" PROVE AbstractOwner = t
  <2>1. \A u \in Threads : pc[u] = "connect.bind" => u = t
    BY <1>1 DEF IInv, ConnectsAlone, Connecting
  <2>2. (CHOOSE u \in Threads : pc[u] = "connect.bind") = t
    BY <1>1, <2>1
  <2> QED
    BY <1>1, <2>2 DEF AbstractOwner
<1> QED
  BY <1>1 DEF OwnerMeaning, AbstractOwner

LEMMA OwnerMeantNext == IInv' => OwnerMeaning'
BY OwnerMeant, PTL

\* The thread of a call past the thread check is the owner, if there is one.
LEMMA CallerOwns ==
  ASSUME IInv, NEW t \in Threads, pc[t] \in PastThread, connected
  PROVE  AbstractOwner = t
<1>1. pc[t] \notin Connecting /\ pc[t] # "host"
  BY DEF PastThread, Updating, Disconnecting, Calling, Connecting
<1>2. \A u \in Threads : pc[u] # "connect.bind"
  BY <1>1 DEF IInv, ConnectsAlone, Connecting
<1>3. abiThread = t
  BY DEF IInv, ChecksStillHold
<1> QED
  BY <1>2, <1>3, OwnerMeant DEF OwnerMeaning

\* The game a thread at point p, holding h, is inside of.
InsideAt(p, h) ==
  IF p = "call.use" THEN h
  ELSE IF p \in Touching \union {"disconnect.client"} THEN game
  ELSE NoGame

\* A step of one thread moves that thread alone in or out.
LEMMA InsideMoves ==
  ASSUME TypeOK, NEW t \in Threads, game' = game,
         pc' = [pc EXCEPT ![t] = pc'[t]], holds' = [holds EXCEPT ![t] = holds'[t]]
  PROVE  /\ AbstractInside[t] = InsideAt(pc[t], holds[t])
         /\ AbstractInside' = [AbstractInside EXCEPT ![t] = InsideAt(pc'[t], holds'[t])]
<1>1. \A u \in Threads : AbstractInside[u] = InsideAt(pc[u], holds[u])
  BY DEF AbstractInside, InsideAt
<1>2. \A u \in Threads :
        AbstractInside'[u] =
          IF u = t THEN InsideAt(pc'[t], holds'[t]) ELSE AbstractInside[u]
  BY DEF TypeOK, AbstractInside, InsideAt
<1> QED
  BY <1>1, <1>2 DEF AbstractInside

\* The owner changes with the connection only.
LEMMA OwnerStays ==
  ASSUME TypeOK, OwnerMeaning, OwnerMeaning', connected' = connected,
         connected => abiThread' = abiThread, NEW t \in Threads, NEW to,
         pc' = [pc EXCEPT ![t] = to], pc[t] # "connect.bind", to # "connect.bind"
  PROVE  AbstractOwner' = AbstractOwner
<1>1. \A u \in Threads : pc'[u] = "connect.bind" <=> pc[u] = "connect.bind"
  BY DEF TypeOK
<1> QED
  BY <1>1 DEF OwnerMeaning

\* A step that leaves the connection, and what its thread is inside of, alone.
LEMMA Unseen ==
  ASSUME TypeOK, AbstractOwner' = AbstractOwner, UNCHANGED <<game, games, frame, events>>,
         NEW t \in Threads, NEW to, pc' = [pc EXCEPT ![t] = to],
         NEW h, holds' = [holds EXCEPT ![t] = h], InsideAt(to, h) = InsideAt(pc[t], holds[t])
  PROVE  UNCHANGED Abstract!vars
<1>1. AbstractInside' = [AbstractInside EXCEPT ![t] = AbstractInside[t]]
  <2>1. game' = game /\ pc'[t] = to /\ holds'[t] = h
    BY DEF TypeOK
  <2>2. pc' = [pc EXCEPT ![t] = pc'[t]] /\ holds' = [holds EXCEPT ![t] = holds'[t]]
    BY <2>1
  <2>3. /\ AbstractInside[t] = InsideAt(pc[t], holds[t])
        /\ AbstractInside' = [AbstractInside EXCEPT ![t] = InsideAt(pc'[t], holds'[t])]
    BY <2>1, <2>2, InsideMoves
  <2> QED
    BY <2>1, <2>3
<1>2. AbstractInside = [u \in Threads |-> AbstractInside[u]]
  BY DEF AbstractInside
<1>3. AbstractInside' = AbstractInside
  BY <1>1, <1>2
<1> QED
  BY <1>3 DEF Abstract!vars

\* The steps of a call that the connection does not show.
Unshown(t) ==
  \/ HostStep(t)
  \/ ConnectCheck(t) \/ ConnectFails(t) \/ ConnectThrows(t) \/ ConnectClear(t)
  \/ UpdateThread(t) \/ UpdateGame(t)
  \/ DisconnectThread(t)
  \/ CallThread(t)

LEMMA UnshownMaps ==
  ASSUME IInv, IInv', NEW t \in Threads, Unshown(t)
  PROVE  UNCHANGED Abstract!vars
<1>1. PICK to : /\ pc' = [pc EXCEPT ![t] = to]
                /\ pc[t] # "connect.bind" /\ to # "connect.bind"
                /\ pc[t] \notin Touching \union {"disconnect.client"}
                /\ to \notin Touching \union {"disconnect.client"}
  BY DEF Unshown, HostStep, Call, ConnectCheck, ConnectFails, ConnectThrows, ConnectClear,
     UpdateThread, UpdateGame, DisconnectThread, CallThread, CheckThread, CheckGame, Goto, Touching
<1>2. UNCHANGED <<connected, game, games, frame, abiThread, holds>>
  BY DEF Unshown, HostStep, Call, ConnectCheck, ConnectFails, ConnectThrows, ConnectClear,
     UpdateThread, UpdateGame, DisconnectThread, CallThread, CheckThread, CheckGame, client
<1>3. events' = events
  <2>1. CASE ConnectClear(t)
    BY <2>1 DEF ConnectClear, Goto, IInv, EventsCleared
  <2>2. CASE ~ConnectClear(t)
    BY <2>2 DEF Unshown, HostStep, Call, ConnectCheck, ConnectFails, ConnectThrows,
       UpdateThread, UpdateGame, DisconnectThread, CallThread, CheckThread, CheckGame
  <2> QED
    BY <2>1, <2>2
<1>4. TypeOK /\ OwnerMeaning /\ OwnerMeaning'
  BY OwnerMeant, OwnerMeantNext DEF IInv
<1>5. AbstractOwner' = AbstractOwner
  BY <1>1, <1>2, <1>4, OwnerStays
<1>6. holds' = [holds EXCEPT ![t] = holds[t]]
  BY <1>2, <1>4 DEF TypeOK
<1>7. InsideAt(to, holds[t]) = InsideAt(pc[t], holds[t])
  BY <1>1 DEF InsideAt, Touching
<1> QED
  BY <1>1, <1>2, <1>3, <1>4, <1>5, <1>6, <1>7, Unseen

\* The connection is there, and the caller's, when the client says yes.
LEMMA OpensConnects ==
  ASSUME IInv, IInv', NEW t \in Threads, ConnectOpens(t)
  PROVE  Abstract!Connect(t)
<1>1. /\ pc[t] = "connect.open" /\ pc' = [pc EXCEPT ![t] = "connect.bind"]
      /\ ~connected
  BY DEF ConnectOpens, Goto, IInv, ConnectProgress
<1>2. /\ games' = games + 1 /\ game' = games' /\ connected' /\ frame' = 0
      /\ UNCHANGED <<events, holds>>
  BY <1>1 DEF ConnectOpens
<1>3. AbstractOwner = NoThread /\ AbstractOwner' = t
  BY <1>1, <1>2, OwnerMeant, OwnerMeantNext DEF OwnerMeaning, IInv, TypeOK
<1>4. \A u \in Threads : u # t => pc[u] = "host"
  BY <1>1 DEF IInv, ConnectsAlone, Connecting
<1>5. \A u \in Threads : AbstractInside[u] = NoGame /\ AbstractInside'[u] = NoGame
  BY <1>1, <1>4 DEF AbstractInside, Touching, IInv, TypeOK
<1>6. AbstractInside' = AbstractInside
  BY <1>5 DEF AbstractInside
<1> QED
  BY <1>2, <1>3, <1>6 DEF Abstract!Connect

LEMMA BindUnseen ==
  ASSUME IInv, IInv', NEW t \in Threads, ConnectBind(t)
  PROVE  UNCHANGED Abstract!vars
<1>1. /\ pc[t] = "connect.bind" /\ pc' = [pc EXCEPT ![t] = "connect.clear"]
      /\ connected /\ abiThread' = t
      /\ UNCHANGED <<connected, game, games, frame, events, holds>>
  BY DEF ConnectBind, Goto, IInv, ConnectProgress, client
<1>2. TypeOK /\ OwnerMeaning /\ OwnerMeaning'
  BY OwnerMeant, OwnerMeantNext DEF IInv
<1>3. \A u \in Threads : pc'[u] # "connect.bind"
  BY <1>1, <1>2 DEF IInv, ConnectsAlone, Connecting, TypeOK
<1>4. AbstractOwner' = AbstractOwner
  BY <1>1, <1>2, <1>3 DEF OwnerMeaning
<1>5. holds' = [holds EXCEPT ![t] = holds[t]]
  BY <1>1, <1>2 DEF TypeOK
<1>6. InsideAt("connect.clear", holds[t]) = InsideAt(pc[t], holds[t])
  BY <1>1 DEF InsideAt, Touching
<1> QED
  BY <1>1, <1>2, <1>4, <1>5, <1>6, Unseen

\* A thread past its checks goes inside its own game.
LEMMA Enters ==
  ASSUME IInv, IInv', NEW t \in Threads, pc[t] \in PastThread, connected,
         NEW to \in Touching \union {"disconnect.client"}, to # "call.use",
         pc' = [pc EXCEPT ![t] = to],
         UNCHANGED <<connected, game, games, frame, abiThread, holds>>,
         events' \in {events, NoEvents}
  PROVE  Abstract!Enter(t)
<1>1. TypeOK /\ OwnerMeaning /\ OwnerMeaning'
  BY OwnerMeant, OwnerMeantNext DEF IInv
<1>2. pc[t] # "connect.bind" /\ to # "connect.bind"
  BY DEF PastThread, Updating, Disconnecting, Calling, Touching
<1>3. AbstractOwner = t /\ AbstractOwner' = AbstractOwner
  <2>1. connected' = connected /\ abiThread' = abiThread
    OBVIOUS
  <2> QED
    BY <1>1, <1>2, <2>1, CallerOwns, OwnerStays
<1>4. /\ game' = game /\ pc'[t] = to /\ pc' = [pc EXCEPT ![t] = pc'[t]]
      /\ holds' = [holds EXCEPT ![t] = holds'[t]]
  BY <1>1 DEF TypeOK
<1>5. AbstractInside' = [AbstractInside EXCEPT ![t] = game]
  <2>1. InsideAt(pc'[t], holds'[t]) = game
    BY <1>4 DEF InsideAt
  <2> QED
    BY <1>1, <1>4, <2>1, InsideMoves
<1>6. events' \in {events, Abstract!NoEvents}
  BY DEF NoEvents, Abstract!NoEvents
<1> QED
  BY <1>3, <1>5, <1>6 DEF Abstract!Enter

\* A thread inside comes out where it goes on to is outside.
LEMMA Out ==
  ASSUME IInv, NEW t \in Threads, pc[t] \in Touching \union {"disconnect.client"}, connected,
         NEW to, to \notin Touching \union {"disconnect.client"},
         pc' = [pc EXCEPT ![t] = to], game' = game,
         NEW h, holds' = [holds EXCEPT ![t] = h]
  PROVE  Abstract!Leaves(t) /\ AbstractInside[t] = game
<1>1. TypeOK /\ game # NoGame
  BY DEF IInv, GameIffConnected
<1>2. pc[t] = "call.use" => holds[t] = game
  BY DEF IInv, ChecksStillHold
<1>3. /\ pc'[t] = to /\ pc' = [pc EXCEPT ![t] = pc'[t]]
      /\ holds' = [holds EXCEPT ![t] = holds'[t]]
  BY <1>1 DEF TypeOK
<1>4. InsideAt(pc[t], holds[t]) = game /\ InsideAt(pc'[t], holds'[t]) = NoGame
  BY <1>2, <1>3 DEF InsideAt, Touching
<1>5. AbstractInside[t] = game
  BY <1>2 DEF AbstractInside, Touching
<1>6. AbstractInside' = [AbstractInside EXCEPT ![t] = InsideAt(pc'[t], holds'[t])]
  BY <1>1, <1>3, InsideMoves
<1>7. AbstractInside' = [AbstractInside EXCEPT ![t] = NoGame]
  BY <1>4, <1>6
<1> QED
  BY <1>1, <1>5, <1>7 DEF Abstract!Leaves, Abstract!NoGame, NoGame

\* The end of the connection finds nobody else inside it.
LEMMA Ends ==
  ASSUME IInv, IInv', NEW t \in Threads, pc[t] \in {"update.wait", "disconnect.client"},
         connected, NEW to, to \notin Touching \union {"disconnect.client", "connect.bind"},
         pc' = [pc EXCEPT ![t] = to], ~connected', game' = NoGame,
         UNCHANGED <<games, frame, events, holds>>
  PROVE  Abstract!End(t)
<1>1. TypeOK /\ game # NoGame /\ abiThread = t /\ events = NoEvents
  BY DEF IInv, GameIffConnected, ChecksStillHold, EventsCleared, PastThread, Updating,
     Disconnecting, Calling
<1>2. AbstractInside[t] = game
  BY DEF AbstractInside, Touching
<1>3. \A u \in Threads \ {t} : pc[u] \notin Touching \union {"disconnect.client"}
  <2>1. ASSUME NEW u \in Threads \ {t}, pc[u] \in Touching \union {"disconnect.client"}
        PROVE  FALSE
    <3>1. pc[u] \in PastThread
      BY <2>1 DEF Touching, PastThread, Updating, Disconnecting, Calling
    <3> QED
      BY <1>1, <2>1, <3>1 DEF IInv, ChecksStillHold
  <2> QED
    BY <2>1
<1>4. /\ \A u \in Threads \ {t} : AbstractInside[u] = NoGame
      /\ \A u \in Threads : AbstractInside'[u] = NoGame
  BY <1>1, <1>3 DEF AbstractInside, Touching, TypeOK
<1>5. AbstractInside' = [AbstractInside EXCEPT ![t] = NoGame]
  BY <1>4 DEF AbstractInside
<1>6. AbstractOwner' = NoThread
  BY OwnerMeantNext DEF OwnerMeaning
<1> QED
  BY <1>1, <1>2, <1>4, <1>5, <1>6
  DEF Abstract!End, Abstract!Leaves, Abstract!NoGame, Abstract!NoEvents, NoGame, NoEvents

\* The steps of update(), from the clearing of the events on.
LEMMA UpdateMaps ==
  ASSUME IInv, IInv', NEW t \in Threads,
         \/ UpdateClear(t) \/ UpdateFrame(t) \/ UpdateGone(t) \/ UpdateThrows(t)
         \/ UpdateCheck(t) \/ UpdateSnapshot(t) \/ SnapshotThrows(t)
  PROVE  Abstract!Next \/ UNCHANGED Abstract!vars
<1>0. TypeOK /\ OwnerMeaning /\ OwnerMeaning' /\ holds = [holds EXCEPT ![t] = holds[t]]
  BY OwnerMeant, OwnerMeantNext DEF IInv, TypeOK
<1>1. CASE UpdateClear(t)
  <2>1. /\ pc[t] = "update.clear" /\ pc' = [pc EXCEPT ![t] = "update.wait"]
        /\ UNCHANGED <<connected, game, games, frame, abiThread, holds>>
        /\ events' = NoEvents
    BY <1>1 DEF UpdateClear, Goto, client
  <2>2. pc[t] \in PastThread /\ connected
    BY <2>1 DEF PastThread, Updating, IInv, ChecksStillHold, PastGame
  <2>3. Abstract!Enter(t)
    BY <2>1, <2>2, Enters DEF Touching
  <2> QED
    BY <2>3 DEF Abstract!Next
<1>2. CASE UpdateFrame(t)
  <2>1. /\ pc[t] = "update.wait" /\ pc' = [pc EXCEPT ![t] = "update.check"]
        /\ UNCHANGED <<connected, game, games, abiThread, events, holds>>
        /\ frame' = frame + 1
    BY <1>2 DEF UpdateFrame, Goto
  <2>2. connected /\ events = NoEvents
    BY <2>1 DEF IInv, ChecksStillHold, PastGame, EventsCleared
  <2>3. AbstractOwner' = AbstractOwner
    BY <1>0, <2>1, OwnerStays
  <2>4. Abstract!Leaves(t)
    BY <1>0, <2>1, <2>2, Out DEF Touching
  <2> QED
    BY <2>1, <2>2, <2>3, <2>4
    DEF Abstract!Next, Abstract!Frame, Abstract!NoEvents, NoEvents
<1>3. CASE UpdateGone(t) \/ (UpdateThrows(t) /\ TakenDown)
  <2>1. PICK to \in {"update.check", "host"} : pc' = [pc EXCEPT ![t] = to]
    BY <1>3 DEF UpdateGone, UpdateThrows, Goto
  <2>2. /\ pc[t] = "update.wait" /\ ~connected' /\ game' = NoGame
        /\ UNCHANGED <<games, frame, events, holds>>
    BY <1>3 DEF UpdateGone, UpdateThrows, TakenDown, Goto
  <2>3. connected
    BY <2>2 DEF IInv, ChecksStillHold, PastGame
  <2>4. Abstract!End(t)
    BY <2>1, <2>2, <2>3, Ends DEF Touching
  <2> QED
    BY <2>4 DEF Abstract!Next
<1>4. CASE (UpdateThrows(t) /\ ~TakenDown) \/ SnapshotThrows(t)
  <2>1. /\ pc[t] \in {"update.wait", "update.snapshot"} /\ pc' = [pc EXCEPT ![t] = "host"]
        /\ UNCHANGED <<connected, game, games, frame, abiThread, events, holds>>
    BY <1>4 DEF UpdateThrows, SnapshotThrows, Goto, client
  <2>2. connected
    BY <2>1 DEF IInv, ChecksStillHold, PastGame
  <2>3. AbstractOwner' = AbstractOwner
    BY <1>0, <2>1, OwnerStays
  <2>4. Abstract!Leaves(t)
    BY <1>0, <2>1, <2>2, Out DEF Touching
  <2> QED
    BY <2>1, <2>3, <2>4 DEF Abstract!Next, Abstract!Leave
<1>5. CASE UpdateCheck(t) /\ game = NoGame
  <2>1. /\ pc[t] = "update.check" /\ pc' = [pc EXCEPT ![t] = "host"]
        /\ UNCHANGED <<connected, game, games, frame, events, holds>> /\ ~connected
    BY <1>5 DEF UpdateCheck, Goto, client, IInv, GameIffConnected
  <2>2. AbstractOwner' = AbstractOwner
    BY <1>0, <2>1, OwnerStays
  <2>3. InsideAt("host", holds[t]) = InsideAt(pc[t], holds[t])
    BY <2>1 DEF InsideAt, Touching
  <2> QED
    BY <1>0, <2>1, <2>2, <2>3, Unseen
<1>6. CASE UpdateCheck(t) /\ game # NoGame
  <2>1. /\ pc[t] = "update.check" /\ pc' = [pc EXCEPT ![t] = "update.snapshot"]
        /\ UNCHANGED <<connected, game, games, frame, abiThread, events, holds>>
        /\ connected
    BY <1>6 DEF UpdateCheck, Goto, client, IInv, GameIffConnected
  <2>2. pc[t] \in PastThread
    BY <2>1 DEF PastThread, Updating
  <2>3. Abstract!Enter(t)
    BY <2>1, <2>2, Enters DEF Touching
  <2> QED
    BY <2>3 DEF Abstract!Next
<1>7. CASE UpdateSnapshot(t)
  <2>1. /\ pc[t] = "update.snapshot" /\ pc' = [pc EXCEPT ![t] = "host"]
        /\ UNCHANGED <<connected, game, games, frame, abiThread, holds>>
        /\ events' = [game |-> game, frame |-> frame]
    BY <1>7 DEF UpdateSnapshot, Goto, client
  <2>2. connected
    BY <2>1 DEF IInv, ChecksStillHold, PastGame
  <2>3. AbstractOwner' = AbstractOwner
    BY <1>0, <2>1, OwnerStays
  <2>4. Abstract!Leaves(t) /\ AbstractInside[t] = game
    BY <1>0, <2>1, <2>2, Out DEF Touching
  <2> QED
    BY <2>1, <2>3, <2>4 DEF Abstract!Next, Abstract!Snapshot
<1> QED
  BY <1>1, <1>2, <1>3, <1>4, <1>5, <1>6, <1>7

\* The steps of disconnect() past the thread check.
LEMMA DisconnectMaps ==
  ASSUME IInv, IInv', NEW t \in Threads,
         \/ DisconnectClear(t) \/ DisconnectClient(t) \/ DisconnectThrows(t)
         \/ DisconnectUnbind(t)
  PROVE  Abstract!Next \/ UNCHANGED Abstract!vars
<1>0. TypeOK /\ OwnerMeaning /\ OwnerMeaning' /\ holds = [holds EXCEPT ![t] = holds[t]]
  BY OwnerMeant, OwnerMeantNext DEF IInv, TypeOK
<1>1. CASE DisconnectClear(t)
  <2>1. /\ pc[t] = "disconnect.clear" /\ pc' = [pc EXCEPT ![t] = "disconnect.client"]
        /\ UNCHANGED <<connected, game, games, frame, abiThread, holds>>
        /\ events' = NoEvents
    BY <1>1 DEF DisconnectClear, Goto, client
  <2>2. CASE connected
    <3>1. pc[t] \in PastThread
      BY <2>1 DEF PastThread, Disconnecting
    <3>2. Abstract!Enter(t)
      BY <2>1, <2>2, <3>1, Enters
    <3> QED
      BY <3>2 DEF Abstract!Next
  <2>3. CASE ~connected
    <3>1. events' = events /\ game = NoGame
      BY <2>1, <2>3 DEF IInv, EventsCleared, GameIffConnected
    <3>2. AbstractOwner' = AbstractOwner
      BY <1>0, <2>1, OwnerStays
    <3>3. InsideAt("disconnect.client", holds[t]) = InsideAt(pc[t], holds[t])
      BY <2>1, <3>1 DEF InsideAt, Touching
    <3> QED
      BY <1>0, <2>1, <3>1, <3>2, <3>3, Unseen
  <2> QED
    BY <2>2, <2>3
<1>2. CASE DisconnectClient(t) \/ (DisconnectThrows(t) /\ TakenDown)
  <2>1. PICK to \in {"disconnect.unbind", "host"} : pc' = [pc EXCEPT ![t] = to]
    BY <1>2 DEF DisconnectClient, DisconnectThrows, Goto
  <2>2. /\ pc[t] = "disconnect.client"
        /\ UNCHANGED <<games, frame, abiThread, events, holds>>
        /\ connected' = FALSE /\ game' = NoGame
    BY <1>2 DEF DisconnectClient, DisconnectThrows, TakenDown, Goto
  <2>3. CASE connected
    <3>1. Abstract!End(t)
      BY <2>1, <2>2, <2>3, Ends DEF Touching
    <3> QED
      BY <3>1 DEF Abstract!Next
  <2>4. CASE ~connected
    <3>1. game' = game /\ game = NoGame /\ connected' = connected
      BY <2>2, <2>4 DEF IInv, GameIffConnected, TypeOK
    <3>2. AbstractOwner' = AbstractOwner
      BY <1>0, <2>1, <2>2, <3>1, OwnerStays
    <3>3. InsideAt(to, holds[t]) = InsideAt(pc[t], holds[t])
      BY <2>2, <3>1 DEF InsideAt, Touching
    <3> QED
      BY <1>0, <2>1, <2>2, <3>1, <3>2, <3>3, Unseen
  <2> QED
    BY <2>3, <2>4
<1>4. CASE DisconnectThrows(t) /\ ~TakenDown
  <2>1. /\ pc[t] = "disconnect.client" /\ pc' = [pc EXCEPT ![t] = "host"]
        /\ UNCHANGED <<connected, game, games, frame, abiThread, events, holds>>
    BY <1>4 DEF DisconnectThrows, Goto, client
  <2>2. AbstractOwner' = AbstractOwner
    BY <1>0, <2>1, OwnerStays
  <2>3. CASE connected
    <3>1. Abstract!Leaves(t)
      BY <1>0, <2>1, <2>3, Out DEF Touching
    <3> QED
      BY <2>1, <2>2, <3>1 DEF Abstract!Next, Abstract!Leave
  <2>4. CASE ~connected
    <3>1. game = NoGame
      BY <2>4 DEF IInv, GameIffConnected
    <3>2. InsideAt("host", holds[t]) = InsideAt(pc[t], holds[t])
      BY <2>1, <3>1 DEF InsideAt, Touching
    <3> QED
      BY <1>0, <2>1, <2>2, <3>2, Unseen
  <2> QED
    BY <2>3, <2>4
<1>3. CASE DisconnectUnbind(t)
  <2>1. /\ pc[t] = "disconnect.unbind" /\ pc' = [pc EXCEPT ![t] = "host"]
        /\ UNCHANGED <<connected, game, games, frame, events, holds>>
        /\ ~connected
    BY <1>3 DEF DisconnectUnbind, Goto, client, IInv, ChecksStillHold
  <2>2. AbstractOwner' = AbstractOwner
    BY <1>0, <2>1, OwnerStays
  <2>3. InsideAt("host", holds[t]) = InsideAt(pc[t], holds[t])
    BY <2>1 DEF InsideAt, Touching
  <2> QED
    BY <1>0, <2>1, <2>2, <2>3, Unseen
<1> QED
  BY <1>1, <1>2, <1>3, <1>4

\* The steps of a wrapper past the thread check.
LEMMA CallMaps ==
  ASSUME IInv, IInv', NEW t \in Threads, CallGame(t) \/ CallResolve(t) \/ CallUse(t)
  PROVE  Abstract!Next \/ UNCHANGED Abstract!vars
<1>0. TypeOK /\ OwnerMeaning /\ OwnerMeaning' /\ holds = [holds EXCEPT ![t] = holds[t]]
  BY OwnerMeant, OwnerMeantNext DEF IInv, TypeOK
<1>1. CASE CallGame(t) /\ game # NoGame
  <2>1. /\ pc[t] = "call.game" /\ pc' = [pc EXCEPT ![t] = "call.resolve"]
        /\ UNCHANGED <<connected, game, games, frame, abiThread, events, holds>>
        /\ connected
    BY <1>1 DEF CallGame, CheckGame, Goto, client, IInv, GameIffConnected
  <2>2. pc[t] \in PastThread
    BY <2>1 DEF PastThread, Calling
  <2>3. Abstract!Enter(t)
    BY <2>1, <2>2, Enters DEF Touching
  <2> QED
    BY <2>3 DEF Abstract!Next
<1>2. CASE CallGame(t) /\ game = NoGame
  <2>1. /\ pc[t] = "call.game" /\ pc' = [pc EXCEPT ![t] = "host"]
        /\ UNCHANGED <<connected, game, games, frame, abiThread, events, holds>>
    BY <1>2 DEF CallGame, CheckGame, Goto, client
  <2>2. AbstractOwner' = AbstractOwner
    BY <1>0, <2>1, OwnerStays
  <2>3. InsideAt("host", holds[t]) = InsideAt(pc[t], holds[t])
    BY <2>1 DEF InsideAt, Touching
  <2> QED
    BY <1>0, <2>1, <2>2, <2>3, Unseen
<1>3. CASE CallResolve(t) \/ CallUse(t)
  <2>1. PICK to \in {"host", "call.use"}, h \in {holds[t], game, NoGame} :
             /\ pc' = [pc EXCEPT ![t] = to] /\ holds' = [holds EXCEPT ![t] = h]
             /\ to = "call.use" => pc[t] = "call.resolve" /\ h = game
    BY <1>0, <1>3 DEF CallResolve, CallUse, Goto
  <2>2. /\ pc[t] \in {"call.resolve", "call.use"}
        /\ UNCHANGED <<connected, game, games, frame, abiThread, events>>
    BY <1>3 DEF CallResolve, CallUse, Goto, client
  <2>3. connected
    BY <2>2 DEF IInv, ChecksStillHold, PastGame
  <2>4. AbstractOwner' = AbstractOwner
    BY <1>0, <2>1, <2>2, OwnerStays
  <2>5. CASE to = "host"
    <3>1. Abstract!Leaves(t)
      BY <2>1, <2>2, <2>3, <2>5, Out DEF Touching
    <3> QED
      BY <2>2, <2>4, <3>1 DEF Abstract!Next, Abstract!Leave
  <2>6. CASE to = "call.use"
    <3>1. InsideAt(to, h) = InsideAt(pc[t], holds[t])
      BY <2>1, <2>6 DEF InsideAt, Touching
    <3> QED
      BY <1>0, <2>1, <2>2, <2>4, <3>1, Unseen
  <2> QED
    BY <2>1, <2>5, <2>6
<1> QED
  BY <1>1, <1>2, <1>3

-----------------------------------------------------------------------------
LEMMA InitMaps == Init => Abstract!Init
<1> SUFFICES ASSUME Init PROVE Abstract!Init
  OBVIOUS
<1>1. AbstractOwner = NoThread
  BY DEF Init, AbstractOwner
<1>2. AbstractInside = [t \in Threads |-> NoGame]
  BY DEF Init, AbstractInside, Touching
<1> QED
  BY <1>1, <1>2 DEF Init, Abstract!Init, Abstract!NoGame, Abstract!NoEvents, NoGame, NoEvents

LEMMA NextMaps ==
  ASSUME IInv, IInv', [Next]_vars
  PROVE  [Abstract!Next]_(Abstract!vars)
<1>1. ASSUME NEW t \in Threads, HostStep(t) \/ LibraryStep(t)
      PROVE  Abstract!Next \/ UNCHANGED Abstract!vars
  <2>1. CASE Unshown(t)
    BY <2>1, UnshownMaps
  <2>2. CASE ConnectOpens(t)
    BY <2>2, OpensConnects DEF Abstract!Next
  <2>3. CASE ConnectBind(t)
    BY <2>3, BindUnseen
  <2> QED
    BY <1>1, <2>1, <2>2, <2>3, UpdateMaps, DisconnectMaps, CallMaps DEF LibraryStep, Unshown
<1>2. ASSUME ServerStart \/ ServerStop \/ ClearLastError \/ UNCHANGED vars
      PROVE  UNCHANGED Abstract!vars
  <2>1. UNCHANGED <<connected, game, games, frame, abiThread, events, pc, holds>>
    BY <1>2 DEF ServerStart, ServerStop, ClearLastError, vars, client
  <2>2. AbstractOwner' = AbstractOwner /\ AbstractInside' = AbstractInside
    BY <2>1 DEF AbstractOwner, AbstractInside
  <2> QED
    BY <2>1, <2>2 DEF Abstract!vars
<1> QED
  BY <1>1, <1>2 DEF Next

\* For a host that connects alone the lifecycle implements Connection: every
\* step of every call, and the server's going away between any two of them, is
\* one step of a connection that has one owner, or shows nothing of itself.
THEOREM LifecycleIsConnection ==
  ASSUME ConnectAlone PROVE Spec => ImplementsConnection
<1>1. IInv /\ [Next]_vars => IInv'
  BY NextIInv
<1>2. IInv /\ IInv' /\ [Next]_vars => [Abstract!Next]_(Abstract!vars)
  BY NextMaps
<1> QED
  BY <1>1, <1>2, InitMaps, Invariance, PTL DEF Spec, ImplementsConnection, Abstract!Spec

-----------------------------------------------------------------------------
(* What Connection itself promises *)

LEMMA PromiseInit == Abstract!Init => Abstract!Promise
BY DEF Abstract!Init, Abstract!Promise, Abstract!Exclusive, Abstract!Current, Abstract!NoGame

LEMMA PromiseNext ==
  ASSUME Abstract!Promise, [Abstract!Next]_(Abstract!vars)
  PROVE  Abstract!Promise'
<1> USE ThreadAssumption
    DEF Abstract!Promise, Abstract!Exclusive, Abstract!Current, Abstract!NoGame,
        Abstract!NoEvents, Abstract!Leaves
<1>1. ASSUME NEW t \in Threads, Abstract!Connect(t) PROVE Abstract!Promise'
  BY <1>1 DEF Abstract!Connect
<1>2. ASSUME NEW t \in Threads, Abstract!Enter(t) PROVE Abstract!Promise'
  BY <1>2 DEF Abstract!Enter
<1>3. ASSUME NEW t \in Threads, Abstract!Leave(t) PROVE Abstract!Promise'
  BY <1>3 DEF Abstract!Leave
<1>4. ASSUME NEW t \in Threads, Abstract!Frame(t) PROVE Abstract!Promise'
  BY <1>4 DEF Abstract!Frame
<1>5. ASSUME NEW t \in Threads, Abstract!Snapshot(t) PROVE Abstract!Promise'
  BY <1>5 DEF Abstract!Snapshot
<1>6. ASSUME NEW t \in Threads, Abstract!End(t) PROVE Abstract!Promise'
  BY <1>6 DEF Abstract!End
<1>7. CASE UNCHANGED Abstract!vars
  BY <1>7 DEF Abstract!vars
<1> QED
  BY <1>1, <1>2, <1>3, <1>4, <1>5, <1>6, <1>7 DEF Abstract!Next

\* Connection is enough to rely on: it alone gives exclusion and fresh events.
\* Nothing of the lifecycle is used.
THEOREM ConnectionPromises == Abstract!Spec => []Abstract!Promise
<1>1. Abstract!Promise /\ [Abstract!Next]_(Abstract!vars) => Abstract!Promise'
  BY PromiseNext
<1> QED
  BY <1>1, PromiseInit, PTL DEF Abstract!Spec

\* And so the host that connects alone may rely on it.
THEOREM HostMayRely ==
  ASSUME ConnectAlone PROVE Spec => []Abstract!Promise
BY LifecycleIsConnection, ConnectionPromises, PTL DEF ImplementsConnection

==============================================================================
