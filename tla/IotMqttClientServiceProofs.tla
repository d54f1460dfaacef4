--------------------- MODULE IotMqttClientServiceProofs ---------------------
(***************************************************************************)
(* Proofs about IotMqttClientService, for any number of reconnection       *)
(* loops, either way of disposing and any calls of the owner.              *)
(***************************************************************************)
EXTENDS IotMqttClientService, TLAPS

\* The part of ConnectAsync that runs under the semaphore.
Holding(t) == pc[t] \in {"check", "open", "connecting", "release"}

TearingDown == disposer \in {"holding", "closing", "finishing"}

\* The inductive invariant.  The semaphore belongs to exactly the task inside
\* ConnectAsync's try block, or to the disposing thread while it tears the
\* client down; only a task inside an attempt makes the client connecting; a
\* disposed client implies _isDisposed.
LockHeld == \A t \in Tasks : Holding(t) <=> lock = t

DisposerHolds == TearingDown => lock = Disposer

DisposalFlagged ==
  /\ disposer \notin {"idle", "entering"} => disposed
  /\ status = "Disposed" => disposer \in {"released", "done"}

AttemptInProgress == status = "Connecting" => \E t \in Tasks : pc[t] = "connecting"

IInv ==
  /\ TypeOK
  /\ LockHeld
  /\ DisposerHolds
  /\ DisposalFlagged
  /\ AttemptInProgress
  /\ ConnectCallsLegal
  /\ DisposalExclusive

-----------------------------------------------------------------------------

\* What the events of the library do to the program counters: requests in
\* flight are lost, one idle handler starts, nobody else moves.
LEMMA SeveredFacts ==
  ASSUME NEW pcs \in [Tasks -> Labels]
  PROVE  /\ Severed(pcs) \in [Tasks -> Labels]
         /\ \A t \in Tasks : pcs[t] # "subscribing" => Severed(pcs)[t] = pcs[t]
         /\ \A t \in Tasks : pcs[t] = "subscribing" => Severed(pcs)[t] = "lost"
  BY DEF Severed, Labels

LEMMA RaiseFacts ==
  ASSUME NEW pcs \in [Tasks -> Labels], RaiseDisconnected(pcs),
         TypeOK, \A t \in Tasks : pc[t] = "idle" => pcs[t] = "idle"
  PROVE  /\ pc' \in [Tasks -> Labels]
         /\ \A t \in Tasks : pc'[t] # pcs[t] => pcs[t] = "idle" /\ pc'[t] = "event"
         /\ \E h \in Handlers : pc'[h] = "event"
<1>1. PICK h \in Handlers : pc[h] = "idle" /\ pc' = [pcs EXCEPT ![h] = "event"]
  BY DEF RaiseDisconnected
<1>2. h \in Tasks
  BY <1>1 DEF Tasks
<1> QED
  BY <1>1, <1>2 DEF Labels

LEMMA DistinctOwners ==
  /\ Disposer \notin Tasks /\ NoOne \notin Tasks /\ Disposer # NoOne
  BY TasksDistinct DEF Tasks

LEMMA InitInv == Init => IInv
<1> USE DistinctOwners
<1>1. Init => TypeOK
  BY DEF Init, TypeOK, Labels
<1>2. Init => LockHeld
  BY DEF Init, LockHeld, Holding
<1> QED
  BY <1>1, <1>2 DEF Init, IInv, DisposerHolds, TearingDown, DisposalFlagged,
     AttemptInProgress, ConnectCallsLegal, DisposalExclusive

LEMMA StepInv == IInv /\ [Next]_vars => IInv'
<1> SUFFICES ASSUME IInv, [Next]_vars PROVE IInv'
  OBVIOUS
<1> USE DistinctOwners DEF IInv, Go, GaveUp
<1> USE DEF TypeOK, Labels, LockHeld, Holding, DisposerHolds, TearingDown,
    DisposalFlagged, AttemptInProgress, ConnectCallsLegal, DisposalExclusive
<1>1. ASSUME NEW t \in Tasks, EnterConnect(t) PROVE IInv'
  BY <1>1 DEF EnterConnect
<1>2. ASSUME NEW t \in Tasks, CheckAgain(t) PROVE IInv'
  BY <1>2 DEF CheckAgain
<1>3. ASSUME NEW t \in Tasks, OpenConnection(t) PROVE IInv'
  BY <1>3 DEF OpenConnection
<1>4. ASSUME NEW t \in Tasks, ReleaseLock(t) PROVE IInv'
  BY <1>4 DEF ReleaseLock
<1>5. ASSUME NEW t \in Tasks, ConnectReturned(t) PROVE IInv'
  BY <1>5 DEF ConnectReturned
<1>6. ASSUME NEW t \in Tasks, Subscribe(t) PROVE IInv'
  BY <1>6 DEF Subscribe
<1>7. ASSUME NEW t \in Tasks, SubscriptionLost(t) PROVE IInv'
  BY <1>7 DEF SubscriptionLost
<1>8. ASSUME NEW t \in Tasks, AcquireLock(t) PROVE IInv'
  BY <1>8 DEF AcquireLock
<1>9. ASSUME NEW t \in Tasks, WaitCanceled(t) PROVE IInv'
  BY <1>9 DEF WaitCanceled
<1>10. ASSUME NEW t \in Tasks, AttemptSucceeds(t) PROVE IInv'
  BY <1>10 DEF AttemptSucceeds
<1>11. ASSUME NEW t \in Tasks, AttemptFails(t) PROVE IInv'
  <2> DEFINE pcs == [pc EXCEPT ![t] = "release"]
  <2>1. /\ pcs \in [Tasks -> Labels]
        /\ \A u \in Tasks : pc[u] = "idle" => pcs[u] = "idle"
    BY <1>11 DEF AttemptFails
  <2>2. /\ pc' \in [Tasks -> Labels]
        /\ \A u \in Tasks : pc'[u] # pcs[u] => pcs[u] = "idle" /\ pc'[u] = "event"
    BY <1>11, <2>1, RaiseFacts DEF AttemptFails
  <2>3. /\ pc[t] = "connecting" /\ pc'[t] = "release"
        /\ \A u \in Tasks \ {t} : pc'[u] = pc[u] \/ (pc[u] = "idle" /\ pc'[u] = "event")
    BY <1>11, <2>2 DEF AttemptFails
  <2> HIDE DEF pcs
  <2> QED
    BY <1>11, <2>2, <2>3 DEF AttemptFails
<1>12. ASSUME NEW t \in Tasks, SubscriptionGranted(t) PROVE IInv'
  BY <1>12 DEF SubscriptionGranted
<1>13. ASSUME NEW t \in Tasks, SubscriptionRefused(t) PROVE IInv'
  BY <1>13 DEF SubscriptionRefused
<1>14. ASSUME NEW h \in Handlers, HandleDisconnection(h) PROVE IInv'
  BY <1>14 DEF HandleDisconnection, Tasks
<1>15. ASSUME NEW h \in Handlers, LoopAgain(h) PROVE IInv'
  BY <1>15 DEF LoopAgain, Tasks
<1>16. ASSUME NEW h \in Handlers, DelayEnds(h) PROVE IInv'
  BY <1>16 DEF DelayEnds, Tasks
<1>17. ASSUME StartAsync PROVE IInv'
  BY <1>17 DEF StartAsync, Tasks
<1>18. ASSUME ConnectionLost PROVE IInv'
  <2>1. /\ Severed(pc) \in [Tasks -> Labels]
        /\ \A u \in Tasks : pc[u] = "idle" => Severed(pc)[u] = "idle"
    BY SeveredFacts
  <2>2. /\ pc' \in [Tasks -> Labels]
        /\ \A u \in Tasks : pc'[u] # Severed(pc)[u]
                               => Severed(pc)[u] = "idle" /\ pc'[u] = "event"
    BY <1>18, <2>1, RaiseFacts DEF ConnectionLost
  <2>3. \A u \in Tasks : \/ pc'[u] = pc[u]
                         \/ pc[u] = "idle" /\ pc'[u] = "event"
                         \/ pc[u] = "subscribing" /\ pc'[u] = "lost"
    BY <2>2, SeveredFacts
  <2> QED
    BY <1>18, <2>2, <2>3 DEF ConnectionLost
<1>19. ASSUME DisconnectAsync PROVE IInv'
  <2>1. /\ pc' \in [Tasks -> Labels]
        /\ \A u \in Tasks : pc'[u] = pc[u] \/ (pc[u] = "subscribing" /\ pc'[u] = "lost")
    BY <1>19, SeveredFacts DEF DisconnectAsync
  <2> QED
    BY <1>19, <2>1 DEF DisconnectAsync
<1>20. ASSUME UnsubscribeAsync PROVE IInv'
  BY <1>20 DEF UnsubscribeAsync
<1>21. ASSUME DisconnectReturns PROVE IInv'
  BY <1>21 DEF DisconnectReturns
<1>22. ASSUME UnsubscribeReturns PROVE IInv'
  BY <1>22 DEF UnsubscribeReturns
<1>23. ASSUME DisposeAsync PROVE IInv'
  BY <1>23 DEF DisposeAsync, MayDispose
<1>24. ASSUME Dispose PROVE IInv'
  BY <1>24 DEF Dispose, MayDispose
<1>25. ASSUME DisposeWaited PROVE IInv'
  BY <1>25 DEF DisposeWaited
<1>26. ASSUME CoreLocks PROVE IInv'
  BY <1>26 DEF CoreLocks
<1>27. ASSUME CoreCancels PROVE IInv'
  <2>1. /\ pc' \in [Tasks -> Labels]
        /\ \A u \in Tasks : pc'[u] = pc[u] \/ (pc[u] = "subscribing" /\ pc'[u] = "lost")
    BY <1>27, SeveredFacts DEF CoreCancels
  <2> QED
    BY <1>27, <2>1 DEF CoreCancels
<1>28. ASSUME CoreClosed PROVE IInv'
  BY <1>28 DEF CoreClosed
<1>29. ASSUME CoreReleases PROVE IInv'
  BY <1>29 DEF CoreReleases
<1>30. ASSUME CoreDisposesLock PROVE IInv'
  BY <1>30 DEF CoreDisposesLock
<1>31. ASSUME UNCHANGED vars PROVE IInv'
  BY <1>31 DEF vars
<1> QED
  BY <1>1, <1>2, <1>3, <1>4, <1>5, <1>6, <1>7, <1>8, <1>9, <1>10, <1>11, <1>12,
     <1>13, <1>14, <1>15, <1>16, <1>17, <1>18, <1>19, <1>20, <1>21, <1>22, <1>23, <1>24,
     <1>25, <1>26, <1>27, <1>28, <1>29, <1>30, <1>31
     DEF Next, Step, Reply, SubscribeReply, LoopStep, CallerStep, DisposerStep
-----------------------------------------------------------------------------

\* The inductive invariant holds in every reachable state.
THEOREM Invariance == Spec => []IInv
<1> QED
  BY InitInv, StepInv, PTL DEF Spec

\* The types of the variables.
THEOREM TypeCorrect == Spec => []TypeOK
<1>1. IInv => TypeOK
  BY DEF IInv
<1> QED
  BY <1>1, Invariance, PTL

\* ConnectAsync never calls the client while it is connected, connecting for
\* another task or disposed, however many reconnection loops there are.
THEOREM ConnectCallsLegalHolds == Spec => []ConnectCallsLegal
<1>1. IInv => ConnectCallsLegal
  BY DEF IInv
<1> QED
  BY <1>1, Invariance, PTL

\* Disposal, through DisposeAsync or Dispose, never overlaps an attempt to
\* connect.
THEOREM DisposalExclusiveHolds == Spec => []DisposalExclusive
<1>1. IInv => DisposalExclusive
  BY DEF IInv
<1> QED
  BY <1>1, Invariance, PTL

-----------------------------------------------------------------------------

\* What a loop does before it is about to subscribe again.
Reconnecting(h) == pc[h] \in {"event", "loop", "delay", "connect", "wait", "check", "open",
                              "connecting", "release", "returned"}

StopsMeanDisposal == cancelled \/ lockDisposed => disposed

\* Requests are in flight only on the connection there is.
RequestsMatchStatus ==
  ~disposed => \A t \in Tasks : /\ pc[t] = "subscribing" => status = "Connected"
                                /\ pc[t] = "connecting" => status = "Connecting"

\* The strengthening of NeverAbandoned: a task that is "lost", or about to
\* subscribe while the client is not connected, does not count, for it will do
\* nothing more; the loss that ruined it has started another loop.
HandedOver ==
  pc[Starter] = "started" /\ ~disposed /\ caller = "idle"
  => \/ status = "Connected" /\ session # "none"
     \/ status = "Connected" /\ \E h \in Handlers : pc[h] \in {"subscribe", "subscribing"}
     \/ \E h \in Handlers : Reconnecting(h)

WorkInv == StopsMeanDisposal /\ RequestsMatchStatus /\ HandedOver

LEMMA WorkInit == Init => WorkInv
  BY DEF Init, WorkInv, StopsMeanDisposal, RequestsMatchStatus, HandedOver, Tasks

LEMMA WorkStep == IInv /\ WorkInv /\ [Next]_vars => WorkInv'
<1> SUFFICES ASSUME IInv, WorkInv, [Next]_vars PROVE WorkInv'
  OBVIOUS
<1> USE DistinctOwners, TasksDistinct DEF IInv, WorkInv, Go, GaveUp, Tasks
<1> USE DEF TypeOK, LockHeld, Holding, DisposalFlagged, StopsMeanDisposal,
    RequestsMatchStatus, HandedOver, Reconnecting
<1>1. ASSUME NEW t \in Tasks, EnterConnect(t) PROVE WorkInv'
  BY <1>1 DEF EnterConnect
<1>2. ASSUME NEW t \in Tasks, CheckAgain(t) PROVE WorkInv'
  BY <1>2 DEF CheckAgain
<1>3. ASSUME NEW t \in Tasks, OpenConnection(t) PROVE WorkInv'
  BY <1>3 DEF OpenConnection
<1>4. ASSUME NEW t \in Tasks, ReleaseLock(t) PROVE WorkInv'
  BY <1>4 DEF ReleaseLock
<1>5. ASSUME NEW t \in Tasks, ConnectReturned(t) PROVE WorkInv'
  BY <1>5 DEF ConnectReturned
<1>6. ASSUME NEW t \in Tasks, Subscribe(t) PROVE WorkInv'
  BY <1>6 DEF Subscribe
<1>7. ASSUME NEW t \in Tasks, SubscriptionLost(t) PROVE WorkInv'
  BY <1>7 DEF SubscriptionLost
<1>8. ASSUME NEW t \in Tasks, AcquireLock(t) PROVE WorkInv'
  BY <1>8 DEF AcquireLock
<1>9. ASSUME NEW t \in Tasks, WaitCanceled(t) PROVE WorkInv'
  BY <1>9 DEF WaitCanceled
<1>10. ASSUME NEW t \in Tasks, AttemptSucceeds(t) PROVE WorkInv'
  BY <1>10 DEF AttemptSucceeds
<1>11. ASSUME NEW t \in Tasks, AttemptFails(t) PROVE WorkInv'
  <2> DEFINE pcs == [pc EXCEPT ![t] = "release"]
  <2>1. /\ pcs \in [Tasks -> Labels]
        /\ \A u \in Tasks : pc[u] = "idle" => pcs[u] = "idle"
    BY <1>11 DEF AttemptFails, Labels
  <2>2. /\ \A u \in Tasks : pc'[u] # pcs[u] => pcs[u] = "idle" /\ pc'[u] = "event"
        /\ \E h \in Handlers : pc'[h] = "event"
    BY <1>11, <2>1, RaiseFacts DEF AttemptFails
  <2>3. \A u \in Tasks \ {t} : pc[u] # "connecting" /\ (~disposed => pc[u] # "subscribing")
    BY <1>11 DEF AttemptFails
  <2> QED
    BY <1>11, <2>2, <2>3 DEF AttemptFails
<1>12. ASSUME NEW t \in Tasks, SubscriptionGranted(t) PROVE WorkInv'
  BY <1>12 DEF SubscriptionGranted
<1>13. ASSUME NEW t \in Tasks, SubscriptionRefused(t) PROVE WorkInv'
  BY <1>13 DEF SubscriptionRefused
<1>14. ASSUME NEW h \in Handlers, HandleDisconnection(h) PROVE WorkInv'
  BY <1>14 DEF HandleDisconnection
<1>15. ASSUME NEW h \in Handlers, LoopAgain(h) PROVE WorkInv'
  BY <1>15 DEF LoopAgain
<1>16. ASSUME NEW h \in Handlers, DelayEnds(h) PROVE WorkInv'
  BY <1>16 DEF DelayEnds
<1>17. ASSUME StartAsync PROVE WorkInv'
  BY <1>17 DEF StartAsync
<1>18. ASSUME ConnectionLost PROVE WorkInv'
  <2>1. /\ Severed(pc) \in [Tasks -> Labels]
        /\ \A u \in Tasks : pc[u] = "idle" => Severed(pc)[u] = "idle"
    BY SeveredFacts
  <2>2. /\ \A u \in Tasks : pc'[u] # Severed(pc)[u]
                               => Severed(pc)[u] = "idle" /\ pc'[u] = "event"
        /\ \E h \in Handlers : pc'[h] = "event"
    BY <1>18, <2>1, RaiseFacts DEF ConnectionLost
  <2>3. \A u \in Tasks : \/ pc'[u] = pc[u] /\ pc[u] # "subscribing"
                         \/ pc'[u] \in {"event", "lost"}
    BY <2>2, SeveredFacts
  <2> QED
    BY <1>18, <2>2, <2>3 DEF ConnectionLost
<1>19. ASSUME DisconnectAsync PROVE WorkInv'
  <2>1. CASE status = "Connected"
    <3>1. \A u \in Tasks : pc'[u] # "subscribing" /\ (pc'[u] = pc[u] \/ pc'[u] = "lost")
      BY <1>19, <2>1, SeveredFacts DEF DisconnectAsync
    <3> QED BY <1>19, <2>1, <3>1 DEF DisconnectAsync
  <2>2. CASE status # "Connected"
    BY <1>19, <2>2 DEF DisconnectAsync
  <2> QED BY <2>1, <2>2
<1>20. ASSUME UnsubscribeAsync PROVE WorkInv'
  BY <1>20 DEF UnsubscribeAsync
<1>21. ASSUME DisconnectReturns PROVE WorkInv'
  BY <1>21 DEF DisconnectReturns
<1>22. ASSUME UnsubscribeReturns PROVE WorkInv'
  BY <1>22 DEF UnsubscribeReturns
<1>23. ASSUME DisposeAsync PROVE WorkInv'
  BY <1>23 DEF DisposeAsync, MayDispose
<1>24. ASSUME Dispose PROVE WorkInv'
  BY <1>24 DEF Dispose, MayDispose
<1>25. ASSUME DisposeWaited PROVE WorkInv'
  BY <1>25 DEF DisposeWaited
<1>26. ASSUME CoreLocks PROVE WorkInv'
  BY <1>26 DEF CoreLocks
<1>27. ASSUME CoreCancels PROVE WorkInv'
  <2>1. disposed'
    BY <1>27 DEF CoreCancels
  <2> QED BY <2>1
<1>28. ASSUME CoreClosed PROVE WorkInv'
  BY <1>28 DEF CoreClosed
<1>29. ASSUME CoreReleases PROVE WorkInv'
  BY <1>29 DEF CoreReleases
<1>30. ASSUME CoreDisposesLock PROVE WorkInv'
  BY <1>30 DEF CoreDisposesLock
<1>31. ASSUME UNCHANGED vars PROVE WorkInv'
  BY <1>31 DEF vars
<1> QED
  BY <1>1, <1>2, <1>3, <1>4, <1>5, <1>6, <1>7, <1>8, <1>9, <1>10, <1>11, <1>12,
     <1>13, <1>14, <1>15, <1>16, <1>17, <1>18, <1>19, <1>20, <1>21, <1>22, <1>23, <1>24,
     <1>25, <1>26, <1>27, <1>28, <1>29, <1>30, <1>31
     DEF Next, Step, Reply, SubscribeReply, LoopStep, CallerStep, DisposerStep

\* A started service that is not being shut down, and is not connected and
\* subscribed, always has a reconnection loop at work.
THEOREM NeverAbandonedHolds == Spec => []NeverAbandoned
<1>1. IInv /\ WorkInv => NeverAbandoned
  BY DEF WorkInv, HandedOver, NeverAbandoned, Reconnecting, AtWork
<1>2. Spec => [](IInv /\ WorkInv)
  BY InitInv, WorkInit, StepInv, WorkStep, PTL DEF Spec
<1> QED
  BY <1>1, <1>2, PTL

-----------------------------------------------------------------------------

\* Why nobody is stranded: the disposing thread has the semaphore before it
\* tears anything down only if it took it in Dispose; whoever may still queue
\* when the semaphore is disposed was cancelled before, and start-up was over.
OwnLock ==
  /\ lock = Disposer => disposer = "waiting" \/ TearingDown
  /\ disposer = "entering" \/ SelfBlocked => "Dispose" \in DisposeCalls

CancelledInTime == cancelled <=> disposer \in {"closing", "finishing", "released", "done"}

SemaphoreGone == lockDisposed => disposer = "done"

StartUpOver == disposer # "idle" => pc[Starter] \in {"started", "failed"}

LockInv == OwnLock /\ CancelledInTime /\ SemaphoreGone /\ StartUpOver

LEMMA LockInit == Init => LockInv
  BY DistinctOwners DEF Init, LockInv, OwnLock, SelfBlocked, TearingDown, CancelledInTime,
     SemaphoreGone, StartUpOver

LEMMA LockStep == IInv /\ LockInv /\ [Next]_vars => LockInv'
<1> SUFFICES ASSUME IInv, LockInv, [Next]_vars PROVE LockInv'
  OBVIOUS
<1> USE DistinctOwners, TasksDistinct DEF IInv, LockInv, Go, GaveUp
<1> USE DEF TypeOK, LockHeld, Holding, DisposerHolds, TearingDown, OwnLock, SelfBlocked,
    CancelledInTime, SemaphoreGone, StartUpOver
<1>1. ASSUME NEW t \in Tasks, EnterConnect(t) PROVE LockInv'
  <2>1. pc[Starter] \in {"started", "failed"} => pc'[Starter] = pc[Starter]
    BY <1>1 DEF EnterConnect, Tasks
  <2> QED
    BY <1>1, <2>1 DEF EnterConnect
<1>2. ASSUME NEW t \in Tasks, CheckAgain(t) PROVE LockInv'
  <2>1. pc[Starter] \in {"started", "failed"} => pc'[Starter] = pc[Starter]
    BY <1>2 DEF CheckAgain, Tasks
  <2> QED
    BY <1>2, <2>1 DEF CheckAgain
<1>3. ASSUME NEW t \in Tasks, OpenConnection(t) PROVE LockInv'
  <2>1. pc[Starter] \in {"started", "failed"} => pc'[Starter] = pc[Starter]
    BY <1>3 DEF OpenConnection, Tasks
  <2> QED
    BY <1>3, <2>1 DEF OpenConnection
<1>4. ASSUME NEW t \in Tasks, ReleaseLock(t) PROVE LockInv'
  BY <1>4 DEF ReleaseLock
<1>5. ASSUME NEW t \in Tasks, ConnectReturned(t) PROVE LockInv'
  BY <1>5 DEF ConnectReturned
<1>6. ASSUME NEW t \in Tasks, Subscribe(t) PROVE LockInv'
  BY <1>6 DEF Subscribe
<1>7. ASSUME NEW t \in Tasks, SubscriptionLost(t) PROVE LockInv'
  BY <1>7 DEF SubscriptionLost
<1>8. ASSUME NEW t \in Tasks, AcquireLock(t) PROVE LockInv'
  BY <1>8 DEF AcquireLock
<1>9. ASSUME NEW t \in Tasks, WaitCanceled(t) PROVE LockInv'
  BY <1>9 DEF WaitCanceled
<1>10. ASSUME NEW t \in Tasks, AttemptSucceeds(t) PROVE LockInv'
  BY <1>10 DEF AttemptSucceeds
<1>11. ASSUME NEW t \in Tasks, AttemptFails(t) PROVE LockInv'
  <2>1. PICK h \in Handlers : pc' = [[pc EXCEPT ![t] = "release"] EXCEPT ![h] = "event"]
    BY <1>11 DEF AttemptFails, RaiseDisconnected
  <2>2. pc[Starter] \in {"started", "failed"} => pc'[Starter] = pc[Starter]
    BY <1>11, <2>1 DEF AttemptFails, Tasks
  <2> QED
    BY <1>11, <2>2 DEF AttemptFails
<1>12. ASSUME NEW t \in Tasks, SubscriptionGranted(t) PROVE LockInv'
  BY <1>12 DEF SubscriptionGranted
<1>13. ASSUME NEW t \in Tasks, SubscriptionRefused(t) PROVE LockInv'
  BY <1>13 DEF SubscriptionRefused
<1>14. ASSUME NEW h \in Handlers, HandleDisconnection(h) PROVE LockInv'
  BY <1>14 DEF HandleDisconnection
<1>15. ASSUME NEW h \in Handlers, LoopAgain(h) PROVE LockInv'
  BY <1>15 DEF LoopAgain
<1>16. ASSUME NEW h \in Handlers, DelayEnds(h) PROVE LockInv'
  BY <1>16 DEF DelayEnds
<1>17. ASSUME StartAsync PROVE LockInv'
  BY <1>17 DEF StartAsync
<1>18. ASSUME ConnectionLost PROVE LockInv'
  <2>1. PICK h \in Handlers : pc' = [Severed(pc) EXCEPT ![h] = "event"]
    BY <1>18 DEF ConnectionLost, RaiseDisconnected
  <2>2. pc[Starter] \in {"started", "failed"} => pc'[Starter] = pc[Starter]
    BY <2>1 DEF Severed, Tasks
  <2> QED
    BY <1>18, <2>2 DEF ConnectionLost
<1>19. ASSUME DisconnectAsync PROVE LockInv'
  BY <1>19 DEF DisconnectAsync, Severed, Tasks
<1>20. ASSUME UnsubscribeAsync PROVE LockInv'
  BY <1>20 DEF UnsubscribeAsync
<1>21. ASSUME DisconnectReturns PROVE LockInv'
  BY <1>21 DEF DisconnectReturns
<1>22. ASSUME UnsubscribeReturns PROVE LockInv'
  BY <1>22 DEF UnsubscribeReturns
<1>23. ASSUME DisposeAsync PROVE LockInv'
  BY <1>23 DEF DisposeAsync, MayDispose
<1>24. ASSUME Dispose PROVE LockInv'
  BY <1>24 DEF Dispose, MayDispose
<1>25. ASSUME DisposeWaited PROVE LockInv'
  BY <1>25 DEF DisposeWaited
<1>26. ASSUME CoreLocks PROVE LockInv'
  BY <1>26 DEF CoreLocks
<1>27. ASSUME CoreCancels PROVE LockInv'
  BY <1>27 DEF CoreCancels, Severed, Tasks
<1>28. ASSUME CoreClosed PROVE LockInv'
  BY <1>28 DEF CoreClosed
<1>29. ASSUME CoreReleases PROVE LockInv'
  BY <1>29 DEF CoreReleases
<1>30. ASSUME CoreDisposesLock PROVE LockInv'
  BY <1>30 DEF CoreDisposesLock
<1>31. ASSUME UNCHANGED vars PROVE LockInv'
  BY <1>31 DEF vars
<1> QED
  BY <1>1, <1>2, <1>3, <1>4, <1>5, <1>6, <1>7, <1>8, <1>9, <1>10, <1>11, <1>12,
     <1>13, <1>14, <1>15, <1>16, <1>17, <1>18, <1>19, <1>20, <1>21, <1>22, <1>23, <1>24,
     <1>25, <1>26, <1>27, <1>28, <1>29, <1>30, <1>31
     DEF Next, Step, Reply, SubscribeReply, LoopStep, CallerStep, DisposerStep

\* Nobody waits for _connectionLock in vain, but for the flaw of Dispose.
THEOREM NobodyStrandedHolds == Spec => []NobodyStranded
<1>1. IInv /\ LockInv => NobodyStranded
  <2> SUFFICES ASSUME IInv, LockInv PROVE NobodyStranded
    OBVIOUS
  <2>1. lock # NoOne => \/ lock \in Tasks
                        \/ TearingDown /\ lock = Disposer
                        \/ SelfBlocked /\ "Dispose" \in DisposeCalls
    BY DEF IInv, TypeOK, LockInv, OwnLock, SelfBlocked
  <2>2. \A t \in Tasks : pc[t] = "wait" /\ lockDisposed => t # Starter /\ cancelled
    BY DEF LockInv, SemaphoreGone, CancelledInTime, StartUpOver
  <2> QED
    BY <2>1, <2>2 DEF NobodyStranded, IInv, LockHeld, Holding, TearingDown
<1>2. Spec => [](IInv /\ LockInv)
  BY InitInv, LockInit, StepInv, LockStep, PTL DEF Spec
<1> QED
  BY <1>1, <1>2, PTL

\* An owner that only calls DisposeAsync never has the disposing thread wait
\* for a semaphore it has taken itself.
THEOREM DisposeAsyncSafe ==
  ASSUME "Dispose" \notin DisposeCalls
  PROVE  Spec => []~SelfBlocked
<1>1. LockInv => ~SelfBlocked
  BY DEF LockInv, OwnLock
<1>2. Spec => []LockInv
  BY InitInv, LockInit, StepInv, LockStep, PTL DEF Spec
<1> QED
  BY <1>1, <1>2, PTL

\* Dispose that has found the semaphore free never returns, and every loop that
\* is queued behind it stays queued: nothing in the program ever releases what
\* Dispose took, and the cancellation that would free the loops comes after.
LEMMA SelfBlockedStep ==
  IInv /\ LockInv /\ SelfBlocked /\ [Next]_vars
    => SelfBlocked' /\ \A u \in Tasks : pc[u] = "wait" => pc'[u] = "wait"
<1> DEFINE Kept == SelfBlocked' /\ \A u \in Tasks : pc[u] = "wait" => pc'[u] = "wait"
<1> SUFFICES ASSUME IInv, LockInv, SelfBlocked, [Next]_vars PROVE Kept
  OBVIOUS
<1> USE DistinctOwners, TasksDistinct DEF IInv, LockInv, Go, GaveUp, SelfBlocked
<1> USE DEF TypeOK, LockHeld, Holding, CancelledInTime, StartUpOver
<1>1. ASSUME NEW t \in Tasks, EnterConnect(t) PROVE Kept
  BY <1>1 DEF EnterConnect
<1>2. ASSUME NEW t \in Tasks, CheckAgain(t) PROVE Kept
  BY <1>2 DEF CheckAgain
<1>3. ASSUME NEW t \in Tasks, OpenConnection(t) PROVE Kept
  BY <1>3 DEF OpenConnection
<1>4. ASSUME NEW t \in Tasks, ReleaseLock(t) PROVE Kept
  BY <1>4 DEF ReleaseLock
<1>5. ASSUME NEW t \in Tasks, ConnectReturned(t) PROVE Kept
  BY <1>5 DEF ConnectReturned
<1>6. ASSUME NEW t \in Tasks, Subscribe(t) PROVE Kept
  BY <1>6 DEF Subscribe
<1>7. ASSUME NEW t \in Tasks, SubscriptionLost(t) PROVE Kept
  BY <1>7 DEF SubscriptionLost
<1>8. ASSUME NEW t \in Tasks, AcquireLock(t) PROVE Kept
  BY <1>8 DEF AcquireLock
<1>9. ASSUME NEW t \in Tasks, WaitCanceled(t) PROVE Kept
  BY <1>9 DEF WaitCanceled
<1>10. ASSUME NEW t \in Tasks, AttemptSucceeds(t) PROVE Kept
  BY <1>10 DEF AttemptSucceeds
<1>11. ASSUME NEW t \in Tasks, AttemptFails(t) PROVE Kept
  <2>1. PICK h \in Handlers : /\ pc[h] = "idle"
                              /\ pc' = [[pc EXCEPT ![t] = "release"] EXCEPT ![h] = "event"]
    BY <1>11 DEF AttemptFails, RaiseDisconnected
  <2>2. \A u \in Tasks : pc[u] = "wait" => pc'[u] = "wait"
    BY <1>11, <2>1 DEF AttemptFails, Tasks
  <2> QED
    BY <1>11, <2>2 DEF AttemptFails
<1>12. ASSUME NEW t \in Tasks, SubscriptionGranted(t) PROVE Kept
  BY <1>12 DEF SubscriptionGranted
<1>13. ASSUME NEW t \in Tasks, SubscriptionRefused(t) PROVE Kept
  BY <1>13 DEF SubscriptionRefused
<1>14. ASSUME NEW h \in Handlers, HandleDisconnection(h) PROVE Kept
  BY <1>14 DEF HandleDisconnection
<1>15. ASSUME NEW h \in Handlers, LoopAgain(h) PROVE Kept
  BY <1>15 DEF LoopAgain
<1>16. ASSUME NEW h \in Handlers, DelayEnds(h) PROVE Kept
  BY <1>16 DEF DelayEnds
<1>17. ASSUME StartAsync PROVE Kept
  BY <1>17 DEF StartAsync
<1>18. ASSUME ConnectionLost PROVE Kept
  <2>1. PICK h \in Handlers : pc[h] = "idle" /\ pc' = [Severed(pc) EXCEPT ![h] = "event"]
    BY <1>18 DEF ConnectionLost, RaiseDisconnected
  <2>2. \A u \in Tasks : pc[u] = "wait" => pc'[u] = "wait"
    BY <1>18, <2>1 DEF ConnectionLost, Severed, Tasks
  <2> QED
    BY <1>18, <2>2 DEF ConnectionLost
<1>19. ASSUME DisconnectAsync PROVE Kept
  BY <1>19 DEF DisconnectAsync, Severed, Tasks
<1>20. ASSUME UnsubscribeAsync PROVE Kept
  BY <1>20 DEF UnsubscribeAsync
<1>21. ASSUME DisconnectReturns PROVE Kept
  BY <1>21 DEF DisconnectReturns
<1>22. ASSUME UnsubscribeReturns PROVE Kept
  BY <1>22 DEF UnsubscribeReturns
<1>23. ASSUME DisposeAsync PROVE Kept
  BY <1>23 DEF DisposeAsync, MayDispose
<1>24. ASSUME Dispose PROVE Kept
  BY <1>24 DEF Dispose, MayDispose
<1>25. ASSUME DisposeWaited PROVE Kept
  BY <1>25 DEF DisposeWaited
<1>26. ASSUME CoreLocks PROVE Kept
  BY <1>26 DEF CoreLocks
<1>27. ASSUME CoreCancels PROVE Kept
  BY <1>27 DEF CoreCancels, Severed, Tasks
<1>28. ASSUME CoreClosed PROVE Kept
  BY <1>28 DEF CoreClosed
<1>29. ASSUME CoreReleases PROVE Kept
  BY <1>29 DEF CoreReleases
<1>30. ASSUME CoreDisposesLock PROVE Kept
  BY <1>30 DEF CoreDisposesLock
<1>31. ASSUME UNCHANGED vars PROVE Kept
  BY <1>31 DEF vars
<1> QED
  BY <1>1, <1>2, <1>3, <1>4, <1>5, <1>6, <1>7, <1>8, <1>9, <1>10, <1>11, <1>12,
     <1>13, <1>14, <1>15, <1>16, <1>17, <1>18, <1>19, <1>20, <1>21, <1>22, <1>23, <1>24,
     <1>25, <1>26, <1>27, <1>28, <1>29, <1>30, <1>31
     DEF Next, Step, Reply, SubscribeReply, LoopStep, CallerStep, DisposerStep

\* The flaw of Dispose, in every instance: once it waits for what it holds, it
\* waits for ever.
THEOREM DisposeNeverReturns == Spec => [](SelfBlocked => []SelfBlocked)
<1>1. Spec => [](IInv /\ LockInv)
  BY InitInv, LockInit, StepInv, LockStep, PTL DEF Spec
<1>2. IInv /\ LockInv /\ SelfBlocked /\ [Next]_vars => SelfBlocked'
  BY SelfBlockedStep
<1> QED
  BY <1>1, <1>2, PTL DEF Spec

\* A reconnection loop that is queued behind such a Dispose is never resumed and
\* never cancelled.
THEOREM LoopsQueuedForEver ==
  ASSUME NEW h \in Handlers
  PROVE  Spec => [](SelfBlocked /\ pc[h] = "wait" => [](pc[h] = "wait"))
<1>1. Spec => [](IInv /\ LockInv)
  BY InitInv, LockInit, StepInv, LockStep, PTL DEF Spec
<1>2. IInv /\ LockInv /\ SelfBlocked /\ pc[h] = "wait" /\ [Next]_vars
        => SelfBlocked' /\ (pc[h] = "wait")'
  BY SelfBlockedStep DEF Tasks
<1> QED
  BY <1>1, <1>2, PTL DEF Spec
-----------------------------------------------------------------------------

\* Connected without the topics, and no task is on its way to ask for them.
Deaf ==
  /\ status = "Connected" /\ session \in {"refused", "unsubscribed"}
  /\ \A h \in Handlers : pc[h] \in {"idle", "done"}
  /\ pc[Starter] \in {"started", "failed"}

\* Nothing in the program moves a deaf service: its tasks are at their ends, and
\* only an event would start another.
LEMMA DeafStep ==
  ASSUME TypeOK, [Next]_vars, Deaf, status' = "Connected"
  PROVE  Deaf'
<1> USE TasksDistinct DEF TypeOK, Deaf, Go, Tasks, Labels
<1>1. \A t \in Tasks : pc[t] \in {"idle", "done", "started", "failed"}
  OBVIOUS
<1>2. ASSUME NEW t \in Tasks, Step(t) \/ Reply(t) \/ SubscribeReply(t) PROVE FALSE
  BY <1>1, <1>2 DEF Step, Reply, SubscribeReply, EnterConnect, CheckAgain, OpenConnection,
     ReleaseLock, ConnectReturned, Subscribe, SubscriptionLost, AttemptSucceeds, AttemptFails,
     SubscriptionGranted, SubscriptionRefused
<1>3. ASSUME NEW t \in Tasks, AcquireLock(t) \/ WaitCanceled(t) PROVE FALSE
  BY <1>1, <1>3 DEF AcquireLock, WaitCanceled
<1>4. ASSUME NEW h \in Handlers, LoopStep(h) PROVE FALSE
  BY <1>4 DEF LoopStep, HandleDisconnection, LoopAgain, DelayEnds
<1>5. CASE StartAsync \/ ConnectionLost \/ DisconnectAsync
  BY <1>5 DEF StartAsync, ConnectionLost, DisconnectAsync
<1>6. CASE UnsubscribeAsync \/ CallerStep
  BY <1>6 DEF UnsubscribeAsync, CallerStep, DisconnectReturns, UnsubscribeReturns
<1>7. CASE DisposeAsync \/ Dispose \/ CoreLocks \/ DisposerStep
  BY <1>7 DEF DisposeAsync, Dispose, DisposerStep, DisposeWaited, CoreLocks, CoreCancels,
     CoreClosed, CoreReleases, CoreDisposesLock
<1>8. CASE UNCHANGED vars
  BY <1>8 DEF vars
<1> QED
  BY <1>2, <1>3, <1>4, <1>5, <1>6, <1>7, <1>8 DEF Next

\* A connection whose topics were refused stays deaf for as long as it lasts: as
\* nobody acts on the answer (SubscriptionRefused), nobody asks again; only another
\* connection can bring the subscription about.
THEOREM DeafUntilDisconnected ==
  Spec => [][Deaf => (Deaf \/ status # "Connected")']_vars
<1>1. TypeOK /\ [Next]_vars => [Deaf => (Deaf \/ status # "Connected")']_vars
  BY DeafStep
<1> QED
  BY <1>1, TypeCorrect, PTL DEF Spec
=============================================================================
