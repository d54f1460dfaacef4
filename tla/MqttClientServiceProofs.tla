----------------------- MODULE MqttClientServiceProofs -----------------------
(***************************************************************************)
(* Proofs about MqttClientService, for any number of reconnection loops.   *)
(***************************************************************************)
EXTENDS MqttClientService, TLAPS

\* A request is in flight only on the connection there is.
RequestsMatchStatus ==
  ~disposed => \A t \in Tasks : /\ pc[t] = "subscribing" => status = "Connected"
                                /\ pc[t] = "connecting" => status = "Connecting"

\* The client lets one attempt through at a time.
OneAttempt ==
  ~disposed => \A t, u \in Tasks : pc[t] = "connecting" /\ pc[u] = "connecting" => t = u

\* Nothing happens to the client before start-up's attempt.
StartUpFirst ==
  pc[Starter] \in {"idle", "connect", "open", "connecting"}
    => ~disposed /\ status = IF pc[Starter] = "connecting" THEN "Connecting" ELSE "Disconnected"

StopsMeanDisposal ==
  token # "live" \/ disposer # "idle" \/ status = "Disposed" => disposed

\* Whoever made the connection is on its way to subscribe.
Tended ==
  ~disposed /\ status = "Connected" /\ session = "none"
    => \E t \in Tasks : pc[t] \in {"returned", "subscribe", "subscribing"}

\* Where a loop is before the attempt that makes the connection is over.
Reconnecting(h) ==
  pc[h] \in {"event", "loop", "delay", "connect", "open", "connecting", "returned"}

\* A connection that ended after start-up's attempt has a loop working on it.
Pursued ==
  ~disposed /\ status \in {"Disconnected", "Connecting"}
            /\ pc[Starter] \notin {"idle", "connect", "open", "connecting", "failed"}
    => \E h \in Handlers : Reconnecting(h)

\* The owner's disconnection is what makes the client disconnecting.
Disconnecting == ~disposed /\ status = "Disconnecting" => caller = "disconnecting"

\* Of the tasks only start-up has its places, only loops have theirs.
Places ==
  /\ \A h \in Handlers : pc[h] \notin {"greet", "started", "failed"}
  /\ pc[Starter] \notin {"event", "loop", "delay", "done"}

IInv ==
  /\ TypeOK
  /\ RequestsMatchStatus
  /\ OneAttempt
  /\ StartUpFirst
  /\ StopsMeanDisposal
  /\ Tended
  /\ Pursued
  /\ Disconnecting
  /\ Places
  /\ StartUpAlone

-----------------------------------------------------------------------------

\* What the events of the library do to the program counters.
LEMMA SeveredFacts ==
  ASSUME NEW pcs \in [Tasks -> Labels]
  PROVE  /\ Severed(pcs) \in [Tasks -> Labels]
         /\ \A t \in Tasks : pcs[t] # "subscribing" => Severed(pcs)[t] = pcs[t]
         /\ \A t \in Tasks : pcs[t] = "subscribing" => Severed(pcs)[t] = "lost"
  BY DEF Severed, Labels

LEMMA RaiseFacts ==
  ASSUME NEW pcs \in [Tasks -> Labels], RaiseDisconnected(pcs),
         TypeOK, \A t \in Tasks : pc[t] = "idle" => pcs[t] = "idle"
  PROVE  /\ pc' \in [Tasks -> Labels]
         /\ \A t \in Tasks : pc'[t] # pcs[t]
                => t \in Handlers /\ pcs[t] = "idle" /\ pc'[t] = "event"
         /\ ~disposed => \E h \in Handlers : pc'[h] = "event"
<1>1. CASE disposed
  BY <1>1 DEF RaiseDisconnected
<1>2. CASE ~disposed
  <2>1. PICK h \in Handlers : pc[h] = "idle" /\ pc' = [pcs EXCEPT ![h] = "event"]
    BY <1>2 DEF RaiseDisconnected
  <2>2. h \in Tasks
    BY <2>1 DEF Tasks
  <2> QED
    BY <2>1, <2>2 DEF Labels
<1> QED
  BY <1>1, <1>2

LEMMA InitInv == Init => IInv
<1> USE StarterIsNoHandler DEF Tasks
<1>1. Init => TypeOK
  BY DEF Init, TypeOK, Labels
<1> QED
  BY <1>1 DEF Init, IInv, RequestsMatchStatus, OneAttempt, StartUpFirst,
     StopsMeanDisposal, Tended, Pursued,
     Disconnecting, Places, StartUpAlone

LEMMA StepInv == IInv /\ [Next]_vars => IInv'
<1> SUFFICES ASSUME IInv, [Next]_vars PROVE IInv'
  OBVIOUS
<1> USE StarterIsNoHandler DEF IInv, Go, Thrown, Subscribed, Tasks
<1> USE DEF TypeOK, Labels, RequestsMatchStatus, OneAttempt, StartUpFirst, StopsMeanDisposal, Tended, Pursued,
    Reconnecting, Disconnecting, Places, StartUpAlone
<1>1. ASSUME NEW t \in Tasks, EnterConnect(t) PROVE IInv'
  BY <1>1 DEF EnterConnect
<1>2. ASSUME NEW t \in Tasks, OpenConnection(t) PROVE IInv'
  BY <1>2 DEF OpenConnection
<1>3. ASSUME NEW t \in Tasks, ConnectReturned(t) PROVE IInv'
  BY <1>3 DEF ConnectReturned
<1>4. ASSUME NEW t \in Tasks, Subscribe(t) PROVE IInv'
  BY <1>4 DEF Subscribe
<1>5. ASSUME NEW t \in Tasks, SubscriptionLost(t) PROVE IInv'
  BY <1>5 DEF SubscriptionLost
<1>6. ASSUME NEW t \in Tasks, AttemptSucceeds(t) PROVE IInv'
  BY <1>6 DEF AttemptSucceeds
<1>7. ASSUME NEW t \in Tasks, AttemptFails(t) PROVE IInv'
  <2>1. PICK to \in {Thrown(t), "returned", "done"} :
          /\ to = "done" => token # "live"
          /\ RaiseDisconnected([pc EXCEPT ![t] = to])
    BY <1>7 DEF AttemptFails
  <2> DEFINE pcs == [pc EXCEPT ![t] = to]
  <2>2. /\ pcs \in [Tasks -> Labels]
        /\ \A u \in Tasks : pc[u] = "idle" => pcs[u] = "idle"
    BY <1>7, <2>1 DEF AttemptFails
  <2>3. /\ pc' \in [Tasks -> Labels]
        /\ \A u \in Tasks : pc'[u] # pcs[u]
                => u \in Handlers /\ pcs[u] = "idle" /\ pc'[u] = "event"
        /\ ~disposed => \E h \in Handlers : pc'[h] = "event"
    BY <2>1, <2>2, RaiseFacts
  <2>4. /\ pc[t] = "connecting" /\ pc'[t] = to
        /\ \A u \in Tasks \ {t} :
             pc'[u] = pc[u] \/ (u \in Handlers /\ pc[u] = "idle" /\ pc'[u] = "event")
    BY <1>7, <2>1, <2>3 DEF AttemptFails
  <2> HIDE DEF pcs
  <2> QED
    BY <1>7, <2>1, <2>3, <2>4 DEF AttemptFails
<1>8. ASSUME NEW t \in Tasks, SubscriptionGranted(t) PROVE IInv'
  BY <1>8 DEF SubscriptionGranted
<1>9. ASSUME NEW t \in Tasks, SubscriptionRefused(t) PROVE IInv'
  BY <1>9 DEF SubscriptionRefused
<1>10. ASSUME NEW h \in Handlers, HandleDisconnection(h) PROVE IInv'
  BY <1>10 DEF HandleDisconnection
<1>11. ASSUME NEW h \in Handlers, LoopAgain(h) PROVE IInv'
  BY <1>11 DEF LoopAgain
<1>12. ASSUME NEW h \in Handlers, DelayEnds(h) PROVE IInv'
  BY <1>12 DEF DelayEnds
<1>13. ASSUME Initialize PROVE IInv'
  BY <1>13 DEF Initialize
<1>14. ASSUME Greet PROVE IInv'
  BY <1>14 DEF Greet
<1>15. ASSUME ConnectionLost PROVE IInv'
  <2>1. /\ Severed(pc) \in [Tasks -> Labels]
        /\ \A u \in Tasks : pc[u] = "idle" => Severed(pc)[u] = "idle"
    BY SeveredFacts
  <2>2. /\ pc' \in [Tasks -> Labels]
        /\ \A u \in Tasks : pc'[u] # Severed(pc)[u]
                => u \in Handlers /\ Severed(pc)[u] = "idle" /\ pc'[u] = "event"
        /\ ~disposed => \E h \in Handlers : pc'[h] = "event"
    BY <1>15, <2>1, RaiseFacts DEF ConnectionLost
  <2>3. \A u \in Tasks : \/ pc'[u] = pc[u] /\ pc[u] # "subscribing"
                         \/ u \in Handlers /\ pc[u] = "idle" /\ pc'[u] = "event"
                         \/ pc[u] = "subscribing" /\ pc'[u] = "lost"
    BY <2>2, SeveredFacts
  <2> QED
    BY <1>15, <2>2, <2>3 DEF ConnectionLost
<1>16. ASSUME DisconnectAsync PROVE IInv'
  <2>1. CASE status = "Connected"
    <3>1. /\ pc' \in [Tasks -> Labels]
          /\ \A u \in Tasks : \/ pc'[u] = pc[u] /\ pc[u] # "subscribing"
                              \/ pc[u] = "subscribing" /\ pc'[u] = "lost"
      BY <1>16, <2>1, SeveredFacts DEF DisconnectAsync
    <3> QED
      BY <1>16, <2>1, <3>1 DEF DisconnectAsync
  <2>2. CASE status # "Connected"
    BY <1>16, <2>2 DEF DisconnectAsync
  <2> QED
    BY <2>1, <2>2
<1>17. ASSUME DisconnectReturns PROVE IInv'
  <2>1. CASE status = "Disconnecting"
    <3>1. /\ pc' \in [Tasks -> Labels]
          /\ \A u \in Tasks : pc'[u] # pc[u]
                => u \in Handlers /\ pc[u] = "idle" /\ pc'[u] = "event"
          /\ ~disposed => \E h \in Handlers : pc'[h] = "event"
      BY <1>17, <2>1, RaiseFacts DEF DisconnectReturns
    <3> QED
      BY <1>17, <2>1, <3>1 DEF DisconnectReturns
  <2>2. CASE status # "Disconnecting"
    BY <1>17, <2>2 DEF DisconnectReturns
  <2> QED
    BY <2>1, <2>2
<1>18. ASSUME UnsubscribeAsync PROVE IInv'
  BY <1>18 DEF UnsubscribeAsync
<1>19. ASSUME UnsubscribeReturns PROVE IInv'
  BY <1>19 DEF UnsubscribeReturns
<1>20. ASSUME DisposeAsync PROVE IInv'
  BY <1>20 DEF DisposeAsync
<1>21. ASSUME DisposeCancels PROVE IInv'
  BY <1>21 DEF DisposeCancels
<1>22. ASSUME DisposeDisconnects \/ DisposeClient PROVE IInv'
  <2>1. /\ pc' \in [Tasks -> Labels] /\ disposed /\ disposed'
        /\ \A u \in Tasks : pc'[u] = pc[u] \/ (pc[u] = "subscribing" /\ pc'[u] = "lost")
    BY <1>22, SeveredFacts DEF DisposeDisconnects, DisposeClient
  <2>2. Places' /\ StartUpAlone' /\ StartUpFirst'
    BY <2>1
  <2>3. TypeOK' /\ StopsMeanDisposal'
    BY <1>22, <2>1 DEF DisposeDisconnects, DisposeClient
  <2> QED
    BY <2>1, <2>2, <2>3
<1>23. ASSUME DisposeClosed PROVE IInv'
  BY <1>23 DEF DisposeClosed
<1>24. ASSUME DisposeToken PROVE IInv'
  BY <1>24 DEF DisposeToken
<1>25. ASSUME UNCHANGED vars PROVE IInv'
  BY <1>25 DEF vars
<1> QED
  BY <1>1, <1>2, <1>3, <1>4, <1>5, <1>6, <1>7, <1>8, <1>9, <1>10, <1>11, <1>12, <1>13,
     <1>14, <1>15, <1>16, <1>17, <1>18, <1>19, <1>20, <1>21, <1>22, <1>23, <1>24, <1>25
     DEF Next, Step, Reply, LoopStep, StarterStep, CallerStep, DisposerStep

LEMMA ServiceInvariance == Spec => []IInv
  BY InitInv, StepInv, PTL DEF Spec

-----------------------------------------------------------------------------

\* The types of the variables.
THEOREM ServiceTypeCorrect == Spec => []TypeOK
<1>1. IInv => TypeOK
  BY DEF IInv
<1> QED
  BY <1>1, ServiceInvariance, PTL

\* No loop runs beside start-up's own attempt to connect.
THEOREM StartUpAloneHolds == Spec => []StartUpAlone
<1>1. IInv => StartUpAlone
  BY DEF IInv
<1> QED
  BY <1>1, ServiceInvariance, PTL

\* However many loops there are and wherever they leave, an application that is
\* not served always has one at work, although nothing serialises them.
THEOREM ApplicationNeverAbandoned == Spec => []NeverAbandoned
<1>1. IInv => NeverAbandoned
  BY StarterIsNoHandler DEF IInv, TypeOK, StopsMeanDisposal, Tended, Pursued, Reconnecting,
     Disconnecting, Places, NeverAbandoned, Served, Tasks
<1> QED
  BY <1>1, ServiceInvariance, PTL
-----------------------------------------------------------------------------

\* Connected without the topics, and no task is on its way to ask for them.
Deaf ==
  /\ status = "Connected" /\ session \in {"refused", "unsubscribed"}
  /\ \A h \in Handlers : pc[h] \in {"idle", "done"}
  /\ pc[Starter] \in {"greet", "started", "failed"}

\* Nothing in the program moves a deaf service: its tasks are at their ends, and
\* only an event would start another.
LEMMA DeafStep ==
  ASSUME TypeOK, [Next]_vars, Deaf, status' = "Connected"
  PROVE  Deaf'
<1> USE StarterIsNoHandler DEF TypeOK, Deaf, Go, Tasks, Labels
<1>1. \A t \in Tasks : pc[t] \in {"idle", "done", "greet", "started", "failed"}
  OBVIOUS
<1>2. ASSUME NEW t \in Tasks, Step(t) \/ Reply(t) PROVE FALSE
  BY <1>1, <1>2 DEF Step, Reply, EnterConnect, OpenConnection, ConnectReturned, Subscribe,
     SubscriptionLost, AttemptSucceeds, AttemptFails, SubscriptionGranted, SubscriptionRefused
<1>3. ASSUME NEW h \in Handlers, LoopStep(h) PROVE FALSE
  BY <1>3 DEF LoopStep, HandleDisconnection, LoopAgain, DelayEnds
<1>4. CASE StarterStep
  BY <1>4 DEF StarterStep, Initialize, Greet, Subscribed
<1>5. CASE ConnectionLost \/ DisconnectAsync
  BY <1>5 DEF ConnectionLost, DisconnectAsync
<1>6. CASE UnsubscribeAsync \/ CallerStep
  BY <1>6 DEF UnsubscribeAsync, CallerStep, DisconnectReturns, UnsubscribeReturns
<1>7. CASE DisposeAsync \/ DisposerStep
  BY <1>7 DEF DisposeAsync, DisposerStep, DisposeCancels, DisposeDisconnects, DisposeClosed,
     DisposeToken, DisposeClient
<1>8. CASE UNCHANGED vars
  BY <1>8 DEF vars
<1> QED
  BY <1>2, <1>3, <1>4, <1>5, <1>6, <1>7, <1>8 DEF Next

\* A connection whose topics were refused stays deaf for as long as it lasts: as
\* nobody acts on the answer (Subscribed), nobody asks again; only another
\* connection can bring the subscription about.
THEOREM DeafUntilDisconnected ==
  Spec => [][Deaf => (Deaf \/ status # "Connected")']_vars
<1>1. TypeOK /\ [Next]_vars => [Deaf => (Deaf \/ status # "Connected")']_vars
  BY DeafStep
<1> QED
  BY <1>1, ServiceTypeCorrect, PTL DEF Spec
=============================================================================
