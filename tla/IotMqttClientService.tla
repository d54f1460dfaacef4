------------------------ MODULE IotMqttClientService ------------------------
(***************************************************************************)
(* The MQTT connection of the IoT monitor: the class MqttClientService of  *)
(* src/iot-monitor and the host that owns it (Worker.cs, Program.cs).      *)
(*                                                                         *)
(* One task runs StartAsync.  The client library runs one task for every   *)
(* DisconnectedAsync event, and it raises that event when a connection is  *)
(* lost and also when a connection attempt fails, so that each failure     *)
(* starts one more reconnection loop beside the ones already running.  All *)
(* of them go through ConnectAsync, which a semaphore serialises.  The     *)
(* host disposes the service, through DisposeAsync; Dispose is the         *)
(* synchronous alternative the class offers.                               *)
(***************************************************************************)
CONSTANTS
  Starter,      \* the task that runs StartAsync
  Handlers,     \* the event tasks: bounds failed attempts plus lost connections
  Disposer,     \* the host thread that disposes the service
  NoOne,        \* the semaphore is free
  DisposeCalls, \* which of "DisposeAsync" and "Dispose" the owner may call
  CallerOps     \* which of "DisconnectAsync" and "UnsubscribeAsync" it may call

ASSUME TasksDistinct ==
  /\ Starter \notin Handlers /\ Disposer \notin Handlers /\ NoOne \notin Handlers
  /\ Starter # Disposer /\ Starter # NoOne /\ Disposer # NoOne

Tasks == Handlers \cup {Starter}

VARIABLES
  pc,           \* where each task is
  code,         \* the ServiceResult of its last ConnectAsync
  lock,         \* who took _connectionLock
  lockDisposed, \* _connectionLock.Dispose() has run
  status,       \* the connection status of _mqttClient
  session,      \* what the broker holds for this connection's subscriptions
  disposed,     \* _isDisposed
  cancelled,    \* _cancellationTokenSource.IsCancellationRequested
  disposer,     \* where the disposing thread is
  caller        \* where the one call of DisconnectAsync or UnsubscribeAsync is

vars == <<pc, code, lock, lockDisposed, status, session, disposed, cancelled,
          disposer, caller>>

Labels == {"idle", "event", "loop", "delay", "connect", "wait", "check", "open",
           "connecting", "release", "returned", "subscribe", "subscribing",
           "lost", "done", "started", "failed"}

TypeOK ==
  /\ pc \in [Tasks -> Labels]
  /\ code \in [Tasks -> {"ok", "error"}]
  /\ lock \in Tasks \cup {Disposer, NoOne}
  /\ status \in {"Disconnected", "Connecting", "Connected", "Disconnecting", "Disposed"}
  /\ session \in {"none", "granted", "refused", "unsubscribed"}
  /\ {lockDisposed, disposed, cancelled} \subseteq BOOLEAN
  /\ disposer \in {"idle", "entering", "waiting", "holding", "closing",
                   "finishing", "released", "done"}
  /\ caller \in {"idle", "disconnecting", "unsubscribing", "disconnected", "returned"}

Init ==
  /\ pc = [t \in Tasks |-> "idle"]
  /\ code = [t \in Tasks |-> "error"]
  /\ lock = NoOne
  /\ lockDisposed = FALSE
  /\ status = "Disconnected"
  /\ session = "none"
  /\ disposed = FALSE
  /\ cancelled = FALSE
  /\ disposer = "idle"
  /\ caller = "idle"

Go(t, from, to) == pc[t] = from /\ pc' = [pc EXCEPT ![t] = to]

\* Where a task ends when its operation gave up: StartAsync returns -1 or
\* throws and the host goes down; a reconnection loop breaks or its event task
\* faults.
GaveUp(t) == IF t = Starter THEN "failed" ELSE "done"

(* ------------------------- the client library -------------------------- *)

\* pcs with every request that was in flight on a connection now gone.
Severed(pcs) == [t \in Tasks |-> IF pcs[t] = "subscribing" THEN "lost" ELSE pcs[t]]

\* The library dispatches DisconnectedAsync to a task of its own.
RaiseDisconnected(pcs) ==
  \E h \in Handlers : pc[h] = "idle" /\ pc' = [pcs EXCEPT ![h] = "event"]

AttemptSucceeds(t) ==
  /\ Go(t, "connecting", "release")
  /\ status' = "Connected"
  /\ session' = "none"
  /\ code' = [code EXCEPT ![t] = "ok"]
  /\ UNCHANGED <<lock, lockDisposed, disposed, cancelled, disposer, caller>>

\* Mutant: the result code of the broker is stored as it came.
AttemptFailsMutant(t) ==
  /\ pc[t] = "connecting"
  /\ status' = "Disconnected"
  /\ code' = [code EXCEPT ![t] = "unspecified"]
  /\ RaiseDisconnected([pc EXCEPT ![t] = "release"])
  /\ UNCHANGED <<lock, lockDisposed, session, disposed, cancelled, disposer, caller>>

AttemptFails(t) ==
  /\ pc[t] = "connecting"
  /\ status' = "Disconnected"
  /\ code' = [code EXCEPT ![t] = "error"]
  /\ RaiseDisconnected([pc EXCEPT ![t] = "release"])
  /\ UNCHANGED <<lock, lockDisposed, session, disposed, cancelled, disposer, caller>>

ConnectionLost ==
  /\ status = "Connected"
  /\ status' = "Disconnected"
  /\ session' = "none"
  /\ RaiseDisconnected(Severed(pc))
  /\ caller' = IF caller = "unsubscribing" THEN "returned" ELSE caller
  /\ UNCHANGED <<code, lock, lockDisposed, disposed, cancelled, disposer>>

(* ---------------------------- ConnectAsync ----------------------------- *)

\* The checks before the semaphore.
EnterConnect(t) ==
  /\ pc[t] = "connect"
  /\ IF disposed \/ status = "Connected"
       THEN /\ pc' = [pc EXCEPT ![t] = "returned"]
            /\ code' = [code EXCEPT ![t] = IF disposed THEN "error" ELSE "ok"]
       ELSE /\ pc' = [pc EXCEPT ![t] = "wait"]
            /\ UNCHANGED code
  /\ UNCHANGED <<lock, lockDisposed, status, session, disposed, cancelled, disposer, caller>>

AcquireLock(t) ==
  /\ lock = NoOne /\ ~lockDisposed
  /\ Go(t, "wait", "check")
  /\ lock' = t
  /\ UNCHANGED <<code, lockDisposed, status, session, disposed, cancelled, disposer, caller>>

\* WaitAsync throws: the loops wait with the service's own token, StartAsync
\* with the host's, which a shutdown requested during start-up cancels.
WaitCanceled(t) ==
  /\ t = Starter \/ cancelled
  /\ Go(t, "wait", GaveUp(t))
  /\ UNCHANGED <<code, lock, lockDisposed, status, session, disposed, cancelled, disposer, caller>>

\* Mutant: the checks are not repeated under the semaphore.
CheckAgainMutant(t) ==
  /\ Go(t, "check", "open")
  /\ UNCHANGED <<code, lock, lockDisposed, status, session, disposed, cancelled, disposer, caller>>

\* Mutant: the early returns are outside the try, so that nothing releases.
CheckAgainNoReleaseMutant(t) ==
  /\ pc[t] = "check"
  /\ IF disposed \/ status = "Connected"
       THEN /\ pc' = [pc EXCEPT ![t] = "returned"]
            /\ code' = [code EXCEPT ![t] = IF disposed THEN "error" ELSE "ok"]
       ELSE /\ pc' = [pc EXCEPT ![t] = "open"]
            /\ UNCHANGED code
  /\ UNCHANGED <<lock, lockDisposed, status, session, disposed, cancelled, disposer, caller>>

\* The checks repeated under the semaphore.
CheckAgain(t) ==
  /\ pc[t] = "check"
  /\ IF disposed \/ status = "Connected"
       THEN /\ pc' = [pc EXCEPT ![t] = "release"]
            /\ code' = [code EXCEPT ![t] = IF disposed THEN "error" ELSE "ok"]
       ELSE /\ pc' = [pc EXCEPT ![t] = "open"]
            /\ UNCHANGED code
  /\ UNCHANGED <<lock, lockDisposed, status, session, disposed, cancelled, disposer, caller>>

\* The client refuses (throws, without an event) a call made while it is
\* connecting, connected, disconnecting or disposed.
OpenConnection(t) ==
  /\ pc[t] = "open"
  /\ IF status = "Disconnected"
       THEN /\ pc' = [pc EXCEPT ![t] = "connecting"]
            /\ status' = "Connecting"
            /\ UNCHANGED code
       ELSE /\ pc' = [pc EXCEPT ![t] = "release"]
            /\ code' = [code EXCEPT ![t] = "error"]
            /\ UNCHANGED status
  /\ UNCHANGED <<lock, lockDisposed, session, disposed, cancelled, disposer, caller>>

\* The finally block; Release throws on a disposed semaphore.
ReleaseLock(t) ==
  /\ Go(t, "release", IF lockDisposed THEN GaveUp(t) ELSE "returned")
  /\ lock' = NoOne
  /\ UNCHANGED <<code, lockDisposed, status, session, disposed, cancelled, disposer, caller>>

(* ------------------ StartAsync and the reconnection loop --------------- *)

StartAsync ==
  /\ Go(Starter, "idle", IF disposed THEN "failed" ELSE "connect")
  /\ UNCHANGED <<code, lock, lockDisposed, status, session, disposed, cancelled, disposer, caller>>

HandleDisconnection(h) ==
  /\ Go(h, "event", IF disposed THEN "done" ELSE "loop")
  /\ UNCHANGED <<code, lock, lockDisposed, status, session, disposed, cancelled, disposer, caller>>

LoopAgain(h) ==
  /\ Go(h, "loop", IF cancelled THEN "done" ELSE "delay")
  /\ UNCHANGED <<code, lock, lockDisposed, status, session, disposed, cancelled, disposer, caller>>

DelayEnds(h) ==
  /\ Go(h, "delay", IF cancelled THEN "done" ELSE "connect")
  /\ UNCHANGED <<code, lock, lockDisposed, status, session, disposed, cancelled, disposer, caller>>

\* Mutant: a loop takes "already connected" for done and does not subscribe.
ConnectReturnedMutant(t) ==
  /\ Go(t, "returned",
        IF t = Starter
          THEN IF code[t] = "ok" THEN "subscribe" ELSE "failed"
          ELSE IF code[t] = "ok" /\ status = "Connected" THEN "done" ELSE "loop")
  /\ UNCHANGED <<code, lock, lockDisposed, status, session, disposed, cancelled, disposer, caller>>

\* A loop also reads IsConnected again; StartAsync trusts the result code.
ConnectReturned(t) ==
  /\ Go(t, "returned",
        IF t = Starter
          THEN IF code[t] = "ok" THEN "subscribe" ELSE "failed"
          ELSE IF code[t] = "ok" /\ status = "Connected" THEN "subscribe" ELSE "loop")
  /\ UNCHANGED <<code, lock, lockDisposed, status, session, disposed, cancelled, disposer, caller>>

Subscribe(t) ==
  /\ Go(t, "subscribe", IF status = "Connected" THEN "subscribing" ELSE "lost")
  /\ UNCHANGED <<code, lock, lockDisposed, status, session, disposed, cancelled, disposer, caller>>

\* Mutant: the loop does not break once it has subscribed.
SubscriptionGrantedMutant(t) ==
  /\ Go(t, "subscribing", IF t = Starter THEN "started" ELSE "loop")
  /\ session' = "granted"
  /\ UNCHANGED <<code, lock, lockDisposed, status, disposed, cancelled, disposer, caller>>

SubscriptionGranted(t) ==
  /\ Go(t, "subscribing", IF t = Starter THEN "started" ELSE "done")
  /\ session' = "granted"
  /\ UNCHANGED <<code, lock, lockDisposed, status, disposed, cancelled, disposer, caller>>

\* A topic refused by the broker, or no answer in time: the loop logs it and
\* breaks all the same.
SubscriptionRefused(t) ==
  /\ Go(t, "subscribing", GaveUp(t))
  /\ session' = IF session = "granted" THEN "granted" ELSE "refused"
  /\ UNCHANGED <<code, lock, lockDisposed, status, disposed, cancelled, disposer, caller>>

SubscriptionLost(t) ==
  /\ Go(t, "lost", GaveUp(t))
  /\ UNCHANGED <<code, lock, lockDisposed, status, session, disposed, cancelled, disposer, caller>>

(* ----------------- DisconnectAsync and UnsubscribeAsync ---------------- *)

\* The event of a normal disconnection starts a task that returns at once
\* (args.Reason), so it has no step here.
DisconnectAsync ==
  /\ "DisconnectAsync" \in CallerOps /\ caller = "idle" /\ pc[Starter] = "started"
  /\ IF status = "Connected"
       THEN /\ status' = "Disconnecting"
            /\ session' = "none"
            /\ pc' = Severed(pc)
            /\ caller' = "disconnecting"
       ELSE caller' = "returned" /\ UNCHANGED <<status, session, pc>>
  /\ UNCHANGED <<code, lock, lockDisposed, disposed, cancelled, disposer>>

DisconnectReturns ==
  /\ caller = "disconnecting"
  /\ caller' = "disconnected"
  /\ status' = IF status = "Disconnecting" THEN "Disconnected" ELSE status
  /\ UNCHANGED <<pc, code, lock, lockDisposed, session, disposed, cancelled, disposer>>

UnsubscribeAsync ==
  /\ "UnsubscribeAsync" \in CallerOps /\ caller = "idle" /\ pc[Starter] = "started"
  /\ caller' = IF status = "Connected" THEN "unsubscribing" ELSE "returned"
  /\ UNCHANGED <<pc, code, lock, lockDisposed, status, session, disposed, cancelled, disposer>>

UnsubscribeReturns ==
  /\ caller = "unsubscribing"
  /\ caller' = "returned"
  /\ session' \in {session, "unsubscribed"}
  /\ UNCHANGED <<pc, code, lock, lockDisposed, status, disposed, cancelled, disposer>>

(* ------------------------------ disposal ------------------------------- *)

\* The host disposes its services once start-up is over, whatever its outcome.
MayDispose == disposer = "idle" /\ pc[Starter] \in {"started", "failed"}

DisposeAsync ==
  /\ "DisposeAsync" \in DisposeCalls /\ MayDispose
  /\ disposed' = TRUE
  /\ disposer' = "waiting"
  /\ UNCHANGED <<pc, code, lock, lockDisposed, status, session, cancelled, caller>>

Dispose ==
  /\ "Dispose" \in DisposeCalls /\ MayDispose
  /\ disposer' = "entering"
  /\ UNCHANGED <<pc, code, lock, lockDisposed, status, session, disposed, cancelled, caller>>

\* Wait(5 s): the semaphore, or the time is up; DisposeAsyncCore is called in
\* both cases.
DisposeWaited ==
  /\ disposer = "entering"
  /\ lock' = IF lock = NoOne THEN Disposer ELSE lock
  /\ disposed' = TRUE
  /\ disposer' = "waiting"
  /\ UNCHANGED <<pc, code, lockDisposed, status, session, cancelled, caller>>

\* Mutant: DisposeAsyncCore does not wait for the semaphore.
CoreLocksMutant ==
  /\ disposer = "waiting"
  /\ disposer' = "holding"
  /\ UNCHANGED <<pc, code, lock, lockDisposed, status, session, disposed, cancelled, caller>>

\* DisposeAsyncCore takes the semaphore, which is not reentrant.
CoreLocks ==
  /\ disposer = "waiting"
  /\ lock = NoOne
  /\ lock' = Disposer
  /\ disposer' = "holding"
  /\ UNCHANGED <<pc, code, lockDisposed, status, session, disposed, cancelled, caller>>

\* Cancel the loops, detach the handlers, start a normal disconnection.
CoreCancels ==
  /\ disposer = "holding"
  /\ cancelled' = TRUE
  /\ IF status = "Connected"
       THEN /\ status' = "Disconnecting"
            /\ session' = "none"
            /\ pc' = Severed(pc)
            /\ disposer' = "closing"
       ELSE disposer' = "finishing" /\ UNCHANGED <<status, session, pc>>
  /\ caller' = IF caller = "unsubscribing" THEN "returned" ELSE caller
  /\ UNCHANGED <<code, lock, lockDisposed, disposed>>

\* The disconnection ends or five seconds are over.
CoreClosed ==
  /\ disposer = "closing"
  /\ status' \in {"Disconnected", "Disconnecting"}
  /\ disposer' = "finishing"
  /\ UNCHANGED <<pc, code, lock, lockDisposed, session, disposed, cancelled, caller>>

CoreReleases ==
  /\ disposer = "finishing"
  /\ status' = "Disposed"
  /\ lock' = NoOne
  /\ disposer' = "released"
  /\ UNCHANGED <<pc, code, lockDisposed, session, disposed, cancelled, caller>>

CoreDisposesLock ==
  /\ disposer = "released"
  /\ lockDisposed' = TRUE
  /\ disposer' = "done"
  /\ UNCHANGED <<pc, code, lock, status, session, disposed, cancelled, caller>>

(* ------------------------------- the whole ----------------------------- *)

Reply(t) == AttemptSucceeds(t) \/ AttemptFails(t)

SubscribeReply(t) == SubscriptionGranted(t) \/ SubscriptionRefused(t)

Step(t) ==
  \/ EnterConnect(t) \/ CheckAgain(t) \/ OpenConnection(t) \/ ReleaseLock(t)
  \/ ConnectReturned(t) \/ Subscribe(t) \/ SubscriptionLost(t)

LoopStep(h) == HandleDisconnection(h) \/ LoopAgain(h) \/ DelayEnds(h)

CallerStep == DisconnectReturns \/ UnsubscribeReturns

DisposerStep ==
  DisposeWaited \/ CoreLocks \/ CoreCancels \/ CoreClosed \/ CoreReleases \/ CoreDisposesLock

Next ==
  \/ \E t \in Tasks : Step(t) \/ AcquireLock(t) \/ WaitCanceled(t) \/ Reply(t) \/ SubscribeReply(t)
  \/ \E h \in Handlers : LoopStep(h)
  \/ StartAsync
  \/ ConnectionLost
  \/ DisconnectAsync \/ UnsubscribeAsync \/ CallerStep
  \/ DisposeAsync \/ Dispose \/ DisposerStep

\* Threads are scheduled; every request to the broker ends, in an answer, a
\* timeout or the end of the connection; the semaphore serves its waiters; the
\* host disposes its services when start-up failed (it need not otherwise).
Fairness ==
  /\ \A t \in Tasks :
       /\ WF_vars(Step(t)) /\ WF_vars(Reply(t)) /\ WF_vars(SubscribeReply(t))
       /\ SF_vars(AcquireLock(t))
       /\ WF_vars(cancelled /\ WaitCanceled(t))
  /\ \A h \in Handlers : WF_vars(LoopStep(h))
  /\ WF_vars(StartAsync) /\ WF_vars(CallerStep) /\ WF_vars(DisposerStep)
  /\ SF_vars(CoreLocks)
  /\ WF_vars(pc[Starter] = "failed" /\ (DisposeAsync \/ Dispose))

Spec == Init /\ [][Next]_vars

FairSpec == Spec /\ Fairness

(* ------------------------------ properties ----------------------------- *)

\* The client is asked to connect only when it is neither connected, nor
\* connecting for another task, nor disposed: what the second pair of checks in
\* ConnectAsync, made under _connectionLock, is for.
ConnectCallsLegal ==
  \A t \in Tasks : pc[t] = "open" => status \in {"Disconnected", "Disconnecting"}

\* While and after DisposeAsyncCore tears the client down, no task is inside an
\* attempt to connect it: disposal waits for the attempt in progress, and the
\* tasks that were queued behind it find the service disposed.  So nothing
\* brings the disposed client back.
DisposalExclusive ==
  /\ disposer \in {"holding", "closing", "finishing", "released", "done"} =>
       \A t \in Tasks : pc[t] \notin {"open", "connecting"}
  /\ disposer \in {"released", "done"} => status = "Disposed"

\* The disposing thread waits for the semaphore it has taken itself: what
\* Dispose comes to when it finds the semaphore free.
SelfBlocked == disposer = "waiting" /\ lock = Disposer

\* Nobody waits for _connectionLock in vain, but for the one flaw of Dispose:
\* whoever has it is on its way to release it, also after the early returns and
\* failed attempts of ConnectAsync, and a task still queued when the semaphore
\* itself is disposed has been told to stop.
NobodyStranded ==
  /\ lock # NoOne =>
       \/ \E t \in Tasks : lock = t /\ pc[t] \in {"check", "open", "connecting", "release"}
       \/ lock = Disposer /\ disposer \in {"holding", "closing", "finishing"}
       \/ "Dispose" \in DisposeCalls /\ SelfBlocked
  /\ \A t \in Tasks : pc[t] = "wait" /\ lockDisposed => t # Starter /\ cancelled

AtWork(h) == pc[h] \notin {"idle", "done"}

\* A started service that is not being shut down is never abandoned: as long as
\* it is not connected, or connected without its subscriptions, some
\* reconnection loop is at work.  The hand-over is what could go wrong: a loop
\* that breaks because another one reconnected, a connection lost between a
\* loop's attempt, its check and its subscription.
NeverAbandoned ==
  pc[Starter] = "started" /\ ~disposed /\ caller = "idle"
     /\ ~(status = "Connected" /\ session # "none")
  => \E h \in Handlers : AtWork(h)

\* Once failures stop, the started service ends up connected and subscribed (or
\* refused by the broker), unless its owner disposes or disconnects it.
EventuallyServed ==
  pc[Starter] = "started" ~>
    [](disposed \/ caller # "idle" \/ (status = "Connected" /\ session # "none"))

\* However many loops the failures have started, each of them ends.
LoopsEnd == \A h \in Handlers : pc[h] = "event" ~> pc[h] = "done"

\* Disposal completes, also when it finds tasks inside ConnectAsync.
DisposalCompletes == disposer # "idle" ~> disposer = "done"
=============================================================================
