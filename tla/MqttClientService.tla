-------------------------- MODULE MqttClientService --------------------------
(***************************************************************************)
(* The MQTT connection of the accident monitor: the class MqttClientService*)
(* of AccidentMonitor.Infrastructure and the start-up that owns it         *)
(* (MqttClientContextInitaliser.cs, Program.cs).                           *)
(*                                                                         *)
(* Unlike the class of the same name in the IoT monitor (see               *)
(* IotMqttClientService) nothing serialises its reconnection loops: each   *)
(* calls the client when it finds it not connected, and the client lets    *)
(* one of them through.  A failed start-up ends the process, and a         *)
(* connection that its owner ended is made again like a lost one.          *)
(***************************************************************************)
CONSTANTS
  Starter,   \* the task that runs InitializeAsync
  Handlers   \* the event tasks: bounds failed attempts plus ended connections

ASSUME StarterIsNoHandler == Starter \notin Handlers

Tasks == Handlers \cup {Starter}

VARIABLES
  pc,        \* where each task is
  status,    \* the connection status of _mqttClient
  session,   \* what the broker holds for this connection's subscriptions
  disposed,  \* _isDisposed
  token,     \* the state of _cancellationTokenSource
  disposer,  \* where the thread that disposes the service is
  caller     \* where the one call of DisconnectAsync or UnsubscribeAsync is

vars == <<pc, status, session, disposed, token, disposer, caller>>

Labels == {"idle", "event", "loop", "delay", "connect", "open", "connecting", "returned",
           "subscribe", "subscribing", "lost", "greet", "done", "started", "failed"}

TypeOK ==
  /\ pc \in [Tasks -> Labels]
  /\ status \in {"Disconnected", "Connecting", "Connected", "Disconnecting", "Disposed"}
  /\ session \in {"none", "granted", "refused", "unsubscribed"}
  /\ disposed \in BOOLEAN
  /\ token \in {"live", "cancelled", "gone"}
  /\ disposer \in {"idle", "cancelling", "checking", "closing", "finishing", "freeing", "done"}
  /\ caller \in {"idle", "disconnecting", "unsubscribing", "returned"}

Init ==
  /\ pc = [t \in Tasks |-> "idle"]
  /\ status = "Disconnected"
  /\ session = "none"
  /\ disposed = FALSE
  /\ token = "live"
  /\ disposer = "idle"
  /\ caller = "idle"

\* A start-up that failed has ended the process.
Running == pc[Starter] # "failed"

Go(t, from, to) == pc[t] = from /\ pc' = [pc EXCEPT ![t] = to]

\* Mutant: start-up tries again instead of giving up.
ThrownMutant(t) == IF t = Starter THEN "connect" ELSE "loop"

\* Where an exception of ConnectAsync leaves a task: InitializeAsync throws it
\* on; a loop logs it and tests its condition again, except for a cancellation.
Thrown(t) == IF t = Starter THEN "failed" ELSE "loop"

\* Where a task is after SubscribeAsync, whatever that returned: start-up
\* publishes its health message, a loop breaks.
Subscribed(t) == IF t = Starter THEN "greet" ELSE "done"

(* ------------------------- the client library -------------------------- *)

\* pcs with every request that was in flight on a connection now gone.
Severed(pcs) == [t \in Tasks |-> IF pcs[t] = "subscribing" THEN "lost" ELSE pcs[t]]

\* DisconnectedAsync is dispatched to a task of its own; the task of a disposed
\* service returns at once (_isDisposed) and has no steps here.
RaiseDisconnected(pcs) ==
  IF disposed THEN pc' = pcs
  ELSE \E h \in Handlers : pc[h] = "idle" /\ pc' = [pcs EXCEPT ![h] = "event"]

AttemptSucceeds(t) ==
  /\ status = "Connecting"
  /\ Go(t, "connecting", "returned")
  /\ status' = "Connected"
  /\ session' = "none"
  /\ UNCHANGED <<disposed, token, disposer, caller>>

\* The client throws, or hands back the code with which the broker refused; a
\* loop whose attempt was cancelled returns.
AttemptFails(t) ==
  /\ pc[t] = "connecting"
  /\ status' = IF status = "Connecting" THEN "Disconnected" ELSE status
  /\ \E to \in {Thrown(t), "returned"} \cup (IF token = "live" THEN {} ELSE {"done"}) :
       RaiseDisconnected([pc EXCEPT ![t] = to])
  /\ UNCHANGED <<session, disposed, token, disposer, caller>>

\* Mutant: the event of a lost connection is not raised.
ConnectionLostMutant ==
  /\ status = "Connected"
  /\ status' = "Disconnected"
  /\ session' = "none"
  /\ pc' = Severed(pc)
  /\ caller' = IF caller = "unsubscribing" THEN "returned" ELSE caller
  /\ UNCHANGED <<disposed, token, disposer>>

ConnectionLost ==
  /\ status = "Connected"
  /\ status' = "Disconnected"
  /\ session' = "none"
  /\ RaiseDisconnected(Severed(pc))
  /\ caller' = IF caller = "unsubscribing" THEN "returned" ELSE caller
  /\ UNCHANGED <<disposed, token, disposer>>

(* --------------------- ConnectAsync, SubscribeAsync -------------------- *)

Initialize ==
  /\ Go(Starter, "idle", "connect")
  /\ UNCHANGED <<status, session, disposed, token, disposer, caller>>

EnterConnect(t) ==
  /\ Go(t, "connect", IF status = "Connected" THEN "returned" ELSE "open")
  /\ UNCHANGED <<status, session, disposed, token, disposer, caller>>

\* The client throws, without an event, when it is connecting for another task,
\* connected, disconnecting or disposed; the token of a disposed source throws.
OpenConnection(t) ==
  /\ pc[t] = "open"
  /\ IF status = "Disconnected" /\ token # "gone"
       THEN Go(t, "open", "connecting") /\ status' = "Connecting"
       ELSE Go(t, "open", Thrown(t)) /\ UNCHANGED status
  /\ UNCHANGED <<session, disposed, token, disposer, caller>>

\* Mutant: a loop that finds the connection made leaves the subscription to others.
ConnectReturnedMutant(t) ==
  /\ Go(t, "returned", IF status = "Connected" THEN Subscribed(t)
                       ELSE IF t = Starter THEN "greet" ELSE "loop")
  /\ UNCHANGED <<status, session, disposed, token, disposer, caller>>

\* StartAsync returns -1 when it is not connected; InitializeAsync goes on.
ConnectReturned(t) ==
  /\ Go(t, "returned", IF status = "Connected" THEN "subscribe"
                       ELSE IF t = Starter THEN "greet" ELSE "loop")
  /\ UNCHANGED <<status, session, disposed, token, disposer, caller>>

Subscribe(t) ==
  /\ Go(t, "subscribe", IF status = "Connected" THEN "subscribing" ELSE "lost")
  /\ UNCHANGED <<status, session, disposed, token, disposer, caller>>

\* Mutant: a loop does not break once it has subscribed, and waits again.
SubscriptionGrantedMutant(t) ==
  /\ Go(t, "subscribing", IF t = Starter THEN "greet" ELSE "delay")
  /\ session' = "granted"
  /\ UNCHANGED <<status, disposed, token, disposer, caller>>

SubscriptionGranted(t) ==
  /\ Go(t, "subscribing", Subscribed(t))
  /\ session' = "granted"
  /\ UNCHANGED <<status, disposed, token, disposer, caller>>

\* Mutant: the reason code of the broker is kept as it came.
SubscriptionRefusedMutant(t) ==
  /\ Go(t, "subscribing", Subscribed(t))
  /\ session' = IF session = "granted" THEN "granted" ELSE "notAuthorized"
  /\ UNCHANGED <<status, disposed, token, disposer, caller>>

\* Topics the broker refuses, or no answer in time: nobody looks.
SubscriptionRefused(t) ==
  /\ Go(t, "subscribing", Subscribed(t))
  /\ session' = IF session = "granted" THEN "granted" ELSE "refused"
  /\ UNCHANGED <<status, disposed, token, disposer, caller>>

SubscriptionLost(t) ==
  /\ Go(t, "lost", Subscribed(t))
  /\ UNCHANGED <<status, session, disposed, token, disposer, caller>>

\* The health message that ends start-up: PublishAsync throws when the client is
\* not connected, or no more when the answer is due.
Greet ==
  /\ \/ Go(Starter, "greet", "failed")
     \/ status = "Connected" /\ Go(Starter, "greet", "started")
  /\ UNCHANGED <<status, session, disposed, token, disposer, caller>>

(* ------------------------ the reconnection loop ------------------------ *)

HandleDisconnection(h) ==
  /\ Go(h, "event", IF disposed THEN "done" ELSE "loop")
  /\ UNCHANGED <<status, session, disposed, token, disposer, caller>>

LoopAgain(h) ==
  /\ Go(h, "loop", IF status = "Connected" \/ disposed THEN "done" ELSE "delay")
  /\ UNCHANGED <<status, session, disposed, token, disposer, caller>>

\* A cancelled delay returns; the token of a disposed source throws something
\* else, if the loop asks for it only now.
DelayEnds(h) ==
  /\ \/ token = "live" /\ Go(h, "delay", "connect")
     \/ token # "live" /\ Go(h, "delay", "done")
     \/ token = "gone" /\ Go(h, "delay", "loop")
  /\ UNCHANGED <<status, session, disposed, token, disposer, caller>>

(* ------------- DisconnectAsync, UnsubscribeAsync and disposal ---------- *)

\* A task is kept for the event this disconnection will raise.
DisconnectAsync ==
  /\ caller = "idle" /\ pc[Starter] = "started" /\ ~disposed
  /\ IF status = "Connected"
       THEN /\ \E h \in Handlers : pc[h] = "idle"
            /\ status' = "Disconnecting"
            /\ session' = "none"
            /\ pc' = Severed(pc)
            /\ caller' = "disconnecting"
       ELSE caller' = "returned" /\ UNCHANGED <<status, session, pc>>
  /\ UNCHANGED <<disposed, token, disposer>>

\* HandleDisconnectionAsync does not ask for the reason of a disconnection.
DisconnectReturns ==
  /\ caller = "disconnecting"
  /\ caller' = "returned"
  /\ IF status = "Disconnecting"
       THEN status' = "Disconnected" /\ RaiseDisconnected(pc)
       ELSE UNCHANGED <<status, pc>>
  /\ UNCHANGED <<session, disposed, token, disposer>>

UnsubscribeAsync ==
  /\ caller = "idle" /\ pc[Starter] = "started"
  /\ caller' = IF status = "Connected" THEN "unsubscribing" ELSE "returned"
  /\ UNCHANGED <<pc, status, session, disposed, token, disposer>>

UnsubscribeReturns ==
  /\ caller = "unsubscribing"
  /\ caller' = "returned"
  /\ session' \in {session, "unsubscribed"}
  /\ UNCHANGED <<pc, status, disposed, token, disposer>>

\* The container disposes the service when the application stops.
DisposeAsync ==
  /\ disposer = "idle" /\ pc[Starter] = "started"
  /\ disposed' = TRUE
  /\ disposer' = "cancelling"
  /\ UNCHANGED <<pc, status, session, token, caller>>

DisposeCancels ==
  /\ disposer = "cancelling"
  /\ token' = "cancelled"
  /\ disposer' = "checking"
  /\ UNCHANGED <<pc, status, session, disposed, caller>>

DisposeDisconnects ==
  /\ disposer = "checking"
  /\ IF status = "Connected"
       THEN /\ status' = "Disconnecting"
            /\ session' = "none"
            /\ pc' = Severed(pc)
            /\ disposer' = "closing"
       ELSE disposer' = "finishing" /\ UNCHANGED <<status, session, pc>>
  /\ caller' = IF caller = "unsubscribing" THEN "returned" ELSE caller
  /\ UNCHANGED <<disposed, token>>

DisposeClosed ==
  /\ disposer = "closing"
  /\ status' = "Disconnected"
  /\ disposer' = "finishing"
  /\ UNCHANGED <<pc, session, disposed, token, caller>>

DisposeToken ==
  /\ disposer = "finishing"
  /\ token' = "gone"
  /\ disposer' = "freeing"
  /\ UNCHANGED <<pc, status, session, disposed, caller>>

DisposeClient ==
  /\ disposer = "freeing"
  /\ status' = "Disposed"
  /\ session' = "none"
  /\ pc' = Severed(pc)
  /\ disposer' = "done"
  /\ UNCHANGED <<disposed, token, caller>>

(* ------------------------------- the whole ----------------------------- *)

Step(t) ==
  \/ EnterConnect(t) \/ OpenConnection(t) \/ ConnectReturned(t)
  \/ Subscribe(t) \/ SubscriptionLost(t)

Reply(t) ==
  \/ AttemptSucceeds(t) \/ AttemptFails(t)
  \/ SubscriptionGranted(t) \/ SubscriptionRefused(t)

LoopStep(h) == HandleDisconnection(h) \/ LoopAgain(h) \/ DelayEnds(h)

StarterStep == Initialize \/ Greet

CallerStep == DisconnectReturns \/ UnsubscribeReturns

DisposerStep ==
  \/ DisposeCancels \/ DisposeDisconnects \/ DisposeClosed
  \/ DisposeToken \/ DisposeClient

Next ==
  /\ Running
  /\ \/ \E t \in Tasks : Step(t) \/ Reply(t)
     \/ \E h \in Handlers : LoopStep(h)
     \/ StarterStep
     \/ ConnectionLost
     \/ DisconnectAsync \/ UnsubscribeAsync \/ CallerStep
     \/ DisposeAsync \/ DisposerStep

\* Threads are scheduled, and every request to the broker ends.
Fairness ==
  /\ \A t \in Tasks : WF_vars(Running /\ Step(t)) /\ WF_vars(Running /\ Reply(t))
  /\ \A h \in Handlers : WF_vars(Running /\ LoopStep(h))
  /\ WF_vars(Running /\ StarterStep)
  /\ WF_vars(Running /\ CallerStep) /\ WF_vars(Running /\ DisposerStep)

Spec == Init /\ [][Next]_vars

FairSpec == Spec /\ Fairness

(* ------------------------------ properties ----------------------------- *)

Served == status = "Connected" /\ session # "none"

\* An application that runs and is not stopping is never abandoned: while it is
\* not connected, or connected without an answered subscription, a task is at
\* work on it, although every loop breaks whatever became of its subscription
\* and leaves as soon as it sees somebody else's connection.
NeverAbandoned ==
  pc[Starter] = "started" /\ ~disposed /\ caller # "disconnecting" /\ ~Served
    => \E h \in Handlers : pc[h] \notin {"idle", "done"}

\* Start-up's own attempt is the only one: without a lock, a loop that were
\* already running could make the client refuse start-up's call and end the
\* process while the connection is being made.
StartUpAlone ==
  pc[Starter] \in {"idle", "connect", "open", "connecting"}
    => \A h \in Handlers : pc[h] = "idle"

\* Once failures stop, an application that has started is served for good, also
\* after a disconnection of its own, unless it is stopped.
EventuallyServed == pc[Starter] = "started" ~> [](disposed \/ Served)

\* Loops that get in one another's way, or that disposal finds in any place, all
\* come to an end.
LoopsEnd == \A h \in Handlers : pc[h] = "event" ~> pc[h] = "done" \/ ~Running

\* What StartAsync logs and returns, "MQTT Client started successfully" (l.69),
\* taken at its word: when it returns, and no connection has been lost, its
\* subscriptions have not been refused.
StartedSuccessfully ==
  pc[Starter] = "greet" /\ (\A h \in Handlers : pc[h] = "idle") => session # "refused"
=============================================================================
