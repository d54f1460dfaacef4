--------------------------- MODULE IotMessagePath ---------------------------
(***************************************************************************)
(* The way of a device's status reports through iot-monitor: the broker,   *)
(* HandleMessageAsync, which starts the Worker's handler on the thread     *)
(* pool and lets the message be acknowledged, the handler, which stamps a  *)
(* point and writes it, and the host, which attaches the handler before it *)
(* connects and at its end closes its services and disposes the            *)
(* connection, all of it under messages still on their way.  A host that   *)
(* stops detaches the handler first; one whose start-up failed does not.   *)
(*                                                                         *)
(* External: MQTTnet calls HandleMessageAsync for one message at a time,   *)
(* acknowledges it afterwards unless ProcessingFailed is set, and awaits   *)
(* the call before it reports a lost connection, of which the call learns  *)
(* nothing; the session is clean (CleanSession in appsettings.json), so    *)
(* that the broker forgets what a lost connection had in flight; InfluxDB  *)
(* keeps one point for a device and a time; the clock does not step back.  *)
(* The generic host disposes its services without stopping them when the   *)
(* start of one of them throws.                                            *)
(***************************************************************************)
EXTENDS TopicRouting

CONSTANTS
  Device,    \* the last segment of the device's topic
  Count,     \* bounds the reports
  Usable,    \* the reports that are JSON with a known field
  MaxClock,  \* bounds the time
  MaxFaults  \* bounds lost connections and failed writes

ASSUME CountAssumption == Count \in Nat /\ Usable \subseteq 1..Count
ASSUME BoundsAssumption == MaxClock \in Nat /\ MaxFaults \in Nat

Reports == 1..Count

VARIABLES
  sent,        \* how many reports the device has published
  host,        \* how far the host is
  handler,     \* whether OnMessageReceivedAsync has the Worker's handler
  link,        \* the connection, with its subscription: down, subscribed
  queue,       \* what the broker has for the session
  delivering,  \* the report MQTTnet is delivering or acknowledging; 0: none
  stage,       \* how far each report is
  acked,       \* the acknowledged reports
  clock,
  stamp,       \* the time of each report's point
  writes,      \* how often a point of each report was written
  after,       \* pairs: when the second was delivered, the first was written
  faults

broker == <<sent, queue, delivering, acked>>
lifetime == <<host, handler>>
vars == <<broker, lifetime, link, stage, clock, stamp, writes, after, faults>>

\* From Closed on the provider resolves nothing, from Disposed on _isDisposed
\* is set, from Cancelled on the token is cancelled.
Cancelled == host \in {"cancelled", "gone"}
Disposed == host = "disposed" \/ Cancelled
Closed == host = "closed" \/ Disposed
\* The Worker was stopped, or the host has disposed of what it needs.
Ending == host = "detached" \/ Closed

Stages == {"unsent", "missed", "inFlight", "lost",
           "checked", "dropped", "refused", "queued", "begun", "faulted",
           "unusable", "stamped", "written", "writeFailed"}

\* Types; HandleMessageAsync is in one call at a time.
TypeOK ==
  /\ sent \in 0..Count
  /\ host \in {"new", "attached", "started", "failed",
               "detached", "closed", "disposed", "cancelled", "gone"}
  /\ handler \in BOOLEAN
  /\ link \in {"down", "subscribed"}
  /\ queue \in Seq(Reports)
  /\ delivering \in 0..Count
  /\ stage \in [Reports -> Stages]
  /\ \A m \in Reports : stage[m] = "checked" => m = delivering
  /\ acked \subseteq Reports
  /\ clock \in 0..MaxClock /\ stamp \in [Reports -> 0..MaxClock]
  /\ writes \in [Reports -> Nat]
  /\ after \subseteq Reports \X Reports
  /\ faults \in 0..MaxFaults

Init ==
  /\ sent = 0 /\ host = "new" /\ handler = FALSE /\ link = "down"
  /\ queue = <<>> /\ delivering = 0 /\ acked = {}
  /\ stage = [m \in Reports |-> "unsent"]
  /\ clock = 0 /\ stamp = [m \in Reports |-> 0]
  /\ writes = [m \in Reports |-> 0]
  /\ after = {} /\ faults = 0

Go(m, from, to) == stage[m] = from /\ stage' = [stage EXCEPT ![m] = to]
Fault == faults < MaxFaults /\ faults' = faults + 1

----------------------------------------------------------------------------
(* The device, the broker and the connection *)

Send ==
  /\ sent < Count
  /\ sent' = sent + 1
  /\ IF link = "subscribed"
     THEN Go(sent + 1, "unsent", "inFlight") /\ queue' = Append(queue, sent + 1)
     ELSE Go(sent + 1, "unsent", "missed") /\ UNCHANGED queue
  /\ UNCHANGED <<lifetime, link, delivering, acked, clock, stamp, writes, after, faults>>

\* Mutant: the Worker connects before it attaches its handler.
ConnectMutant ==
  /\ ~Disposed /\ link = "down" /\ delivering = 0
  /\ link' = "subscribed"
  /\ UNCHANGED <<broker, lifetime, stage, clock, stamp, writes, after, faults>>

\* Start-up, and the reconnection loops, a failed start-up's too, until the
\* service is disposed.
Connect ==
  /\ host # "new" /\ ~Disposed /\ link = "down" /\ delivering = 0
  /\ link' = "subscribed"
  /\ UNCHANGED <<broker, lifetime, stage, clock, stamp, writes, after, faults>>

Waiting(q) == {q[i] : i \in DOMAIN q}

\* The broker forgets the session.  A call of HandleMessageAsync goes on.
Disconnected ==
  /\ link' = "down" /\ queue' = <<>>
  /\ stage' = [m \in Reports |-> IF m \in Waiting(queue) THEN "lost" ELSE stage[m]]
  /\ UNCHANGED <<sent, delivering, acked>>

\* Mutant: the session outlives the connection, as with CleanSession false.
LinkLostMutant ==
  /\ link = "subscribed" /\ Fault
  /\ link' = "down"
  /\ IF delivering # 0 /\ stage[delivering] # "checked"
     THEN /\ queue' = <<delivering>> \o queue /\ delivering' = 0
          /\ stage' = [stage EXCEPT ![delivering] = "inFlight"]
     ELSE UNCHANGED <<queue, delivering, stage>>
  /\ UNCHANGED <<sent, acked, lifetime, clock, stamp, writes, after>>

LinkLost ==
  /\ link = "subscribed" /\ Fault
  /\ Disconnected
  /\ UNCHANGED <<lifetime, clock, stamp, writes, after>>

----------------------------------------------------------------------------
(* HandleMessageAsync *)

\* It is called, and looks at _isDisposed first.
Deliver ==
  /\ link = "subscribed" /\ delivering = 0 /\ queue # <<>>
  /\ delivering' = Head(queue) /\ queue' = Tail(queue)
  /\ Go(Head(queue), "inFlight", IF Disposed THEN "dropped" ELSE "checked")
  /\ after' = after \cup {n \in Reports : stage[n] = "written"} \X {Head(queue)}
  /\ UNCHANGED <<sent, acked, lifetime, link, clock, stamp, writes, faults>>

\* Only what ProcessingFailed is set for is not acknowledged.
Dispatch(m) ==
  /\ IF Cancelled THEN Go(m, "checked", "refused") /\ delivering' = 0
     ELSE /\ Go(m, "checked", IF handler THEN "queued" ELSE "dropped")
          /\ UNCHANGED delivering
  /\ UNCHANGED <<sent, queue, acked, lifetime, link, clock, stamp, writes, after, faults>>

\* The acknowledgement of a call that has returned; none of a lost connection.
Acknowledge == acked' = acked \cup {m \in {delivering} : link = "subscribed"}

\* Mutant: HandleMessageAsync returns before it has looked at the report.
AckEarlyMutant ==
  /\ delivering # 0
  /\ Acknowledge
  /\ delivering' = 0
  /\ UNCHANGED <<sent, queue, lifetime, link, stage, clock, stamp, writes, after, faults>>

\* Mutant: a report is acknowledged when its point has been written.
AckMutant ==
  /\ delivering # 0 /\ stage[delivering] = "written"
  /\ Acknowledge
  /\ delivering' = 0
  /\ UNCHANGED <<sent, queue, lifetime, link, stage, clock, stamp, writes, after, faults>>

Ack ==
  /\ delivering # 0 /\ stage[delivering] # "checked"
  /\ Acknowledge
  /\ delivering' = 0
  /\ UNCHANGED <<sent, queue, lifetime, link, stage, clock, stamp, writes, after, faults>>

----------------------------------------------------------------------------
(* HandleMqttMessageAsync, on the thread pool *)

\* The task reads the delegate again, which may be null by now.
Begin(m) ==
  /\ Go(m, "queued", IF handler THEN "begun" ELSE "faulted")
  /\ UNCHANGED <<broker, lifetime, link, clock, stamp, writes, after, faults>>

Accepted(m) ==
  m \in Usable /\ ExtractId(IotSubTopics[1], <<"iot", "rsu", Device>>) # {}

\* Mutant: the time is local, and summer time ends.
StampMutant(m) ==
  /\ ~Closed /\ Accepted(m)
  /\ Go(m, "begun", "stamped")
  /\ stamp' = [stamp EXCEPT ![m] = IF clock = 0 THEN 1 ELSE clock - 1]
  /\ UNCHANGED <<broker, lifetime, link, clock, writes, after, faults>>

\* A scope, the id, the JSON and the time.
Stamp(m) ==
  /\ ~Closed /\ Accepted(m)
  /\ Go(m, "begun", "stamped")
  /\ stamp' = [stamp EXCEPT ![m] = clock]
  /\ UNCHANGED <<broker, lifetime, link, clock, writes, after, faults>>

\* No scope from a closed provider: the task faults, which is logged.  What is
\* no report is logged, too.
GiveUp(m) ==
  /\ \/ Closed /\ Go(m, "begun", "faulted")
     \/ ~Closed /\ ~Accepted(m) /\ Go(m, "begun", "unusable")
  /\ UNCHANGED <<broker, lifetime, link, clock, stamp, writes, after, faults>>

\* The closed provider has disposed the client: a write may still come through.
Write(m) ==
  /\ Go(m, "stamped", "written")
  /\ writes' = [writes EXCEPT ![m] = @ + 1]
  /\ UNCHANGED <<broker, lifetime, link, clock, stamp, after, faults>>

WriteFails(m) ==
  /\ Go(m, "stamped", "writeFailed")
  /\ \/ Fault
     \/ Closed /\ UNCHANGED faults
  /\ UNCHANGED <<broker, lifetime, link, clock, stamp, writes, after>>

----------------------------------------------------------------------------
(* The host *)

Advance(from, to) ==
  /\ host \in from /\ host' = to
  /\ UNCHANGED <<clock, stamp, writes, after, faults>>

\* Worker.StartAsync attaches the handler and awaits the connection,
Attach ==
  /\ Advance({"new"}, "attached")
  /\ handler' = TRUE
  /\ UNCHANGED <<broker, link, stage>>

\* which is subscribed when its start-up succeeds;
Started ==
  /\ Advance({"attached"}, "started")
  /\ link = "subscribed"
  /\ UNCHANGED <<handler, broker, link, stage>>

\* it throws when start-up fails or is cancelled, be it after the broker has
\* granted a subscription late or in part, and the handler stays attached.
StartFails ==
  /\ Advance({"attached"}, "failed")
  /\ UNCHANGED <<handler, broker, link, stage>>

\* Worker.StopAsync, of a host that has started.
Stop ==
  /\ Advance({"started"}, "detached")
  /\ handler' = FALSE
  /\ UNCHANGED <<broker, link, stage>>

\* The provider takes no more calls, disposes the InfluxDBClient, then the service.
Close ==
  /\ Advance({"detached", "failed"}, "closed")
  /\ UNCHANGED <<handler, broker, link, stage>>

Dispose == Advance({"closed"}, "disposed") /\ UNCHANGED <<handler, broker, link, stage>>
Cancel == Advance({"disposed"}, "cancelled") /\ UNCHANGED <<handler, broker, link, stage>>

\* The service's callbacks are removed and the client disconnects.
Leave == Advance({"cancelled"}, "gone") /\ Disconnected /\ UNCHANGED handler

Tick ==
  /\ clock < MaxClock
  /\ clock' = clock + 1
  /\ UNCHANGED <<broker, lifetime, link, stage, stamp, writes, after, faults>>

Handle(m) == Begin(m) \/ Stamp(m) \/ GiveUp(m) \/ Write(m) \/ WriteFails(m)

Next ==
  \/ Send \/ Connect \/ LinkLost
  \/ Deliver \/ Ack
  \/ \E m \in Reports : Dispatch(m) \/ Handle(m)
  \/ Attach \/ Started \/ StartFails \/ Stop \/ Close \/ Dispose \/ Cancel \/ Leave
  \/ Tick

Spec == Init /\ [][Next]_vars

\* The library's receive loop and the thread pool go on.
FairSpec ==
  /\ Spec
  /\ WF_vars(Deliver \/ Ack \/ \E m \in Reports : Dispatch(m))
  /\ \A m \in Reports : WF_vars(Handle(m))

----------------------------------------------------------------------------
\* No report that came in is discarded before the Worker was stopped or the
\* provider closed: not while the host starts, nor between a failed start, which
\* leaves the handler attached, and the disposal.  (Worker.StartAsync attaches
\* first; the two looks at the delegate.)
TakenUntilStopped ==
  \A m \in Reports : stage[m] \in {"dropped", "refused", "faulted"} => Ending

\* An acknowledged report, which the broker has forgotten, is in the Worker's
\* hands or came to its end there, whatever the connection does; it may be
\* discarded only once the Worker was stopped or, after a failed start, the
\* provider closed.  (ProcessingFailed, and the task that outlives the call.)
AckedTaken ==
  \A m \in acked :
    \/ stage[m] \in {"queued", "begun", "stamped", "written", "writeFailed", "unusable"}
    \/ stage[m] \in {"dropped", "faulted"} /\ Ending

\* A report is written once at most, over reconnections.  (CleanSession.)
WrittenOnce == \A m \in Reports : writes[m] <= 1

\* A report that was delivered after an earlier one had been written does not
\* get the earlier time, so it is the device's status that shows.  Of reports
\* handled at the same time the older one may show.
LaterShows ==
  \A p \in after :
    stage[p[1]] = "written" /\ stage[p[2]] \in {"stamped", "written"}
      => p[1] # p[2] /\ stamp[p[1]] <= stamp[p[2]]

\* A report that reached a subscribed service is written, or its failure was
\* logged, unless a lost connection took it before the service had it, or the
\* host is at its end; a failed start alone is no such end.
EventuallySettled ==
  \A m \in Reports :
    stage[m] = "inFlight"
      ~> (stage[m] \in {"written", "writeFailed", "unusable", "lost"} \/ Ending)
=============================================================================
