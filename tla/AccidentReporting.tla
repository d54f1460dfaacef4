------------------------- MODULE AccidentReporting -------------------------
(***************************************************************************)
(* Road-side units talk to the accident monitor through the broker: they   *)
(* report accidents and ask for routes, repeat a request they got no       *)
(* answer to, and read answers from topics of their own, where the last    *)
(* one is retained.  The service handles one message after the other and   *)
(* acknowledges it afterwards; connection, database and process may fail   *)
(* between any two steps.                                                  *)
(*                                                                         *)
(* External, modelled from how the code uses it: MQTTnet awaits            *)
(* HandleMessageAsync before it acknowledges a message and takes the next, *)
(* and starts a clean session, so that what a lost connection leaves       *)
(* unacknowledged is not sent again.  The broker keeps the order of a      *)
(* session.  The units are not in this repository; what they send is       *)
(* valid.  What EF Core does with the corners of a blocking report is a    *)
(* parameter: see BlockedPolygons.                                         *)
(***************************************************************************)
EXTENDS TopicRouting, FiniteSets

CONSTANTS
  Units,       \* road-side units, by the last segment of their topics
  Plan,        \* of each unit, the requests it will make, in order
  Identified,  \* the reports that carry a Guid; it is Guid.Empty otherwise
  Blocking,    \* the reports of an accident that blocks the way
  CornersAdded,  \* whether EF Core takes its polygon's corners for new; 9.0 does not
  Pending,     \* of each unit, bounds its messages in the broker's queue
  MaxFaults    \* bounds what goes wrong

ASSUME PlanAssumption == Plan \in [Units -> Seq({2, 3, 4})]
ASSUME BoundsAssumption == Pending \in [Units -> Nat \ {0}] /\ MaxFaults \in Nat

\* A request: the number of the sender's unit and of the request.  A repeated
\* one is the same message again.
Requests == UNION {[unit : {u}, nr : 1..Len(Plan[u])] : u \in Units}

ASSUME ReportsAssumption ==
  Identified \subseteq Requests /\ Blocking \subseteq Requests /\ CornersAdded \in BOOLEAN

VARIABLES
  current,   \* the request each unit is at
  development,  \* the environment is Development, which nothing but a launch profile sets
  process,   \* the service: down, or at which of its start-up's steps
  migrated,  \* the database has its tables
  link,      \* its connection: down, connected, subscribed, deaf
  queue,     \* what the broker has for this session
  work,      \* the messages in HandleMessageAsync, and how far each is
  copies,    \* how many accidents were stored for each report; 2 is several
  retained,  \* the retained answers: topic and request answered
  acked,     \* the reports a message of which was acknowledged
  failed,    \* the reports a save failed for while they were new
  faults

service == <<development, process, migrated, link>>
effects == <<copies, retained, acked, failed>>
vars == <<current, service, queue, work, effects, faults>>

\* Plan has the index of the template of AccidentSubTopics.
Kind(m) == Plan[m.unit][m.nr]
Report(m) == Kind(m) = 2

\* Where a unit sends it.
Topic(m) ==
  [i \in DOMAIN AccidentSubTopics[Kind(m)] |->
     IF AccidentSubTopics[Kind(m)][i] = "ID" THEN m.unit ELSE AccidentSubTopics[Kind(m)][i]]

ResponseKind == <<"", "AccidentReport", "Directions", "AdvancedDirections">>
\* The topics of the answer, by what HandleMessageAsync makes of the request's.
ResponseTopics(m) ==
  LET c == Case(Topic(m))
  IN {<<"rsu", "Responses", ResponseKind[c], id>> : id \in ExtractId(AccidentSubTopics[c], Topic(m))}
\* The topic the unit reads its answers of that kind from.
AnswerTopic(u, kind) == <<"rsu", "Responses", ResponseKind[kind], u>>

Answered(m) == <<AnswerTopic(m.unit, Kind(m)), m>> \in retained

\* Types; one message is handled at a time.
TypeOK ==
  /\ current \in [Units -> Nat] /\ \A u \in Units : current[u] <= Len(Plan[u])
  /\ process \in {"down", "starting", "greeting", "migrating", "running"}
  /\ development \in BOOLEAN /\ migrated \in BOOLEAN
  /\ link \in {"down", "connected", "subscribed", "deaf"}
  /\ queue \in Seq(Requests)
  /\ work \subseteq [message : Requests, at : {"handling", "responding"}]
  /\ \A v, w \in work : v = w
  /\ copies \in [Requests -> 0..2]
  /\ acked \subseteq Requests /\ failed \subseteq Requests
  /\ faults \in 0..MaxFaults

Init ==
  /\ current = [u \in Units |-> 0]
  /\ development \in BOOLEAN /\ migrated \in BOOLEAN
  /\ process = "down" /\ link = "down"
  /\ queue = <<>> /\ work = {}
  /\ copies = [m \in Requests |-> 0]
  /\ retained = {} /\ acked = {} /\ failed = {}
  /\ faults = 0

----------------------------------------------------------------------------
(* The units and the broker *)

Fault == faults < MaxFaults /\ faults' = faults + 1

\* What is sent while the service has no subscription does not reach it.
Send(m) ==
  /\ Cardinality({i \in DOMAIN queue : queue[i].unit = m.unit}) < Pending[m.unit]
  /\ queue' = IF link = "subscribed" /\ \E c \in DOMAIN AccidentSubTopics :
                   Matches(AccidentFilter(AccidentSubTopics[c]), Topic(m))
              THEN Append(queue, m) ELSE queue
  /\ UNCHANGED <<service, work, effects, faults>>

Ask(u) ==
  /\ current[u] < Len(Plan[u])
  /\ current' = [current EXCEPT ![u] = @ + 1]
  /\ Send([unit |-> u, nr |-> current[u] + 1])

\* A unit that does not find its answer among the retained ones asks again.
Repeat(u) ==
  LET m == [unit |-> u, nr |-> current[u]]
  IN /\ current[u] > 0
     /\ ~Answered(m)
     /\ Send(m)
     /\ UNCHANGED current

----------------------------------------------------------------------------
(* HandleMessageAsync *)

\* Mutant: the handler starts the work on the thread pool and returns.
TakeMutant ==
  /\ link = "subscribed" /\ queue # <<>>
  /\ work' = work \cup {[message |-> Head(queue), at |-> "handling"]}
  /\ queue' = Tail(queue)
  /\ UNCHANGED <<current, service, effects, faults>>

\* Mutant: a message is acknowledged when it is received.
TakeAckedMutant ==
  /\ link = "subscribed" /\ queue # <<>> /\ work = {}
  /\ work' = {[message |-> Head(queue), at |-> "handling"]}
  /\ queue' = Tail(queue)
  /\ acked' = acked \cup {m \in {Head(queue)} : Report(m)}
  /\ UNCHANGED <<current, service, copies, retained, failed, faults>>

Take ==
  /\ link = "subscribed" /\ queue # <<>> /\ work = {}
  /\ work' = {[message |-> Head(queue), at |-> "handling"]}
  /\ queue' = Tail(queue)
  /\ UNCHANGED <<current, service, effects, faults>>

\* HandleMessageAsync returns, whatever went wrong in it; it is acknowledged as
\* long as its session lives.
Return(w) ==
  /\ work' = work \ {w}
  /\ acked' = acked \cup {m \in {w.message} : Report(m) /\ link # "down"}

Handling(w, kinds) == w.at = "handling" /\ Case(Topic(w.message)) \in kinds

\* The corners of a blocking report's polygon are refused, and the report with
\* them, when EF Core takes them for rows that are there.
Storable(m) == m \in Blocking => CornersAdded

\* Mutant: what is stored is newAccident, under a Guid of its own.
SaveMutant(w) ==
  /\ Handling(w, {2}) /\ migrated /\ Storable(w.message)
  /\ copies' = [copies EXCEPT ![w.message] = IF @ = 0 THEN 1 ELSE 2]
  /\ work' = (work \ {w}) \cup {[w EXCEPT !.at = "responding"]}
  /\ UNCHANGED <<current, service, queue, retained, acked, failed, faults>>

\* What is stored is the mapped accident, under the report's Guid, or under one
\* of EF's making if that is Guid.Empty.
Save(w) ==
  /\ Handling(w, {2}) /\ migrated /\ Storable(w.message)
  /\ w.message \in Identified => copies[w.message] = 0
  /\ copies' = [copies EXCEPT ![w.message] = IF @ = 0 THEN 1 ELSE 2]
  /\ work' = (work \ {w}) \cup {[w EXCEPT !.at = "responding"]}
  /\ UNCHANGED <<current, service, queue, retained, acked, failed, faults>>

\* The key is taken: SaveChangesAsync throws, the report is only logged.
Duplicate(w) ==
  /\ Handling(w, {2}) /\ migrated
  /\ w.message \in Identified /\ copies[w.message] > 0
  /\ Return(w)
  /\ UNCHANGED <<current, service, queue, copies, retained, failed, faults>>

\* Mutant: the exception of the save is swallowed and the answer sent.
SaveFailsMutant(w) ==
  /\ Handling(w, {2})
  /\ \/ (~migrated \/ ~Storable(w.message)) /\ UNCHANGED faults
     \/ Fault
  /\ failed' = failed \cup {m \in {w.message} : copies[m] = 0}
  /\ work' = (work \ {w}) \cup {[w EXCEPT !.at = "responding"]}
  /\ UNCHANGED <<current, service, queue, copies, retained, acked>>

\* The database is not there or has no table, or an UPDATE of a corner that is
\* no row hits nothing.
SaveFails(w) ==
  /\ Handling(w, {2})
  /\ \/ (~migrated \/ ~Storable(w.message)) /\ UNCHANGED faults
     \/ Fault
  /\ failed' = failed \cup {m \in {w.message} : copies[m] = 0}
  /\ Return(w)
  /\ UNCHANGED <<current, service, queue, copies, retained>>

\* The route service answers; for routes that avoid accidents the polygons are
\* read first.
Route(w) ==
  /\ Handling(w, {3, 4})
  /\ Case(Topic(w.message)) = 4 => migrated
  /\ work' = (work \ {w}) \cup {[w EXCEPT !.at = "responding"]}
  /\ UNCHANGED <<current, service, queue, effects, faults>>

RouteFails(w) ==
  /\ Handling(w, {3, 4})
  /\ \/ Case(Topic(w.message)) = 4 /\ ~migrated /\ UNCHANGED faults
     \/ Fault
  /\ Return(w)
  /\ UNCHANGED <<current, service, queue, copies, retained, failed>>

\* PublishAsync: the answer replaces the retained one of its topic.
Publish(w) ==
  /\ w.at = "responding"
  /\ link # "down"
  /\ retained' = {r \in retained : r[1] \notin ResponseTopics(w.message)}
                    \cup ResponseTopics(w.message) \X {w.message}
  /\ Return(w)
  /\ UNCHANGED <<current, service, queue, copies, failed, faults>>

\* The client is not connected, or the broker does not answer in time.
PublishFails(w) ==
  /\ w.at = "responding"
  /\ \/ link = "down" /\ UNCHANGED faults
     \/ Fault
  /\ Return(w)
  /\ UNCHANGED <<current, service, queue, copies, retained, failed>>

----------------------------------------------------------------------------
(* Connection and process *)

Connect ==
  /\ process # "down" /\ link = "down" /\ work = {}
  /\ link' = "connected"
  /\ UNCHANGED <<current, development, process, migrated, queue, work, effects, faults>>

\* StartAsync has had its one go at connecting and subscribing.
StartAsyncReturns == process' = IF process = "starting" THEN "greeting" ELSE process


Subscribe ==
  /\ link = "connected"
  /\ link' = "subscribed" /\ StartAsyncReturns
  /\ UNCHANGED <<current, development, migrated, queue, work, effects, faults>>

\* The exception is logged; start-up and the reconnection loop take it for done.
SubscribeFails ==
  /\ link = "connected" /\ Fault
  /\ link' = "deaf" /\ StartAsyncReturns
  /\ UNCHANGED <<current, development, migrated, queue, work, effects>>

\* The session ends with the connection, and what was in flight with it.
LinkLost ==
  /\ link # "down" /\ Fault
  /\ link' = "down" /\ queue' = <<>> /\ StartAsyncReturns
  /\ UNCHANGED <<current, development, migrated, work, effects>>

\* Start-up publishes that the server is well,
Greet ==
  /\ process = "greeting" /\ link # "down"
  /\ process' = "migrating"
  /\ UNCHANGED <<current, development, migrated, link, queue, work, effects, faults>>

\* and then migrates the database, but in Development only.
InitializeDatabase ==
  /\ process = "migrating"
  /\ process' = "running" /\ migrated' = (migrated \/ development)
  /\ UNCHANGED <<current, development, link, queue, work, effects, faults>>

Die ==
  /\ process' = "down" /\ link' = "down" /\ queue' = <<>> /\ work' = {}
  /\ UNCHANGED <<current, development, migrated, effects>>

\* Nothing catches what start-up throws: without a connection no greeting.
GreetFails ==
  /\ process = "greeting" /\ link = "down"
  /\ Die /\ UNCHANGED faults

\* The process is killed, or its first connection, its greeting or its migration
\* fails.
Crash == process # "down" /\ Fault /\ Die

\* Somebody, or docker compose in production, starts it again.
Restart ==
  /\ process = "down"
  /\ process' = "starting"
  /\ UNCHANGED <<current, development, migrated, link, queue, work, effects, faults>>

Handle(w) ==
  \/ Save(w) \/ Duplicate(w) \/ SaveFails(w)
  \/ Route(w) \/ RouteFails(w)
  \/ Publish(w) \/ PublishFails(w)

Next ==
  \/ \E u \in Units : Ask(u) \/ Repeat(u)
  \/ Take
  \/ \E w \in work : Handle(w)
  \/ Connect \/ Subscribe \/ SubscribeFails \/ LinkLost
  \/ Greet \/ GreetFails \/ InitializeDatabase \/ Crash \/ Restart

Spec == Init /\ [][Next]_vars

\* Units go on asking; the service goes on handling messages and connecting, and
\* its start-up goes on; nothing has to fail.  Only the composed deployment, which
\* is not Development, has a restart policy.
FairSpec ==
  /\ Spec
  /\ \A u \in Units : WF_vars(Repeat(u))
  /\ WF_vars(Take \/ \E w \in work : Handle(w))
  /\ WF_vars(\/ Connect \/ Subscribe \/ Greet \/ GreetFails \/ InitializeDatabase
             \/ ~development /\ Restart)

----------------------------------------------------------------------------
\* Every answer is retained where the unit reads that kind of answer and is to
\* a request of that unit; a report it is to was stored.  (HandleMessageAsync's
\* routing, HandleAccidentReport's order of save and answer.)
AnswersOwn ==
  \A r \in retained :
    /\ r[1] = AnswerTopic(r[2].unit, Kind(r[2]))
    /\ Report(r[2]) => copies[r[2]] > 0

\* An answer is never replaced by one to an earlier request of the unit, over
\* repetitions, reconnections and restarts.  (HandleMessageAsync is awaited.)
AnswersForward ==
  [][\A r \in retained, q \in retained' : r[1] = q[1] => r[2].nr <= q[2].nr]_retained

\* However often a report with a Guid is repeated, and wherever the service
\* stopped handling it, one accident is stored.  (HandleAccidentReport.)
StoredOnce == \A m \in Identified : copies[m] <= 1

\* A report that was acknowledged is stored, or its own save failed: no crash
\* and no lost connection loses one after its acknowledgement.
AckedDecided == \A m \in acked : copies[m] > 0 \/ m \in failed

\* Broker, queue, sessions, restarts and the database's failures taken together
\* are the service RoadsideRequests promises: what a unit has asked for is what
\* its number has reached, and what stands answered is what is retained.
Reports == {m \in Requests : Report(m)}
Asked == {m \in Requests : m.nr <= current[m.unit]}
Standing == {r[2] : r \in retained}

Promised ==
  INSTANCE RoadsideRequests WITH
    Guarded <- Identified,
    Channel <- [m \in Requests |-> AnswerTopic(m.unit, Kind(m))],
    asked <- Asked,
    answered <- Standing

\* Nothing is stored, refused, answered or acknowledged but as RoadsideRequests
\* allows, whatever crashes, disconnections and repetitions come in between.
\* (HandleMessageAsync and its handlers, PublishAsync, the reconnection loop.)
ImplementsRequests == Promised!Spec

\* A unit that goes on asking gets its report stored, over crashes, lost
\* connections and, in Development, a database that is migrated after the
\* subscription; unless the broker did not confirm a subscription, which nobody
\* tries again, nobody prepared the database of a production environment, which
\* the program does not migrate, or nobody starts a Development service again.
\* What EF Core refuses is not promised.
OutOfService ==
  \/ link = "deaf"
  \/ ~development /\ ~migrated
  \/ development /\ process = "down"
=============================================================================
