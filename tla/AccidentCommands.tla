-------------------------- MODULE AccidentCommands --------------------------
(***************************************************************************)
(* The accident monitor's handlers over its database.  HTTP requests run   *)
(* concurrently, each with a DbContext of its own; MQTT messages are       *)
(* handled one at a time, concurrently with the HTTP requests.  A handler  *)
(* that changes an accident reads it, publishes its domain events and then *)
(* saves; nothing but the database's constraints keeps two handlers apart. *)
(*                                                                         *)
(* External, modelled from how the code uses it: EF Core and SQL Server    *)
(* execute one SaveChanges as one transaction, refuse a second row with    *)
(* the same key or a row outside the CHECK constraints, throw when the     *)
(* row to update or delete is gone, and cascade a deletion to polygons.    *)
(* What EF Core makes of the corners that AccidentEntityInterceptor hangs  *)
(* on an accident is the parameter CornersAdded.  They come with a Guid    *)
(* (BaseEntity) for a key that is configured as generated on add: 9.0, to  *)
(* which the build is pinned, takes them for rows that are there, updates  *)
(* none and refuses the save.  Every save may fail, so that what holds of  *)
(* corners that are added holds of corners that are refused.               *)
(***************************************************************************)
CONSTANTS
  Accidents,  \* accident Guids: bounds how many accidents there may be
  Requests,   \* the requests and messages that arrive: bounds the work
  Ops,        \* which operations they ask for
  Shapes,     \* which kinds of payload occur
  CornersAdded  \* whether EF Core takes a polygon's corners for new; 9.0 does not

Reports == {"ReportAccident", "HandleAccidentReport"}
Changes == {"UpdateAccidentStatus", "DeleteAccidentCommand"}
Routes == {"GetDirectionAdvancedQuery", "HandleAdvancedDirectionRequest"}
Queries == Routes \cup {"GetMultiBlockedPolygonFormat", "GetBlockedPolygonsQuery"}
MqttOps == {"HandleAccidentReport", "HandleAdvancedDirectionRequest"}

\* A payload is inside the coordinate ranges, on their edge, outside, or not
\* usable at all (unreadable JSON, a missing object).
ASSUME OpsAssumption == Ops \subseteq Reports \cup Changes \cup Queries
ASSUME ShapesAssumption ==
  "inside" \in Shapes /\ Shapes \subseteq {"inside", "edge", "outside", "garbled"}
ASSUME AccidentsAssumption == Accidents # {}
ASSUME CornersAssumption == CornersAdded \in BOOLEAN

Payloads == [shape : Shapes, blocking : BOOLEAN, status : {"Unresolved", "Resolved"}]
NoPayload == [shape |-> "inside", blocking |-> FALSE, status |-> "Unresolved"]

VARIABLES
  accidents,  \* table Accidents: absent, or the row's ResolvedStatus
  isBlocking, \* the rows whose IsBlockingWay column is set
  polygons,   \* the accidents whose rows are in table PolygonCoordinates
  op, target, payload,  \* what each request asks for
  pc,         \* where its handler is
  seen,       \* what GetByIdAsync returned to it
  seenBlocking, \* the IsBlockingWay value in the entity it read
  readings,   \* the polygons it read: nothing yet, or to what end and whose
  announced,  \* the domain events published through MediatR
  outcome     \* what its sender is told

request == <<op, target, payload>>
tables == <<accidents, isBlocking, polygons>>
vars == <<tables, request, pc, seen, seenBlocking, readings, announced, outcome>>

Events == {"AccidentCreatedEvent", "AccidentUpdatedEvent", "AccidentDeletedEvent"}

TypeOK ==
  /\ accidents \in [Accidents -> {"absent", "Unresolved", "Resolved"}]
  /\ isBlocking \subseteq Accidents /\ polygons \subseteq Accidents
  /\ op \in [Requests -> Ops \cup {"none"}]
  /\ target \in [Requests -> Accidents]
  /\ payload \in [Requests -> Payloads]
  /\ pc \in [Requests -> {"idle", "received", "announcing", "saving", "responding",
                          "routing", "done"}]
  /\ seen \in [Requests -> {"unread", "absent", "Unresolved", "Resolved"}]
  /\ seenBlocking \in [Requests -> BOOLEAN]
  /\ readings \in [Requests -> SUBSET ({"avoid", "list"} \X SUBSET Accidents)]
  /\ announced \subseteq Events \X Accidents
  /\ outcome \in [Requests -> {"none", "created", "noContent", "null", "deleted",
                               "answered", "badRequest", "failed", "silent", "lost"}]

Init ==
  /\ accidents = [a \in Accidents |-> "absent"]
  /\ isBlocking = {} /\ polygons = {}
  /\ op = [r \in Requests |-> "none"]
  /\ target = [r \in Requests |-> CHOOSE a \in Accidents : TRUE]
  /\ payload = [r \in Requests |-> NoPayload]
  /\ pc = [r \in Requests |-> "idle"]
  /\ seen = [r \in Requests |-> "unread"]
  /\ seenBlocking = [r \in Requests |-> FALSE]
  /\ readings = [r \in Requests |-> {}]
  /\ announced = {}
  /\ outcome = [r \in Requests |-> "none"]

InFlight(r) == pc[r] \notin {"idle", "done"}

Go(r, from, to) == pc[r] = from /\ pc' = [pc EXCEPT ![r] = to]

Finish(r, from, what) ==
  /\ Go(r, from, "done")
  /\ outcome' = [outcome EXCEPT ![r] = what]

\* Mutant: the MQTT handlers let the exception's text through as an answer.
FailureMutant(r) == IF op[r] \in MqttOps THEN "exception" ELSE "failed"

\* What the sender learns of an exception: an HTTP error, or nothing at all
\* (the MQTT handlers log it and return).
Failure(r) == IF op[r] \in MqttOps THEN "silent" ELSE "failed"
(* ------------------------------- arrival ------------------------------- *)

\* The client library awaits HandleMessageAsync before the next message.
MqttBusy == \E r \in Requests : op[r] \in MqttOps /\ InFlight(r)

\* A Guid made by the service is new; only an RSU can repeat one.
FreshGuid(a) == accidents[a] = "absent" /\ \A r \in Requests : op[r] # "none" => target[r] # a

Receive(r, o, a, p) ==
  /\ Go(r, "idle", "received")
  /\ o \in MqttOps => ~MqttBusy
  /\ op' = [op EXCEPT ![r] = o]
  /\ target' = [target EXCEPT ![r] = a]
  /\ payload' = [payload EXCEPT ![r] = p]
  /\ UNCHANGED <<tables, seen, seenBlocking, readings, announced, outcome>>

\* What a payload that will not be stored says besides is not told apart, and on
\* the edge only a report that blocks the way differs from one inside.
ReceiveReport(r) ==
  \E o \in Ops \cap Reports, a \in Accidents, p \in Payloads :
    /\ p.shape # "inside"
         => p = [NoPayload EXCEPT !.shape = p.shape, !.blocking = p.shape = "edge"]
    /\ o = "ReportAccident" => p.status = "Unresolved" /\ FreshGuid(a)
    /\ Receive(r, o, a, p)

ReceiveChange(r) ==
  \E o \in Ops \cap Changes, a \in Accidents, p \in Payloads :
    /\ p = [NoPayload EXCEPT !.shape = p.shape]
    /\ p.shape \in IF o = "UpdateAccidentStatus" THEN {"inside", "garbled"} ELSE {"inside"}
    /\ Receive(r, o, a, p)

ReceiveQuery(r) ==
  \E o \in Ops \cap Queries, p \in Payloads :
    /\ p = [NoPayload EXCEPT !.shape = p.shape]
    /\ o \notin Routes => p.shape = "inside"
    /\ Receive(r, o, target[r], p)

\* ValidationBehaviour and model binding refuse an HTTP request; the MQTT
\* handlers validate nothing and only fail on a payload they cannot read.
Reject(r) ==
  /\ op[r] \notin MqttOps
  /\ payload[r].shape = "garbled" \/ (op[r] = "ReportAccident" /\ payload[r].shape = "outside")
  /\ Finish(r, "received", "badRequest")
  /\ UNCHANGED <<tables, request, seen, seenBlocking, readings, announced>>

Unreadable(r) ==
  /\ op[r] \in MqttOps
  /\ payload[r].shape = "garbled"
  /\ Finish(r, "received", "silent")
  /\ UNCHANGED <<tables, request, seen, seenBlocking, readings, announced>>

(* ----------------------- reports, updates, deletions ------------------- *)

Validated(r) ==
  /\ op[r] = "ReportAccident" /\ payload[r].shape \in {"inside", "edge"}
  /\ Go(r, "received", "announcing")
  /\ UNCHANGED <<tables, request, seen, seenBlocking, readings, announced, outcome>>

\* Mutant: the MQTT handler publishes its response without saving.
MapReportMutant(r) ==
  /\ op[r] = "HandleAccidentReport" /\ payload[r].shape # "garbled"
  /\ Go(r, "received", "responding")
  /\ UNCHANGED <<tables, request, seen, seenBlocking, readings, announced, outcome>>

\* The MQTT handler adds the entity itself: no validation, no domain event.
MapReport(r) ==
  /\ op[r] = "HandleAccidentReport" /\ payload[r].shape # "garbled"
  /\ Go(r, "received", "saving")
  /\ UNCHANGED <<tables, request, seen, seenBlocking, readings, announced, outcome>>

\* Mutant: the status is set and saved without a domain event.
FindForUpdateMutant(r) ==
  /\ op[r] = "UpdateAccidentStatus" /\ payload[r].shape # "garbled" /\ pc[r] = "received"
  /\ seen' = [seen EXCEPT ![r] = accidents[target[r]]]
  /\ seenBlocking' = [seenBlocking EXCEPT ![r] = target[r] \in isBlocking]
  /\ IF accidents[target[r]] = "Unresolved"
       THEN Go(r, "received", "saving") /\ UNCHANGED outcome
       ELSE Finish(r, "received", "noContent")
  /\ UNCHANGED <<tables, request, readings, announced>>

\* GetByIdAsync.  The endpoint compares the handler's null with Guid.Empty, so
\* that an unknown accident is answered like a known one.
FindForUpdate(r) ==
  /\ op[r] = "UpdateAccidentStatus" /\ payload[r].shape # "garbled" /\ pc[r] = "received"
  /\ seen' = [seen EXCEPT ![r] = accidents[target[r]]]
  /\ seenBlocking' = [seenBlocking EXCEPT ![r] = target[r] \in isBlocking]
  /\ IF accidents[target[r]] = "Unresolved"
       THEN Go(r, "received", "announcing") /\ UNCHANGED outcome
       ELSE Finish(r, "received", "noContent")
  /\ UNCHANGED <<tables, request, readings, announced>>

FindForDelete(r) ==
  /\ op[r] = "DeleteAccidentCommand" /\ pc[r] = "received"
  /\ seen' = [seen EXCEPT ![r] = accidents[target[r]]]
  /\ IF accidents[target[r]] # "absent"
       THEN Go(r, "received", "announcing") /\ UNCHANGED outcome
       ELSE Finish(r, "received", "null")
  /\ UNCHANGED <<tables, request, seenBlocking, readings, announced>>

EventOf(o) ==
  IF o = "ReportAccident" THEN "AccidentCreatedEvent"
  ELSE IF o = "UpdateAccidentStatus" THEN "AccidentUpdatedEvent"
  ELSE "AccidentDeletedEvent"

\* The database does not answer the handler's first query.
ReadFails(r) ==
  /\ op[r] \in Changes \cup Queries /\ payload[r].shape # "garbled"
  /\ Finish(r, "received", Failure(r))
  /\ UNCHANGED <<tables, request, seen, seenBlocking, readings, announced>>

\* DispatchDomainEventsInterceptor publishes before the rows are written.
Announce(r) ==
  /\ Go(r, "announcing", "saving")
  /\ announced' = announced \cup {<<EventOf(op[r]), target[r]>>}
  /\ UNCHANGED <<tables, request, seen, seenBlocking, readings, outcome>>

\* The CHECK constraints hold for the accident and for the square around it, and
\* the square's corners are inserted.
Storable(p) ==
  /\ p.shape = "inside" \/ (p.shape = "edge" /\ ~p.blocking)
  /\ p.blocking => CornersAdded

\* Mutant: a report with a known Guid overwrites the row (Update for Add).
InsertAccidentMutant(r) ==
  /\ op[r] \in Reports
  /\ Storable(payload[r])
  /\ Go(r, "saving", "responding")
  /\ accidents' = [accidents EXCEPT ![target[r]] = payload[r].status]
  /\ isBlocking' = IF payload[r].blocking THEN isBlocking \cup {target[r]} ELSE isBlocking
  /\ polygons' = IF payload[r].blocking THEN polygons \cup {target[r]} ELSE polygons
  /\ UNCHANGED <<request, seen, seenBlocking, readings, announced, outcome>>

\* Mutant: the MQTT path does not get the square that HTTP reports get.
InsertWithoutPolygonsMutant(r) ==
  /\ op[r] \in Reports
  /\ accidents[target[r]] = "absent" /\ Storable(payload[r])
  /\ Go(r, "saving", "responding")
  /\ accidents' = [accidents EXCEPT ![target[r]] = payload[r].status]
  /\ isBlocking' = IF payload[r].blocking THEN isBlocking \cup {target[r]} ELSE isBlocking
  /\ polygons' = IF payload[r].blocking /\ op[r] = "ReportAccident"
                   THEN polygons \cup {target[r]} ELSE polygons
  /\ UNCHANGED <<request, seen, seenBlocking, readings, announced, outcome>>

\* AccidentEntityInterceptor adds the polygon rows to the same transaction.
InsertAccident(r) ==
  /\ op[r] \in Reports
  /\ accidents[target[r]] = "absent" /\ Storable(payload[r])
  /\ Go(r, "saving", "responding")
  /\ accidents' = [accidents EXCEPT ![target[r]] = payload[r].status]
  /\ isBlocking' = IF payload[r].blocking THEN isBlocking \cup {target[r]} ELSE isBlocking
  /\ polygons' = IF payload[r].blocking THEN polygons \cup {target[r]} ELSE polygons
  /\ UNCHANGED <<request, seen, seenBlocking, readings, announced, outcome>>

\* Mutant: the row is written back as it was read, the status included.
UpdateAccidentMutant(r) ==
  /\ op[r] = "UpdateAccidentStatus"
  /\ accidents[target[r]] # "absent"
  /\ Go(r, "saving", "responding")
  /\ accidents' = [accidents EXCEPT ![target[r]] = seen[r]]
  /\ isBlocking' = IF seenBlocking[r] THEN isBlocking \cup {target[r]}
                                      ELSE isBlocking \ {target[r]}
  /\ UNCHANGED <<polygons, request, seen, seenBlocking, readings, announced, outcome>>

\* Update marks every column modified: the row is written as it was read, with
\* the status the endpoint always asks for.
UpdateAccident(r) ==
  /\ op[r] = "UpdateAccidentStatus"
  /\ accidents[target[r]] # "absent"
  /\ Go(r, "saving", "responding")
  /\ accidents' = [accidents EXCEPT ![target[r]] = "Resolved"]
  /\ isBlocking' = IF seenBlocking[r] THEN isBlocking \cup {target[r]}
                                      ELSE isBlocking \ {target[r]}
  /\ UNCHANGED <<polygons, request, seen, seenBlocking, readings, announced, outcome>>

\* Mutant: the foreign key does not cascade.
DeleteAccidentMutant(r) ==
  /\ op[r] = "DeleteAccidentCommand"
  /\ accidents[target[r]] # "absent"
  /\ Go(r, "saving", "responding")
  /\ accidents' = [accidents EXCEPT ![target[r]] = "absent"]
  /\ isBlocking' = isBlocking \ {target[r]}
  /\ UNCHANGED <<polygons, request, seen, seenBlocking, readings, announced, outcome>>

DeleteAccident(r) ==
  /\ op[r] = "DeleteAccidentCommand"
  /\ accidents[target[r]] # "absent"
  /\ Go(r, "saving", "responding")
  /\ accidents' = [accidents EXCEPT ![target[r]] = "absent"]
  /\ isBlocking' = isBlocking \ {target[r]}
  /\ polygons' = polygons \ {target[r]}
  /\ UNCHANGED <<request, seen, seenBlocking, readings, announced, outcome>>

\* A constraint, a row gone meanwhile or taken for one that is there, or the
\* database out of reach: the transaction leaves nothing behind.
SaveFails(r) ==
  /\ Finish(r, "saving", Failure(r))
  /\ UNCHANGED <<tables, request, seen, seenBlocking, readings, announced>>

Respond(r) ==
  /\ op[r] \notin MqttOps
  /\ Finish(r, "responding", IF op[r] = "ReportAccident" THEN "created"
                             ELSE IF op[r] = "UpdateAccidentStatus" THEN "noContent"
                             ELSE "deleted")
  /\ UNCHANGED <<tables, request, seen, seenBlocking, readings, announced>>

\* PublishAsync throws while the client is disconnected.
PublishResponse(r) ==
  /\ op[r] \in MqttOps
  /\ \E answer \in {"answered", "silent"} : Finish(r, "responding", answer)
  /\ UNCHANGED <<tables, request, seen, seenBlocking, readings, announced>>

(* -------------------------------- queries ------------------------------ *)

\* Mutant: the routes are computed from every polygon, resolved ones too.
UnresolvedMutant == polygons

Unresolved == {a \in polygons : accidents[a] = "Unresolved"}

\* GetAllUnResolvedAsync and GetAllAsync are one SELECT each.
ReadPolygons(r) ==
  /\ op[r] \in Queries /\ payload[r].shape # "garbled"
  /\ Go(r, "received", IF op[r] \in Routes THEN "routing" ELSE "done")
  /\ readings' = [readings EXCEPT ![r] =
                    {IF op[r] = "GetBlockedPolygonsQuery" THEN <<"list", polygons>>
                     ELSE <<"avoid", Unresolved>>}]
  /\ outcome' = IF op[r] \in Routes THEN outcome ELSE [outcome EXCEPT ![r] = "answered"]
  /\ UNCHANGED <<tables, request, seen, seenBlocking, announced>>

\* The OpenRouteService answers or ORService throws; an MQTT answer is published.
Route(r) ==
  /\ \E answer \in {"answered", Failure(r)} : Finish(r, "routing", answer)
  /\ UNCHANGED <<tables, request, seen, seenBlocking, readings, announced>>

(* ------------------------------- the whole ----------------------------- *)

\* The process dies: what was in flight is never answered, the tables remain.
Crash ==
  /\ \E r \in Requests : InFlight(r)
  /\ pc' = [r \in Requests |-> IF InFlight(r) THEN "done" ELSE pc[r]]
  /\ outcome' = [r \in Requests |-> IF InFlight(r) THEN "lost" ELSE outcome[r]]
  /\ UNCHANGED <<tables, request, seen, seenBlocking, readings, announced>>

Arrive(r) == ReceiveReport(r) \/ ReceiveChange(r) \/ ReceiveQuery(r)

Step(r) ==
  \/ Reject(r) \/ Unreadable(r)
  \/ Validated(r) \/ MapReport(r) \/ FindForUpdate(r) \/ FindForDelete(r)
  \/ ReadFails(r)
  \/ Announce(r)
  \/ InsertAccident(r) \/ UpdateAccident(r) \/ DeleteAccident(r) \/ SaveFails(r)
  \/ Respond(r) \/ PublishResponse(r)
  \/ ReadPolygons(r) \/ Route(r)

Next ==
  \/ \E r \in Requests : Arrive(r) \/ Step(r)
  \/ Crash

Spec == Init /\ [][Next]_vars
(* ------------------------------ properties ----------------------------- *)

\* The handlers, each a sequence of reads, events and one save, interleaved
\* and cut off anywhere, never show more than the registry allows: whatever
\* happens is one atomic registration, resolution, removal or reading.
Registry == INSTANCE AccidentRegistry WITH status <- accidents, blockers <- polygons

ImplementsRegistry == Registry!Spec

\* No sequence of requests and messages reopens a resolved accident: the
\* endpoint resolves whatever the body says, and a report that repeats a Guid
\* is refused, not merged.
ResolvedForGood ==
  [][\A a \in Accidents : accidents[a] = "Resolved" => accidents'[a] # "Unresolved"]_vars

\* What blocks the way has polygons and nothing else has: the column
\* IsBlockingWay and the polygon rows agree.  (Of the operations the service
\* exposes; a deletion followed by a report with the same Guid can part them,
\* because an update writes back every column it read.)
PolygonsMatch == polygons = isBlocking /\ \A a \in polygons : accidents[a] # "absent"

Acknowledged(r) == op[r] \in Reports /\ outcome[r] \in {"created", "answered"}

\* A report that was acknowledged, over HTTP or MQTT, is in the database.
AcknowledgedIsStored ==
  \A r \in Requests : Acknowledged(r) => accidents[target[r]] # "absent"

\* Of several reports under one Guid, an RSU repeating an accident that came in
\* over HTTP or its own, at most one is told that it was stored, however their
\* handlers overlap.
OneReporter ==
  \A r, q \in Requests :
    Acknowledged(r) /\ Acknowledged(q) /\ target[r] = target[q] => r = q

\* Deletions and new reports under the same Guid included, an update that read
\* the row before leaves nothing behind that blocks the way without an accident.
NoOrphans == \A a \in polygons \cup isBlocking : accidents[a] # "absent"

\* An operator whose update of an accident the handler found was answered 204
\* has it resolved for every later reader.
ResolutionSticks ==
  \A r \in Requests :
    op[r] = "UpdateAccidentStatus" /\ outcome[r] = "noContent" /\ seen[r] # "absent"
      => accidents[target[r]] = "Resolved"

\* A stored accident never changes unannounced: its event has been published by
\* the time the row changes (subscribers may hear of a change that then fails,
\* never miss one that succeeds).
ChangesAnnounced ==
  [][\A a \in Accidents :
       accidents[a] # "absent" /\ accidents'[a] # accidents[a]
         => <<IF accidents'[a] = "absent" THEN "AccidentDeletedEvent"
                                          ELSE "AccidentUpdatedEvent", a>> \in announced]_vars

\* The endpoint's "Accident not found." (AccidentReport.cs l.35): the update of
\* an accident that does not exist is not answered like a success.
UnknownAccidentRefused ==
  \A r \in Requests :
    op[r] = "UpdateAccidentStatus" /\ seen[r] = "absent" => outcome[r] # "noContent"

\* The one answer that "ReportAccident" is documented with (specification.json
\* l.28) is 201, with the accident's Guid: under a free Guid nothing in the
\* database stands against a report inside the range, whether its accident
\* blocks the way or not.
ReportsStorable ==
  \A r \in Requests :
    /\ op[r] = "ReportAccident" /\ payload[r].shape = "inside"
    /\ pc[r] = "saving" /\ accidents[target[r]] = "absent"
    => ENABLED InsertAccident(r)
=============================================================================
