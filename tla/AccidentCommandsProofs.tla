----------------------- MODULE AccidentCommandsProofs -----------------------
(***************************************************************************)
(* Proofs about AccidentCommands, for any accidents, requests and          *)
(* payloads.                                                               *)
(***************************************************************************)
EXTENDS AccidentCommands, TLAPS

USE OpsAssumption, ShapesAssumption, AccidentsAssumption

LEMMA TypeInit == Init => TypeOK
<1> SUFFICES ASSUME Init PROVE TypeOK
  OBVIOUS
<1>1. NoPayload \in Payloads
  BY DEF NoPayload, Payloads
<1>2. (CHOOSE a \in Accidents : TRUE) \in Accidents
  OBVIOUS
<1> QED
  BY <1>1, <1>2 DEF Init, TypeOK

LEMMA TypeStep == TypeOK /\ [Next]_vars => TypeOK'
<1> SUFFICES ASSUME TypeOK, [Next]_vars PROVE TypeOK'
  OBVIOUS
<1> USE DEF TypeOK, Go, tables, request
<1>1. ASSUME NEW r \in Requests, ReceiveReport(r) PROVE TypeOK'
  BY <1>1 DEF ReceiveReport, Receive
<1>2. ASSUME NEW r \in Requests, ReceiveChange(r) PROVE TypeOK'
  BY <1>2 DEF ReceiveChange, Receive
<1>3. ASSUME NEW r \in Requests, ReceiveQuery(r) PROVE TypeOK'
  BY <1>3 DEF ReceiveQuery, Receive
<1>4. ASSUME NEW r \in Requests, Reject(r) PROVE TypeOK'
  BY <1>4 DEF Reject, Finish
<1>5. ASSUME NEW r \in Requests, Unreadable(r) PROVE TypeOK'
  BY <1>5 DEF Unreadable, Finish
<1>6. ASSUME NEW r \in Requests, Validated(r) PROVE TypeOK'
  BY <1>6 DEF Validated
<1>7. ASSUME NEW r \in Requests, MapReport(r) PROVE TypeOK'
  BY <1>7 DEF MapReport
<1>8. ASSUME NEW r \in Requests, FindForUpdate(r) PROVE TypeOK'
  BY <1>8 DEF FindForUpdate, Finish
<1>9. ASSUME NEW r \in Requests, FindForDelete(r) PROVE TypeOK'
  BY <1>9 DEF FindForDelete, Finish
<1>10. ASSUME NEW r \in Requests, Announce(r) PROVE TypeOK'
  BY <1>10 DEF Announce, EventOf, Events
<1>11. ASSUME NEW r \in Requests, InsertAccident(r) PROVE TypeOK'
  BY <1>11 DEF InsertAccident, Payloads
<1>12. ASSUME NEW r \in Requests, UpdateAccident(r) PROVE TypeOK'
  BY <1>12 DEF UpdateAccident
<1>13. ASSUME NEW r \in Requests, DeleteAccident(r) PROVE TypeOK'
  BY <1>13 DEF DeleteAccident
<1>14. ASSUME NEW r \in Requests, SaveFails(r) PROVE TypeOK'
  BY <1>14 DEF SaveFails, Finish, Failure
<1>15. ASSUME NEW r \in Requests, Respond(r) PROVE TypeOK'
  BY <1>15 DEF Respond, Finish
<1>16. ASSUME NEW r \in Requests, PublishResponse(r) PROVE TypeOK'
  BY <1>16 DEF PublishResponse, Finish
<1>17. ASSUME NEW r \in Requests, ReadPolygons(r) PROVE TypeOK'
  BY <1>17 DEF ReadPolygons, Unresolved
<1>18. ASSUME NEW r \in Requests, Route(r) PROVE TypeOK'
  BY <1>18 DEF Route, Finish, Failure
<1>19. ASSUME NEW r \in Requests, ReadFails(r) PROVE TypeOK'
  BY <1>19 DEF ReadFails, Finish, Failure
<1>20. ASSUME Crash PROVE TypeOK'
  BY <1>20 DEF Crash, InFlight
<1>21. ASSUME UNCHANGED vars PROVE TypeOK'
  BY <1>21 DEF vars
<1> QED
  BY <1>1, <1>2, <1>3, <1>4, <1>5, <1>6, <1>7, <1>8, <1>9, <1>10, <1>11,
     <1>12, <1>13, <1>14, <1>15, <1>16, <1>17, <1>18, <1>19, <1>20,
     <1>21 DEF Next, Arrive, Step

\* The types of the variables.
THEOREM CommandsTypeCorrect == Spec => []TypeOK
  BY TypeInit, TypeStep, PTL DEF Spec

-----------------------------------------------------------------------------

\* A request reads the polygons once: not before it is received, and only then.
ReadingsOnce == \A r \in Requests : pc[r] \in {"idle", "received"} => readings[r] = {}

LEMMA ReadingsOnceStep == TypeOK /\ ReadingsOnce /\ [Next]_vars => ReadingsOnce'
<1> SUFFICES ASSUME TypeOK, ReadingsOnce, [Next]_vars PROVE ReadingsOnce'
  OBVIOUS
<1> USE DEF TypeOK, ReadingsOnce, Go, tables, request
<1>1. ASSUME NEW r \in Requests, ReceiveReport(r) PROVE ReadingsOnce'
  BY <1>1 DEF ReceiveReport, Receive
<1>2. ASSUME NEW r \in Requests, ReceiveChange(r) PROVE ReadingsOnce'
  BY <1>2 DEF ReceiveChange, Receive
<1>3. ASSUME NEW r \in Requests, ReceiveQuery(r) PROVE ReadingsOnce'
  BY <1>3 DEF ReceiveQuery, Receive
<1>4. ASSUME NEW r \in Requests, Reject(r) PROVE ReadingsOnce'
  BY <1>4 DEF Reject, Finish
<1>5. ASSUME NEW r \in Requests, Unreadable(r) PROVE ReadingsOnce'
  BY <1>5 DEF Unreadable, Finish
<1>6. ASSUME NEW r \in Requests, Validated(r) PROVE ReadingsOnce'
  BY <1>6 DEF Validated
<1>7. ASSUME NEW r \in Requests, MapReport(r) PROVE ReadingsOnce'
  BY <1>7 DEF MapReport
<1>8. ASSUME NEW r \in Requests, FindForUpdate(r) PROVE ReadingsOnce'
  BY <1>8 DEF FindForUpdate, Finish
<1>9. ASSUME NEW r \in Requests, FindForDelete(r) PROVE ReadingsOnce'
  BY <1>9 DEF FindForDelete, Finish
<1>10. ASSUME NEW r \in Requests, Announce(r) PROVE ReadingsOnce'
  BY <1>10 DEF Announce, EventOf, Events
<1>11. ASSUME NEW r \in Requests, InsertAccident(r) PROVE ReadingsOnce'
  BY <1>11 DEF InsertAccident, Payloads
<1>12. ASSUME NEW r \in Requests, UpdateAccident(r) PROVE ReadingsOnce'
  BY <1>12 DEF UpdateAccident
<1>13. ASSUME NEW r \in Requests, DeleteAccident(r) PROVE ReadingsOnce'
  BY <1>13 DEF DeleteAccident
<1>14. ASSUME NEW r \in Requests, SaveFails(r) PROVE ReadingsOnce'
  BY <1>14 DEF SaveFails, Finish, Failure
<1>15. ASSUME NEW r \in Requests, Respond(r) PROVE ReadingsOnce'
  BY <1>15 DEF Respond, Finish
<1>16. ASSUME NEW r \in Requests, PublishResponse(r) PROVE ReadingsOnce'
  BY <1>16 DEF PublishResponse, Finish
<1>17. ASSUME NEW r \in Requests, ReadPolygons(r) PROVE ReadingsOnce'
  BY <1>17 DEF ReadPolygons, Unresolved
<1>18. ASSUME NEW r \in Requests, Route(r) PROVE ReadingsOnce'
  BY <1>18 DEF Route, Finish, Failure
<1>19. ASSUME NEW r \in Requests, ReadFails(r) PROVE ReadingsOnce'
  BY <1>19 DEF ReadFails, Finish, Failure
<1>20. ASSUME Crash PROVE ReadingsOnce'
  BY <1>20 DEF Crash, InFlight
<1>21. ASSUME UNCHANGED vars PROVE ReadingsOnce'
  BY <1>21 DEF vars
<1> QED
  BY <1>1, <1>2, <1>3, <1>4, <1>5, <1>6, <1>7, <1>8, <1>9, <1>10, <1>11,
     <1>12, <1>13, <1>14, <1>15, <1>16, <1>17, <1>18, <1>19, <1>20,
     <1>21 DEF Next, Arrive, Step

\* One step of a handler is one step of the registry or none: only the saves
\* and the query are visible there.
LEMMA RegistryStep ==
  TypeOK /\ ReadingsOnce /\ [Next]_vars => [Registry!Next]_(Registry!vars)
<1> SUFFICES ASSUME TypeOK, ReadingsOnce, [Next]_vars
             PROVE  [Registry!Next]_(Registry!vars)
  OBVIOUS
<1> USE DEF Registry!vars, tables, request
<1>1. ASSUME NEW r \in Requests, Arrive(r) PROVE UNCHANGED Registry!vars
  BY <1>1 DEF Arrive, ReceiveReport, ReceiveChange, ReceiveQuery, Receive
<1>2. ASSUME NEW r \in Requests,
             \/ Reject(r) \/ Unreadable(r) \/ Validated(r) \/ MapReport(r)
             \/ FindForUpdate(r) \/ FindForDelete(r) \/ Announce(r) \/ SaveFails(r)
             \/ ReadFails(r)
             \/ Respond(r) \/ PublishResponse(r) \/ Route(r)
      PROVE  UNCHANGED Registry!vars
  BY <1>2 DEF Reject, Unreadable, Validated, MapReport, FindForUpdate, FindForDelete,
     Announce, SaveFails, ReadFails, Respond, PublishResponse, Route
<1>3. ASSUME NEW r \in Requests, InsertAccident(r) PROVE Registry!Next
  <2>1. target[r] \in Accidents /\ payload[r].status \in {"Unresolved", "Resolved"}
    BY DEF TypeOK, Payloads
  <2>2. Registry!Register(target[r])
    BY <1>3, <2>1 DEF InsertAccident, Registry!Register
  <2> QED
    BY <2>1, <2>2 DEF Registry!Next
<1>4. ASSUME NEW r \in Requests, UpdateAccident(r) PROVE Registry!Next
  <2>1. target[r] \in Accidents /\ Registry!Resolve(target[r])
    BY <1>4 DEF UpdateAccident, Registry!Resolve, TypeOK
  <2> QED
    BY <2>1 DEF Registry!Next
<1>5. ASSUME NEW r \in Requests, DeleteAccident(r) PROVE Registry!Next
  <2>1. target[r] \in Accidents /\ Registry!Remove(target[r])
    BY <1>5 DEF DeleteAccident, Registry!Remove, TypeOK
  <2> QED
    BY <2>1 DEF Registry!Next
<1>6. ASSUME NEW r \in Requests, ReadPolygons(r) PROVE Registry!Next
  <2>1. Unresolved = Registry!InTheWay
    BY DEF Unresolved, Registry!InTheWay
  <2>2. Registry!Consult(r)
    BY <1>6, <2>1 DEF ReadPolygons, Go, ReadingsOnce, Registry!Consult
  <2> QED
    BY <2>2 DEF Registry!Next
<1>7. ASSUME Crash PROVE UNCHANGED Registry!vars
  BY <1>7 DEF Crash
<1>8. ASSUME UNCHANGED vars PROVE UNCHANGED Registry!vars
  BY <1>8 DEF vars
<1> QED
  BY <1>1, <1>2, <1>3, <1>4, <1>5, <1>6, <1>7, <1>8 DEF Next, Step

\* The handlers implement the registry: every interleaving of requests,
\* messages, failures and crashes is a sequence of its atomic operations.
THEOREM HandlersImplementRegistry == Spec => ImplementsRegistry
<1>1. Init => TypeOK /\ ReadingsOnce
  BY TypeInit DEF Init, ReadingsOnce
<1>2. TypeOK /\ ReadingsOnce /\ [Next]_vars => TypeOK' /\ ReadingsOnce'
  BY TypeStep, ReadingsOnceStep
<1>3. Init => Registry!Init
  BY DEF Init, Registry!Init
<1> QED
  BY <1>1, <1>2, <1>3, RegistryStep, PTL DEF Spec, ImplementsRegistry, Registry!Spec

-----------------------------------------------------------------------------

\* A resolved accident is not reopened by any interleaving.
THEOREM ResolvedForGoodHolds == Spec => ResolvedForGood
<1> DEFINE Kept == \A a \in Accidents : accidents[a] = "Resolved" => accidents'[a] # "Unresolved"
<1>1. TypeOK /\ [Next]_vars => [Kept]_vars
  <2> SUFFICES ASSUME TypeOK, [Next]_vars PROVE Kept \/ UNCHANGED vars
    OBVIOUS
  <2>1. ASSUME accidents' = accidents PROVE Kept
    BY <2>1
  <2>2. ASSUME NEW r \in Requests, InsertAccident(r) PROVE Kept
    BY <2>2 DEF InsertAccident, TypeOK
  <2>3. ASSUME NEW r \in Requests, UpdateAccident(r) PROVE Kept
    BY <2>3 DEF UpdateAccident, TypeOK
  <2>4. ASSUME NEW r \in Requests, DeleteAccident(r) PROVE Kept
    BY <2>4 DEF DeleteAccident, TypeOK
  <2>5. ASSUME NEW r \in Requests, Arrive(r) PROVE accidents' = accidents
    BY <2>5 DEF Arrive, ReceiveReport, ReceiveChange, ReceiveQuery, Receive, tables
  <2>6. ASSUME NEW r \in Requests, Step(r),
               ~InsertAccident(r), ~UpdateAccident(r), ~DeleteAccident(r)
        PROVE  accidents' = accidents
    BY <2>6 DEF Step, Reject, Unreadable, Validated, MapReport, FindForUpdate,
       FindForDelete, ReadFails, Announce, SaveFails, Respond, PublishResponse, ReadPolygons,
       Route, tables
  <2>7. ASSUME Crash PROVE accidents' = accidents
    BY <2>7 DEF Crash, tables
  <2> QED
    BY <2>1, <2>2, <2>3, <2>4, <2>5, <2>6, <2>7 DEF Next
<1> QED
  BY <1>1, CommandsTypeCorrect, PTL DEF Spec, ResolvedForGood

-----------------------------------------------------------------------------

\* A change about to be saved has been announced.
AnnouncedFirst ==
  \A r \in Requests : op[r] \in Changes /\ pc[r] = "saving"
                        => <<EventOf(op[r]), target[r]>> \in announced

LEMMA AnnouncedFirstStep == TypeOK /\ AnnouncedFirst /\ [Next]_vars => AnnouncedFirst'
<1> SUFFICES ASSUME TypeOK, AnnouncedFirst, [Next]_vars PROVE AnnouncedFirst'
  OBVIOUS
<1> USE DEF TypeOK, AnnouncedFirst, EventOf, Go, tables, request
<1>1. ASSUME NEW r \in Requests, Arrive(r) PROVE AnnouncedFirst'
  <2>1. PICK o, a, p : Receive(r, o, a, p)
    BY <1>1 DEF Arrive, ReceiveReport, ReceiveChange, ReceiveQuery
  <2>2. pc' = [pc EXCEPT ![r] = "received"]
    BY <2>1 DEF Receive
  <2>3. \A q \in Requests \ {r} : op'[q] = op[q] /\ target'[q] = target[q]
    BY <2>1 DEF Receive
  <2>4. announced' = announced
    BY <2>1 DEF Receive
  <2> QED
    BY <2>2, <2>3, <2>4
<1>2. ASSUME NEW r \in Requests, Announce(r) PROVE AnnouncedFirst'
  BY <1>2 DEF Announce
<1>3. ASSUME NEW r \in Requests, MapReport(r) PROVE AnnouncedFirst'
  BY <1>3 DEF MapReport, Changes
<1>4. ASSUME NEW r \in Requests,
             \/ Reject(r) \/ Unreadable(r) \/ Validated(r) \/ ReadFails(r)
             \/ FindForUpdate(r) \/ FindForDelete(r)
      PROVE  AnnouncedFirst'
  BY <1>4 DEF Reject, Unreadable, Validated, ReadFails, FindForUpdate, FindForDelete, Finish
<1>5. ASSUME NEW r \in Requests,
             \/ InsertAccident(r) \/ UpdateAccident(r) \/ DeleteAccident(r) \/ SaveFails(r)
      PROVE  AnnouncedFirst'
  BY <1>5 DEF InsertAccident, UpdateAccident, DeleteAccident, SaveFails, Finish
<1>6. ASSUME NEW r \in Requests,
             \/ Respond(r) \/ PublishResponse(r) \/ ReadPolygons(r) \/ Route(r)
      PROVE  AnnouncedFirst'
  BY <1>6 DEF Respond, PublishResponse, ReadPolygons, Route, Finish
<1>7. ASSUME Crash PROVE AnnouncedFirst'
  BY <1>7 DEF Crash, InFlight
<1>8. ASSUME UNCHANGED vars PROVE AnnouncedFirst'
  BY <1>8 DEF vars
<1> QED
  BY <1>1, <1>2, <1>3, <1>4, <1>5, <1>6, <1>7, <1>8 DEF Next, Step

\* No stored accident changes, and none is removed, before its event is out.
THEOREM ChangesAnnouncedHolds == Spec => ChangesAnnounced
<1> DEFINE Told ==
      \A a \in Accidents :
        accidents[a] # "absent" /\ accidents'[a] # accidents[a]
          => <<IF accidents'[a] = "absent" THEN "AccidentDeletedEvent"
                                           ELSE "AccidentUpdatedEvent", a>> \in announced
<1>1. TypeOK /\ AnnouncedFirst /\ [Next]_vars => [Told]_vars
  <2> SUFFICES ASSUME TypeOK, AnnouncedFirst, [Next]_vars PROVE Told \/ UNCHANGED vars
    OBVIOUS
  <2>1. ASSUME accidents' = accidents PROVE Told
    BY <2>1
  <2>2. ASSUME NEW r \in Requests, InsertAccident(r) PROVE Told
    BY <2>2 DEF InsertAccident, TypeOK
  <2>3. ASSUME NEW r \in Requests, UpdateAccident(r) PROVE Told
    BY <2>3 DEF UpdateAccident, TypeOK, AnnouncedFirst, EventOf, Changes, Go
  <2>4. ASSUME NEW r \in Requests, DeleteAccident(r) PROVE Told
    BY <2>4 DEF DeleteAccident, TypeOK, AnnouncedFirst, EventOf, Changes, Go
  <2>5. ASSUME NEW r \in Requests, Arrive(r) PROVE accidents' = accidents
    BY <2>5 DEF Arrive, ReceiveReport, ReceiveChange, ReceiveQuery, Receive, tables
  <2>6. ASSUME NEW r \in Requests, Step(r),
               ~InsertAccident(r), ~UpdateAccident(r), ~DeleteAccident(r)
        PROVE  accidents' = accidents
    BY <2>6 DEF Step, Reject, Unreadable, Validated, MapReport, FindForUpdate,
       FindForDelete, ReadFails, Announce, SaveFails, Respond, PublishResponse, ReadPolygons,
       Route, tables
  <2>7. ASSUME Crash PROVE accidents' = accidents
    BY <2>7 DEF Crash, tables
  <2> QED
    BY <2>1, <2>2, <2>3, <2>4, <2>5, <2>6, <2>7 DEF Next
<1>2. Init => AnnouncedFirst
  BY DEF Init, AnnouncedFirst
<1> QED
  BY <1>1, <1>2, TypeInit, TypeStep, AnnouncedFirstStep, PTL DEF Spec, ChangesAnnounced

-----------------------------------------------------------------------------

(***************************************************************************)
(* What the service guarantees because nothing in it deletes an accident.  *)
(***************************************************************************)
NoDeletion == "DeleteAccidentCommand" \notin Ops

\* An update in progress still holds what is in the row; what a handler wrote is
\* there when it responds; no outcome precedes the end of the handler.
Bookkeeping ==
  /\ \A r \in Requests : pc[r] # "done" => outcome[r] = "none"
  /\ \A r \in Requests : pc[r] = "routing" => op[r] \in Routes
  /\ \A r \in Requests :
       op[r] = "UpdateAccidentStatus" /\ pc[r] \in {"announcing", "saving"}
         => accidents[target[r]] # "absent" /\ (seenBlocking[r] <=> target[r] \in isBlocking)
  /\ \A r \in Requests :
       op[r] = "UpdateAccidentStatus" /\ pc[r] = "responding"
         => accidents[target[r]] = "Resolved"
  /\ \A r \in Requests :
       op[r] \in Reports /\ pc[r] = "responding" => accidents[target[r]] # "absent"

ServiceInv ==
  TypeOK /\ Bookkeeping /\ PolygonsMatch /\ AcknowledgedIsStored /\ ResolutionSticks

LEMMA ServiceInit == Init => ServiceInv
  BY TypeInit DEF Init, ServiceInv, Bookkeeping, PolygonsMatch, AcknowledgedIsStored,
     Acknowledged, ResolutionSticks

LEMMA ServiceStep ==
  ASSUME NoDeletion
  PROVE  ServiceInv /\ [Next]_vars => ServiceInv'
<1> SUFFICES ASSUME ServiceInv, [Next]_vars PROVE ServiceInv'
  OBVIOUS
<1>0. TypeOK'
  BY TypeStep DEF ServiceInv
<1> USE <1>0, NoDeletion DEF NoDeletion, ServiceInv, TypeOK, Bookkeeping, PolygonsMatch,
    AcknowledgedIsStored, Acknowledged, ResolutionSticks, Go, tables, request, Reports,
    Queries, Routes
<1>1. ASSUME NEW r \in Requests, ReceiveReport(r) PROVE ServiceInv'
  BY <1>1 DEF ReceiveReport, Receive
<1>2. ASSUME NEW r \in Requests, ReceiveChange(r) PROVE ServiceInv'
  BY <1>2 DEF ReceiveChange, Receive
<1>3. ASSUME NEW r \in Requests, ReceiveQuery(r) PROVE ServiceInv'
  BY <1>3 DEF ReceiveQuery, Receive
<1>4. ASSUME NEW r \in Requests, Reject(r) PROVE ServiceInv'
  BY <1>4 DEF Reject, Finish
<1>5. ASSUME NEW r \in Requests, Unreadable(r) PROVE ServiceInv'
  BY <1>5 DEF Unreadable, Finish
<1>6. ASSUME NEW r \in Requests, Validated(r) PROVE ServiceInv'
  BY <1>6 DEF Validated
<1>7. ASSUME NEW r \in Requests, MapReport(r) PROVE ServiceInv'
  BY <1>7 DEF MapReport
<1>8. ASSUME NEW r \in Requests, FindForUpdate(r) PROVE ServiceInv'
  <2> USE <1>8 DEF FindForUpdate, Finish
  <2>1. UNCHANGED <<accidents, isBlocking, polygons, op, target, payload>>
    OBVIOUS
  <2>2. \A q \in Requests : q # r =>
          /\ pc'[q] = pc[q] /\ outcome'[q] = outcome[q]
          /\ seen'[q] = seen[q] /\ seenBlocking'[q] = seenBlocking[q]
    OBVIOUS
  <2>3. /\ op[r] = "UpdateAccidentStatus" /\ pc[r] = "received" /\ outcome[r] = "none"
        /\ seen'[r] = accidents[target[r]]
        /\ seenBlocking'[r] = (target[r] \in isBlocking)
    OBVIOUS
  <2>4. \/ /\ accidents[target[r]] = "Unresolved"
           /\ pc'[r] = "announcing" /\ outcome'[r] = "none"
        \/ /\ accidents[target[r]] \in {"absent", "Resolved"}
           /\ pc'[r] = "done" /\ outcome'[r] = "noContent"
    <3>1. CASE accidents[target[r]] = "Unresolved"
      BY <3>1
    <3>2. CASE accidents[target[r]] # "Unresolved"
      BY <3>2
    <3> QED BY <3>1, <3>2
  <2> HIDE <1>8 DEF FindForUpdate, Finish
  <2>5. PolygonsMatch'
    BY <2>1
  <2>6. AcknowledgedIsStored'
    BY <2>1, <2>2, <2>3, <2>4
  <2>7. ResolutionSticks'
    BY <2>1, <2>2, <2>3, <2>4
  <2>8. Bookkeeping'
    BY <2>1, <2>2, <2>3, <2>4
  <2> QED BY <2>5, <2>6, <2>7, <2>8
<1>9. ASSUME NEW r \in Requests, FindForDelete(r) PROVE ServiceInv'
  BY <1>9 DEF FindForDelete, Finish
<1>10. ASSUME NEW r \in Requests, Announce(r) PROVE ServiceInv'
  BY <1>10 DEF Announce, EventOf, Events
<1>11. ASSUME NEW r \in Requests, InsertAccident(r) PROVE ServiceInv'
  BY <1>11 DEF InsertAccident, Payloads
<1>12. ASSUME NEW r \in Requests, UpdateAccident(r) PROVE ServiceInv'
  BY <1>12 DEF UpdateAccident
<1>13. ASSUME NEW r \in Requests, DeleteAccident(r) PROVE ServiceInv'
  BY <1>13 DEF DeleteAccident
<1>14. ASSUME NEW r \in Requests, SaveFails(r) PROVE ServiceInv'
  BY <1>14 DEF SaveFails, Finish, Failure
<1>15. ASSUME NEW r \in Requests, Respond(r) PROVE ServiceInv'
  BY <1>15 DEF Respond, Finish
<1>16. ASSUME NEW r \in Requests, PublishResponse(r) PROVE ServiceInv'
  BY <1>16 DEF PublishResponse, Finish
<1>17. ASSUME NEW r \in Requests, ReadPolygons(r) PROVE ServiceInv'
  BY <1>17 DEF ReadPolygons, Unresolved
<1>18. ASSUME NEW r \in Requests, Route(r) PROVE ServiceInv'
  BY <1>18 DEF Route, Finish, Failure
<1>19. ASSUME NEW r \in Requests, ReadFails(r) PROVE ServiceInv'
  BY <1>19 DEF ReadFails, Finish, Failure
<1>20. ASSUME Crash PROVE ServiceInv'
  BY <1>20 DEF Crash, InFlight
<1>21. ASSUME UNCHANGED vars PROVE ServiceInv'
  BY <1>21 DEF vars
<1> QED
  BY <1>1, <1>2, <1>3, <1>4, <1>5, <1>6, <1>7, <1>8, <1>9, <1>10, <1>11,
     <1>12, <1>13, <1>14, <1>15, <1>16, <1>17, <1>18, <1>19, <1>20,
     <1>21 DEF Next, Arrive, Step

LEMMA ServiceInvariance ==
  ASSUME NoDeletion
  PROVE  Spec => []ServiceInv
  BY ServiceInit, ServiceStep, PTL DEF Spec

\* IsBlockingWay and the polygon rows always agree.
THEOREM PolygonsMatchHolds ==
  ASSUME NoDeletion
  PROVE  Spec => []PolygonsMatch
<1>1. ServiceInv => PolygonsMatch
  BY DEF ServiceInv
<1> QED
  BY <1>1, ServiceInvariance, PTL

\* A report is in the database whenever its sender was told so.
THEOREM AcknowledgedIsStoredHolds ==
  ASSUME NoDeletion
  PROVE  Spec => []AcknowledgedIsStored
<1>1. ServiceInv => AcknowledgedIsStored
  BY DEF ServiceInv
<1> QED
  BY <1>1, ServiceInvariance, PTL

\* An acknowledged resolution of an accident that was found is lasting.
THEOREM ResolutionSticksHolds ==
  ASSUME NoDeletion
  PROVE  Spec => []ResolutionSticks
<1>1. ServiceInv => ResolutionSticks
  BY DEF ServiceInv
<1> QED
  BY <1>1, ServiceInvariance, PTL

-----------------------------------------------------------------------------

\* The strengthening of OneReporter: of several reports under one Guid at most
\* one has been saved and not been given up.
Saved(r) == op[r] \in Reports /\ (pc[r] = "responding" \/ Acknowledged(r))

OneSaved == \A r, q \in Requests : Saved(r) /\ Saved(q) /\ target[r] = target[q] => r = q

\* A step that is no insertion saves no report.
LEMMA SavedBefore ==
  ASSUME ServiceInv, [Next]_vars, \A r \in Requests : ~InsertAccident(r)
  PROVE  \A q \in Requests : Saved(q)' => Saved(q) /\ target'[q] = target[q]
<1> DEFINE Before == \A q \in Requests : Saved(q)' => Saved(q) /\ target'[q] = target[q]
<1> SUFFICES Before
  OBVIOUS
<1> USE DEF ServiceInv, TypeOK, Bookkeeping, Saved, Acknowledged, Go, tables, request
<1>1. ASSUME NEW r \in Requests, Arrive(r) PROVE Before
  <2>1. PICK o, a, p : Receive(r, o, a, p)
    BY <1>1 DEF Arrive, ReceiveReport, ReceiveChange, ReceiveQuery
  <2>2. pc'[r] = "received" /\ outcome'[r] = "none"
    BY <2>1 DEF Receive
  <2>3. \A q \in Requests \ {r} :
          /\ pc'[q] = pc[q] /\ op'[q] = op[q] /\ outcome'[q] = outcome[q]
          /\ target'[q] = target[q]
    BY <2>1 DEF Receive
  <2> QED
    BY <2>2, <2>3
<1>2. ASSUME NEW r \in Requests, Validated(r) \/ MapReport(r) \/ Announce(r)
      PROVE  Before
  BY <1>2 DEF Validated, MapReport, Announce
<1>3. ASSUME NEW r \in Requests,
             \/ Reject(r) \/ Unreadable(r) \/ ReadFails(r) \/ SaveFails(r)
      PROVE  Before
  BY <1>3 DEF Reject, Unreadable, ReadFails, SaveFails, Finish, Failure
<1>4. ASSUME NEW r \in Requests, FindForUpdate(r) \/ FindForDelete(r) PROVE Before
  BY <1>4 DEF FindForUpdate, FindForDelete, Finish
<1>5. ASSUME NEW r \in Requests, UpdateAccident(r) \/ DeleteAccident(r) PROVE Before
  BY <1>5 DEF UpdateAccident, DeleteAccident, Reports
<1>6. ASSUME NEW r \in Requests, Respond(r) \/ PublishResponse(r) PROVE Before
  BY <1>6 DEF Respond, PublishResponse, Finish
<1>7. ASSUME NEW r \in Requests, ReadPolygons(r) \/ Route(r) PROVE Before
  BY <1>7 DEF ReadPolygons, Route, Finish, Failure, Queries, Routes, Reports
<1>8. ASSUME Crash PROVE Before
  BY <1>8 DEF Crash, InFlight
<1>9. ASSUME UNCHANGED vars PROVE Before
  BY <1>9 DEF vars
<1> QED
  BY <1>1, <1>2, <1>3, <1>4, <1>5, <1>6, <1>7, <1>8, <1>9 DEF Next, Step

LEMMA OneSavedStep == ServiceInv /\ OneSaved /\ [Next]_vars => OneSaved'
<1> SUFFICES ASSUME ServiceInv, OneSaved, [Next]_vars PROVE OneSaved'
  OBVIOUS
<1>1. ASSUME NEW r \in Requests, InsertAccident(r) PROVE OneSaved'
  <2>1. /\ op[r] \in Reports /\ accidents[target[r]] = "absent"
        /\ UNCHANGED <<op, target, outcome>>
    BY <1>1 DEF InsertAccident, request
  <2>2. \A q \in Requests \ {r} : Saved(q)' => Saved(q)
    BY <1>1, <2>1 DEF InsertAccident, Go, Saved, Acknowledged, ServiceInv, TypeOK
  <2>3. \A q \in Requests : Saved(q) => target[q] # target[r]
    BY <2>1 DEF Saved, ServiceInv, Bookkeeping, AcknowledgedIsStored
  <2> QED
    BY <2>1, <2>2, <2>3 DEF OneSaved
<1>2. CASE \A r \in Requests : ~InsertAccident(r)
  BY <1>2, SavedBefore DEF OneSaved
<1> QED
  BY <1>1, <1>2

\* Under one Guid at most one report is acknowledged.
THEOREM OneReporterHolds ==
  ASSUME NoDeletion
  PROVE  Spec => []OneReporter
<1>1. Init => OneSaved
  BY DEF Init, OneSaved, Saved, Acknowledged
<1>2. OneSaved => OneReporter
  BY DEF OneSaved, OneReporter, Saved, Acknowledged
<1> QED
  BY <1>1, <1>2, OneSavedStep, ServiceInvariance, PTL DEF Spec

-----------------------------------------------------------------------------

\* With deletions: what blocks the way is an accident that is there.
LEMMA NoOrphansStep == TypeOK /\ NoOrphans /\ [Next]_vars => NoOrphans'
<1> SUFFICES ASSUME TypeOK, NoOrphans, [Next]_vars PROVE NoOrphans'
  OBVIOUS
<1>1. ASSUME NEW r \in Requests, InsertAccident(r) PROVE NoOrphans'
  BY <1>1 DEF InsertAccident, TypeOK, Payloads, NoOrphans
<1>2. ASSUME NEW r \in Requests, UpdateAccident(r) PROVE NoOrphans'
  BY <1>2 DEF UpdateAccident, TypeOK, NoOrphans
<1>3. ASSUME NEW r \in Requests, DeleteAccident(r) PROVE NoOrphans'
  BY <1>3 DEF DeleteAccident, TypeOK, NoOrphans
<1>4. CASE UNCHANGED tables
  BY <1>4 DEF NoOrphans, tables
<1>5. ASSUME NEW r \in Requests, Arrive(r) \/ Step(r),
             ~InsertAccident(r), ~UpdateAccident(r), ~DeleteAccident(r)
      PROVE  UNCHANGED tables
  BY <1>5 DEF Arrive, ReceiveReport, ReceiveChange, ReceiveQuery, Receive, Step, Reject,
     Unreadable, Validated, MapReport, FindForUpdate, FindForDelete, ReadFails, Announce,
     SaveFails, Respond, PublishResponse, ReadPolygons, Route
<1> QED
  BY <1>1, <1>2, <1>3, <1>4, <1>5 DEF Next, Crash, vars, tables

\* No polygon row and no blocking flag outlives its accident, whatever is
\* deleted, reported again and written back.
THEOREM NoOrphansHolds == Spec => []NoOrphans
<1>1. Init => NoOrphans
  BY DEF Init, NoOrphans
<1> QED
  BY <1>1, NoOrphansStep, CommandsTypeCorrect, PTL DEF Spec
=============================================================================
