-------------------------- MODULE BlockedPolygons --------------------------
(***************************************************************************)
(* What a route is told to avoid: the square round an accident that blocks *)
(* the way, saved as four rows without an order among them, and read back  *)
(* by a query beside which accidents are reported and resolved.            *)
(* AccidentCommands takes that query as one step; here it is a scan.       *)
(*                                                                         *)
(* External, modelled from how the code uses it: SQL Server commits one    *)
(* SaveChanges at once and refuses it when a row is outside the CHECK      *)
(* constraints.  A SELECT without ORDER BY may return the rows in any      *)
(* order.  Where read committed uses locks (the default outside Azure) it  *)
(* reads row after row while others commit: a row that qualifies during    *)
(* the whole SELECT is returned once, one that comes or goes meanwhile may *)
(* be returned or not.  A snapshot is the special case without changes.    *)
(* Whether EF Core inserts the corners is the parameter CornersAdded, as   *)
(* in AccidentCommands: with the pinned version 9.0 it does not, the       *)
(* report is refused, and the table stays empty.                           *)
(***************************************************************************)
EXTENDS Integers, Sequences, Functions

CONSTANTS
  Accidents,     \* accident Guids: bounds how many accidents there may be
  Places,        \* where they happen
  Size,          \* the square's offset
  MaxLongitude, MaxLatitude,  \* the CHECK constraints' range
  CornersAdded   \* whether EF Core takes the corners for new; 9.0 does not

Coordinates == [lon : Int, lat : Int]

ASSUME PlacesAssumption == Places \subseteq Coordinates /\ Places # {}
ASSUME RangeAssumption ==
  Size \in Nat \ {0} /\ MaxLongitude \in Nat /\ MaxLatitude \in Nat
ASSUME CornersAssumption == CornersAdded \in BOOLEAN

VARIABLES
  status,  \* table Accidents: absent, or ResolvedStatus
  place,   \* where each accident is
  rows,    \* table PolygonCoordinates: AccidentId and Coordinate
  phase,   \* the query: none, its rows coming in, mapped and answered
  kind,    \* GetAllAsync or GetAllUnResolvedAsync
  groups,  \* the coordinates that came in, by accident, in the order they came
  steady,  \* the accidents to be listed at every moment since the query began,
  ever     \* and at some moment since

tables == <<status, place, rows>>
vars == <<tables, phase, kind, groups, steady, ever>>

TypeOK ==
  /\ status \in [Accidents -> {"absent", "Unresolved", "Resolved"}]
  /\ place \in [Accidents -> Places]
  /\ rows \subseteq Accidents \X Coordinates
  /\ phase \in {"idle", "reading", "answered"}
  /\ kind \in {"GetAllAsync", "GetAllUnResolvedAsync"}
  /\ groups \in [Accidents -> Seq(Coordinates)]
  /\ steady \subseteq Accidents /\ ever \subseteq Accidents

Init ==
  /\ status = [a \in Accidents |-> "absent"]
  /\ place \in [Accidents -> {CHOOSE p \in Places : TRUE}]
  /\ rows = {}
  /\ phase = "idle" /\ kind = "GetAllAsync"
  /\ groups = [a \in Accidents |-> <<>>]
  /\ steady = {} /\ ever = {}

\* Mutant: the Where clause of GetAllUnResolvedAsync is missing.
QualifiesMutant(a, k) == status[a] # "absent"

Qualifies(a, k) == k = "GetAllUnResolvedAsync" => status[a] = "Unresolved"

Listed(k) == {a \in Accidents : (\E row \in rows : row[1] = a)
                                  /\ (k = "GetAllUnResolvedAsync" => status[a] = "Unresolved")}

\* What a query that is under way may and must still return.
Observe == steady' = steady \cap Listed(kind)' /\ ever' = ever \cup Listed(kind)'

(* ------------------------- reports and updates ------------------------- *)

InRange(c) ==
  c.lon \in (-MaxLongitude)..MaxLongitude /\ c.lat \in (-MaxLatitude)..MaxLatitude

\* topRight, bottomRight, bottomLeft and topLeft: the table keeps no order.
GenerateSquareCoordinates(p) ==
  {[lon |-> p.lon + dx, lat |-> p.lat + dy] : dx, dy \in {-Size, Size}}

\* Mutant: a corner outside the range is left out instead of the report refused.
ReportMutant(a, p, blocking) ==
  /\ status[a] = "absent" /\ InRange(p) /\ (blocking => CornersAdded)
  /\ \E s \in {"Unresolved", "Resolved"} : status' = [status EXCEPT ![a] = s]
  /\ place' = [place EXCEPT ![a] = p]
  /\ rows' = IF blocking
               THEN rows \cup {<<a, c>> : c \in {d \in GenerateSquareCoordinates(p) : InRange(d)}}
               ELSE rows
  /\ UNCHANGED <<phase, kind, groups>>
  /\ Observe

\* AccidentEntityInterceptor puts the corners into the save that adds the accident;
\* none is stored without them.
Report(a, p, blocking) ==
  /\ status[a] = "absent" /\ InRange(p) /\ (blocking => CornersAdded)
  /\ blocking => \A c \in GenerateSquareCoordinates(p) : InRange(c)
  /\ \E s \in {"Unresolved", "Resolved"} : status' = [status EXCEPT ![a] = s]
  /\ place' = [place EXCEPT ![a] = p]
  /\ rows' = IF blocking THEN rows \cup {<<a, c>> : c \in GenerateSquareCoordinates(p)}
                         ELSE rows
  /\ UNCHANGED <<phase, kind, groups>>
  /\ Observe

\* The rows stay: only the queries for routes look at the status.
Resolve(a) ==
  /\ status[a] = "Unresolved"
  /\ status' = [status EXCEPT ![a] = "Resolved"]
  /\ UNCHANGED <<place, rows, phase, kind, groups>>
  /\ Observe

(* ------------------------------- the query ----------------------------- *)

BeginQuery(k) ==
  /\ phase # "reading"
  /\ phase' = "reading" /\ kind' = k
  /\ groups' = [a \in Accidents |-> <<>>]
  /\ steady' = Listed(k) /\ ever' = Listed(k)
  /\ UNCHANGED tables

\* Mutant: the rows are grouped without selecting their Coordinate.
FetchRowMutant(a, c) ==
  /\ phase = "reading"
  /\ <<a, c>> \in rows /\ c \notin Range(groups[a])
  /\ Qualifies(a, kind)
  /\ groups' = [groups EXCEPT ![a] = Append(@, [accidentId |-> a, coordinate |-> c])]
  /\ UNCHANGED <<tables, phase, kind, steady, ever>>

\* ToListAsync takes the row; GroupBy keeps the order of arrival in each group.
FetchRow(a, c) ==
  /\ phase = "reading"
  /\ <<a, c>> \in rows /\ c \notin Range(groups[a])
  /\ Qualifies(a, kind)
  /\ groups' = [groups EXCEPT ![a] = Append(@, c)]
  /\ UNCHANGED <<tables, phase, kind, steady, ever>>

\* Nothing that qualified all the time is left out.
EndQuery ==
  /\ phase = "reading"
  /\ \A row \in rows : row[1] \in steady => row[2] \in Range(groups[row[1]])
  /\ phase' = "answered"
  /\ UNCHANGED <<tables, kind, groups, steady, ever>>

\* The database goes away while the rows come in: nothing is answered.
QueryFails ==
  /\ phase = "reading" /\ phase' = "idle"
  /\ UNCHANGED <<tables, kind, groups, steady, ever>>

\* Mutant: the ring counts as closed when its ends share a longitude.
MapToMultiBlockedPolygonMutant(s) ==
  IF s # <<>> /\ Head(s).lon # s[Len(s)].lon THEN Append(s, Head(s)) ELSE s

\* One group of rows as a ring that ends where it begins.
MapToMultiBlockedPolygon(s) ==
  IF s # <<>> /\ Head(s) # s[Len(s)] THEN Append(s, Head(s)) ELSE s

Answered == {a \in Accidents : phase = "answered" /\ groups[a] # <<>>}
Ring(a) == MapToMultiBlockedPolygon(groups[a])

Next ==
  \/ \E a \in Accidents, p \in Places, blocking \in BOOLEAN : Report(a, p, blocking)
  \/ \E a \in Accidents : Resolve(a)
  \/ \E k \in {"GetAllAsync", "GetAllUnResolvedAsync"} : BeginQuery(k)
  \/ \E row \in rows : FetchRow(row[1], row[2])
  \/ EndQuery \/ QueryFails

Spec == Init /\ [][Next]_vars
(* ------------------------------ properties ----------------------------- *)

\* An accident has its whole square in the table or nothing, and never a
\* corner outside the range: a square that leaves the map refuses its report.
SquaresWhole ==
  \A a \in Accidents :
    LET corners == {row[2] : row \in {r \in rows : r[1] = a}}
    IN  /\ corners = {} \/ (status[a] # "absent" /\ corners = GenerateSquareCoordinates(place[a]))
        /\ \A c \in corners : InRange(c)

\* Whatever came and went while it was read, a ring ends where it begins (as
\* soon as there are two corners) and in between passes no position twice and
\* none that is not a corner of its own accident's square.
RingsClosed ==
  \A a \in Answered :
    /\ Ring(a)[1] = Ring(a)[Len(Ring(a))]
    /\ Len(groups[a]) > 1 => Len(Ring(a)) = Len(groups[a]) + 1
    /\ IsInjective(groups[a])
    /\ Range(Ring(a)) \subseteq GenerateSquareCoordinates(place[a])

\* A query that runs beside reports and updates lists, whole, every accident
\* that was to be listed all the time, and none that never was: one resolved
\* before a route was asked for is not avoided any more.
AnswerRegular ==
  phase = "answered" =>
    /\ steady \subseteq Answered /\ Answered \subseteq ever
    /\ \A a \in steady : Range(Ring(a)) = GenerateSquareCoordinates(place[a])

\* Of the corners that are stored, the order in which a table without one gives
\* them back decides whether the ring of an accident that was there all the time
\* goes round its square, from each corner along a side to the next.
RingsAreSquares ==
  \A a \in Answered \cap steady : \A i \in 1..(Len(Ring(a)) - 1) :
    Ring(a)[i].lon = Ring(a)[i + 1].lon \/ Ring(a)[i].lat = Ring(a)[i + 1].lat
=============================================================================
