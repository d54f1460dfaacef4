------------------------ MODULE BlockedPolygonsProofs ------------------------
(***************************************************************************)
(* Theorems about BlockedPolygons, for any accidents, places and sizes.    *)
(*                                                                         *)
(* RingsClosed and AnswerRegular speak of the moment of the answer; the    *)
(* inductive invariant says what holds while the rows come in: what was    *)
(* fetched is in the table, no row twice, and the accidents that are to be *)
(* listed now are between steady and ever.                                 *)
(***************************************************************************)
EXTENDS BlockedPolygons, FunctionTheorems, TLAPS

Fetched ==
  \A a \in Accidents :
    /\ \A i \in 1..Len(groups[a]) : <<a, groups[a][i]>> \in rows
    /\ \A i, j \in 1..Len(groups[a]) : groups[a][i] = groups[a][j] => i = j
    /\ groups[a] # <<>> => a \in ever

Between == steady \subseteq Listed(kind) /\ Listed(kind) \subseteq ever

Complete ==
  phase = "answered" =>
    \A row \in rows : row[1] \in steady => row[2] \in Range(groups[row[1]])

InRows ==
  \A row \in rows : /\ status[row[1]] # "absent"
                    /\ row[2] \in GenerateSquareCoordinates(place[row[1]]) /\ InRange(row[2])

Whole ==
  \A row \in rows : \A c \in GenerateSquareCoordinates(place[row[1]]) : <<row[1], c>> \in rows

Inv == TypeOK /\ InRows /\ Whole /\ Fetched /\ Between /\ Complete

\* A corner of a square at a coordinate is a coordinate.
LEMMA SquareIsCoordinates ==
  ASSUME NEW p \in Coordinates PROVE GenerateSquareCoordinates(p) \subseteq Coordinates
  BY RangeAssumption DEF GenerateSquareCoordinates, Coordinates

\* The initial state satisfies the invariant.
LEMMA InvInit == Init => Inv
  <1>1. (CHOOSE p \in Places : TRUE) \in Places
    BY PlacesAssumption
  <1> QED
    BY <1>1 DEF Init, Inv, TypeOK, InRows, Whole, Fetched, Between, Complete, Listed

\* A report adds a whole square inside the range, or nothing.
LEMMA ReportStep ==
  ASSUME Inv, NEW a \in Accidents, NEW p \in Places, NEW b \in BOOLEAN, Report(a, p, b)
  PROVE  Inv'
  <1>1. p \in Coordinates /\ GenerateSquareCoordinates(p) \subseteq Coordinates
    BY PlacesAssumption, SquareIsCoordinates
  <1>2. rows \subseteq rows' /\ \A row \in rows' \ rows :
          row[1] = a /\ row[2] \in GenerateSquareCoordinates(p) /\ InRange(row[2])
    BY DEF Report
  <1>3. \A row \in rows : row[1] # a
    BY DEF Report, Inv, InRows
  <1>4. rows' \in {rows, rows \cup {<<a, c>> : c \in GenerateSquareCoordinates(p)}}
    BY DEF Report
  <1>5. TypeOK'
    <2>1. rows' \subseteq Accidents \X Coordinates
      BY <1>1, <1>4 DEF Inv, TypeOK
    <2>2. steady' \subseteq Accidents /\ ever' \subseteq Accidents
      BY DEF Inv, TypeOK, Report, Observe, Listed
    <2> QED BY <2>1, <2>2 DEF Inv, TypeOK, Report
  <1>6. \A x \in Accidents : x # a => status'[x] = status[x] /\ place'[x] = place[x]
    BY DEF Report, Inv, TypeOK
  <1>7. status'[a] # "absent" /\ place'[a] = p
    BY DEF Report, Inv, TypeOK
  <1>8. \A row \in rows : row[1] \in Accidents
    BY DEF Inv, TypeOK
  <1>9. InRows'
    BY <1>2, <1>3, <1>6, <1>7, <1>8 DEF Inv, InRows, InRange
  <1>10. Whole'
    <2> SUFFICES ASSUME NEW row \in rows', NEW c \in GenerateSquareCoordinates(place'[row[1]])
                 PROVE  <<row[1], c>> \in rows'
      BY DEF Whole
    <2>1. CASE row \in rows
      BY <2>1, <1>2, <1>3, <1>6, <1>8 DEF Inv, Whole
    <2>2. CASE row \notin rows
      BY <2>2, <1>2, <1>4, <1>7
    <2> QED BY <2>1, <2>2
  <1>11. Fetched'
    BY <1>2 DEF Inv, Fetched, Report, Observe
  <1>12. Between'
    BY DEF Between, Report, Observe
  <1>13. Complete'
    <2>1. a \notin steady
      BY <1>3 DEF Inv, Between, Listed
    <2>2. steady' \subseteq steady /\ groups' = groups /\ phase' = phase
      BY DEF Report, Observe
    <2> QED BY <1>2, <2>1, <2>2 DEF Inv, Complete
  <1> QED BY <1>5, <1>9, <1>10, <1>11, <1>12, <1>13 DEF Inv

\* A resolution takes an accident out of the lists and leaves its rows.
LEMMA ResolveStep ==
  ASSUME Inv, NEW a \in Accidents, Resolve(a) PROVE Inv'
  <1>1. TypeOK'
    BY DEF Inv, TypeOK, Resolve, Observe, Listed
  <1>2. InRows' /\ Whole'
    BY DEF Inv, TypeOK, InRows, Whole, Resolve, InRange
  <1>3. Fetched'
    BY DEF Inv, Fetched, Resolve, Observe
  <1>4. Between'
    BY DEF Between, Resolve, Observe
  <1>5. Complete'
    BY DEF Inv, Complete, Resolve, Observe
  <1> QED BY <1>1, <1>2, <1>3, <1>4, <1>5 DEF Inv

\* A query begins with nothing fetched.
LEMMA BeginStep ==
  ASSUME Inv, NEW k \in {"GetAllAsync", "GetAllUnResolvedAsync"}, BeginQuery(k)
  PROVE  Inv'
  <1>1. Listed(k) \subseteq Accidents /\ Listed(kind)' = Listed(k)
    BY DEF Listed, BeginQuery, tables
  <1>2. TypeOK'
    BY <1>1 DEF Inv, TypeOK, BeginQuery, tables
  <1>3. InRows' /\ Whole'
    BY DEF Inv, InRows, Whole, BeginQuery, tables, InRange
  <1>4. Fetched'
    BY DEF Fetched, BeginQuery
  <1>5. Between' /\ Complete'
    BY <1>1 DEF Between, Complete, BeginQuery
  <1> QED BY <1>2, <1>3, <1>4, <1>5 DEF Inv

\* A row that is fetched was in the table, was to be listed, and is new.
LEMMA FetchStep ==
  ASSUME Inv, NEW row \in rows, FetchRow(row[1], row[2]) PROVE Inv'
  <1> DEFINE a == row[1]
             c == row[2]
             g == groups[a]
  <1>1. a \in Accidents /\ c \in Coordinates /\ row = <<a, c>> /\ g \in Seq(Coordinates)
    BY DEF Inv, TypeOK
  <1>2. \A i \in 1..Len(g) : g[i] # c
    BY <1>1 DEF FetchRow, Range
  <1>3. groups' = [groups EXCEPT ![a] = Append(g, c)]
        /\ UNCHANGED <<tables, phase, kind, steady, ever>>
    BY DEF FetchRow
  <1>4. a \in ever
    BY <1>1 DEF FetchRow, Qualifies, Inv, Between, Listed
  <1>5. TypeOK'
    BY <1>1, <1>3 DEF Inv, TypeOK, tables
  <1>6. InRows' /\ Whole' /\ Between'
    BY <1>3 DEF Inv, InRows, Whole, Between, Listed, tables, InRange
  <1>7. Fetched'
    <2> SUFFICES ASSUME NEW x \in Accidents
                 PROVE  /\ \A i \in 1..Len(groups'[x]) : <<x, groups'[x][i]>> \in rows
                        /\ \A i, j \in 1..Len(groups'[x]) :
                             groups'[x][i] = groups'[x][j] => i = j
                        /\ groups'[x] # <<>> => x \in ever
      BY <1>3 DEF Fetched, tables
    <2>1. CASE x # a
      BY <2>1, <1>3 DEF Inv, TypeOK, Fetched
    <2>2. CASE x = a
      <3>1. groups'[x] = Append(g, c)
        BY <2>2, <1>1, <1>3 DEF Inv, TypeOK
      <3>2. \A i \in 1..Len(g) : <<a, g[i]>> \in rows
        BY <1>1 DEF Inv, Fetched
      <3>3. \A i, j \in 1..Len(g) : g[i] = g[j] => i = j
        BY <1>1 DEF Inv, Fetched
      <3>4. Len(Append(g, c)) = Len(g) + 1 /\ Append(g, c)[Len(g) + 1] = c
            /\ \A i \in 1..Len(g) : Append(g, c)[i] = g[i]
        BY <1>1
      <3>5. Len(g) \in Nat /\ <<a, c>> \in rows
        BY <1>1
      <3> HIDE DEF g, c
      <3>6. \A i \in 1..Len(groups'[x]) : <<a, groups'[x][i]>> \in rows
        BY <3>1, <3>2, <3>4, <3>5
      <3>7. \A i, j \in 1..Len(groups'[x]) : groups'[x][i] = groups'[x][j] => i = j
        BY <3>1, <3>3, <3>4, <3>5, <1>2
      <3> QED BY <3>6, <3>7, <1>4, <2>2
    <2> QED BY <2>1, <2>2
  <1>8. Complete'
    BY <1>3 DEF FetchRow, Complete
  <1> QED BY <1>5, <1>6, <1>7, <1>8 DEF Inv

\* The end of a query changes its phase only.
LEMMA EndStep ==
  ASSUME Inv, EndQuery \/ QueryFails PROVE Inv'
  <1>1. UNCHANGED <<tables, kind, groups, steady, ever>> /\ phase' \in {"answered", "idle"}
    BY DEF EndQuery, QueryFails
  <1>2. TypeOK'
    BY <1>1 DEF Inv, TypeOK, tables
  <1>3. InRows' /\ Whole' /\ Between' /\ Fetched'
    BY <1>1 DEF Inv, InRows, Whole, Between, Fetched, Listed, tables, InRange
  <1>4. Complete'
    BY DEF EndQuery, QueryFails, Complete, tables
  <1> QED BY <1>2, <1>3, <1>4 DEF Inv

\* Every behaviour keeps the invariant.
THEOREM Invariance == Spec => []Inv
  <1>1. Inv /\ [Next]_vars => Inv'
    <2> SUFFICES ASSUME Inv, [Next]_vars PROVE Inv'
      OBVIOUS
    <2>1. CASE \E a \in Accidents, p \in Places, b \in BOOLEAN : Report(a, p, b)
      BY <2>1, ReportStep
    <2>2. CASE \E a \in Accidents : Resolve(a)
      BY <2>2, ResolveStep
    <2>3. CASE \E k \in {"GetAllAsync", "GetAllUnResolvedAsync"} : BeginQuery(k)
      BY <2>3, BeginStep
    <2>4. CASE \E row \in rows : FetchRow(row[1], row[2])
      BY <2>4, FetchStep
    <2>5. CASE EndQuery \/ QueryFails
      BY <2>5, EndStep
    <2>6. CASE UNCHANGED vars
      BY <2>6 DEF vars, tables, Inv, TypeOK, InRows, Whole, Fetched, Between, Complete,
                  Listed, InRange
    <2> QED BY <2>1, <2>2, <2>3, <2>4, <2>5, <2>6 DEF Next
  <1> QED BY InvInit, <1>1, PTL DEF Spec

\* The model's variables keep their types.
THEOREM TypeCorrect == Spec => []TypeOK
  BY Invariance, PTL DEF Inv

\* An accident's square is in the table whole, inside the range, or not at all.
THEOREM SquaresWholeHolds == Spec => []SquaresWhole
  <1>1. Inv => SquaresWhole
    <2> SUFFICES ASSUME Inv, NEW a \in Accidents,
                        NEW corners, corners = {row[2] : row \in {r \in rows : r[1] = a}}
                 PROVE  /\ corners = {} \/ (/\ status[a] # "absent"
                                            /\ corners = GenerateSquareCoordinates(place[a]))
                        /\ \A c \in corners : InRange(c)
      BY DEF SquaresWhole
    <2>1. \A row \in rows : row = <<row[1], row[2]>>
      BY DEF Inv, TypeOK
    <2>2. \A c \in corners : status[a] # "absent" /\ InRange(c)
                             /\ c \in GenerateSquareCoordinates(place[a])
      BY DEF Inv, InRows
    <2>3. ASSUME NEW c \in corners, NEW d \in GenerateSquareCoordinates(place[a])
          PROVE  d \in corners
      <3>1. PICK row \in rows : row[1] = a
        BY <2>3
      <3>2. <<a, d>> \in rows
        BY <3>1 DEF Inv, Whole
      <3> QED BY <3>2
    <2> QED BY <2>2, <2>3
  <1> QED BY <1>1, Invariance, PTL

\* What closing a ring does to a group of different corners.
LEMMA ClosedRing ==
  ASSUME NEW s \in Seq(Coordinates), s # <<>>,
         \A i, j \in 1..Len(s) : s[i] = s[j] => i = j
  PROVE  /\ Len(s) > 1 => Len(MapToMultiBlockedPolygon(s)) = Len(s) + 1
         /\ MapToMultiBlockedPolygon(s)[1]
              = MapToMultiBlockedPolygon(s)[Len(MapToMultiBlockedPolygon(s))]
         /\ Range(MapToMultiBlockedPolygon(s)) = Range(s)
  <1> SUFFICES ASSUME NEW r, r = MapToMultiBlockedPolygon(s)
               PROVE  /\ Len(s) > 1 => Len(r) = Len(s) + 1
                      /\ r[1] = r[Len(r)]
                      /\ Range(r) = Range(s)
    OBVIOUS
  <1>1. Len(s) \in Nat \ {0} /\ Head(s) = s[1] /\ s[1] \in Coordinates
    OBVIOUS
  <1>2. CASE Len(s) = 1
    <2>1. r = s
      BY <1>1, <1>2 DEF MapToMultiBlockedPolygon
    <2> QED BY <2>1, <1>1, <1>2
  <1>3. CASE Len(s) > 1
    <2>1. s[1] # s[Len(s)]
      BY <1>1, <1>3
    <2>2. r = Append(s, s[1])
      BY <2>1, <1>1 DEF MapToMultiBlockedPolygon
    <2>3. Len(r) = Len(s) + 1 /\ r[Len(s) + 1] = s[1] /\ \A i \in 1..Len(s) : r[i] = s[i]
      BY <2>2, <1>1
    <2>4. DOMAIN r = 1..(Len(s) + 1) /\ DOMAIN s = 1..Len(s)
      BY <2>2, <1>1
    <2>5. Range(r) = Range(s)
      <3>1. \A x \in Range(r) : x \in Range(s)
        BY <2>3, <2>4, <1>1 DEF Range
      <3>2. \A x \in Range(s) : x \in Range(r)
        BY <2>3, <2>4, <1>1 DEF Range
      <3> QED BY <3>1, <3>2
    <2>6. r[1] = s[1]
      BY <2>3, <1>1
    <2> QED BY <2>3, <2>5, <2>6
  <1>4. \A n \in Nat \ {0} : n = 1 \/ n > 1
    OBVIOUS
  <1>5. Len(s) = 1 \/ Len(s) > 1
    BY <1>1, <1>4, Zenon
  <1> QED BY <1>2, <1>3, <1>5

\* Every answered ring is closed and passes corners of its own square only.
THEOREM RingsClosedHolds == Spec => []RingsClosed
  <1>1. Inv => RingsClosed
    <2> SUFFICES ASSUME Inv, NEW a \in Answered
                 PROVE  /\ Ring(a)[1] = Ring(a)[Len(Ring(a))]
                        /\ Len(groups[a]) > 1 => Len(Ring(a)) = Len(groups[a]) + 1
                        /\ IsInjective(groups[a])
                        /\ Range(Ring(a)) \subseteq GenerateSquareCoordinates(place[a])
      BY DEF RingsClosed
    <2>1. a \in Accidents /\ groups[a] # <<>> /\ groups[a] \in Seq(Coordinates)
      BY DEF Answered, Inv, TypeOK
    <2>2. \A i, j \in 1..Len(groups[a]) : groups[a][i] = groups[a][j] => i = j
      BY <2>1 DEF Inv, Fetched
    <2>3. IsInjective(groups[a])
      BY <2>1, <2>2 DEF IsInjective
    <2>4. Range(groups[a]) \subseteq GenerateSquareCoordinates(place[a])
      <3> SUFFICES ASSUME NEW i \in 1..Len(groups[a])
                   PROVE  groups[a][i] \in GenerateSquareCoordinates(place[a])
        BY <2>1 DEF Range
      <3>1. <<a, groups[a][i]>> \in rows
        BY <2>1 DEF Inv, Fetched
      <3> QED BY <3>1 DEF Inv, InRows
    <2> QED BY <2>1, <2>2, <2>3, <2>4, ClosedRing DEF Ring
  <1> QED BY <1>1, Invariance, PTL

\* A group that qualified all the time and was answered is whole.
LEMMA AnsweredWhole ==
  ASSUME Inv, phase = "answered", NEW a \in steady
  PROVE  /\ groups[a] \in Seq(Coordinates)
         /\ \A i, j \in 1..Len(groups[a]) : groups[a][i] = groups[a][j] => i = j
         /\ Range(groups[a]) = GenerateSquareCoordinates(place[a])
  <1>1. a \in Accidents /\ groups[a] \in Seq(Coordinates)
    BY DEF Inv, TypeOK
  <1>2. \A c \in GenerateSquareCoordinates(place[a]) : c \in Range(groups[a])
    <2>1. PICK row \in rows : row[1] = a
      BY DEF Inv, Between, Listed
    <2> QED BY <1>1, <2>1 DEF Inv, Whole, Complete
  <1>3. \A c \in Range(groups[a]) : c \in GenerateSquareCoordinates(place[a])
    <2> SUFFICES ASSUME NEW i \in 1..Len(groups[a])
                 PROVE  groups[a][i] \in GenerateSquareCoordinates(place[a])
      BY <1>1 DEF Range
    <2>1. <<a, groups[a][i]>> \in rows
      BY <1>1 DEF Inv, Fetched
    <2> QED BY <2>1 DEF Inv, InRows
  <1> QED BY <1>1, <1>2, <1>3 DEF Inv, Fetched

\* What was to be listed all the time is listed whole; what never was, is not.
THEOREM AnswerRegularHolds == Spec => []AnswerRegular
  <1>1. Inv => AnswerRegular
    <2> SUFFICES ASSUME Inv, phase = "answered"
                 PROVE  /\ steady \subseteq Answered /\ Answered \subseteq ever
                        /\ \A a \in steady :
                             Range(Ring(a)) = GenerateSquareCoordinates(place[a])
      BY DEF AnswerRegular
    <2>1. Answered \subseteq ever
      BY DEF Answered, Inv, Fetched
    <2>2. ASSUME NEW a \in steady
          PROVE  a \in Answered /\ Range(Ring(a)) = GenerateSquareCoordinates(place[a])
      <3>1. a \in Accidents /\ groups[a] \in Seq(Coordinates)
        BY <2>2 DEF Inv, TypeOK
      <3>2. /\ \A i, j \in 1..Len(groups[a]) : groups[a][i] = groups[a][j] => i = j
            /\ Range(groups[a]) = GenerateSquareCoordinates(place[a])
        BY <2>2, AnsweredWhole
      <3>3. [lon |-> place[a].lon + Size, lat |-> place[a].lat + Size]
              \in GenerateSquareCoordinates(place[a])
        BY DEF GenerateSquareCoordinates
      <3>4. groups[a] # <<>>
        BY <3>1, <3>2, <3>3 DEF Range
      <3> QED BY <3>1, <3>2, <3>4, ClosedRing DEF Answered, Ring
    <2> QED BY <2>1, <2>2
  <1> QED BY <1>1, Invariance, PTL

-----------------------------------------------------------------------------
(* When a ring goes round its square and not across it.                    *)

Beside(c, d) == c.lon = d.lon \/ c.lat = d.lat
Opposite(c, d) == c.lon # d.lon /\ c.lat # d.lat

GoesRound(a) == \A i \in 1..(Len(Ring(a)) - 1) : Beside(Ring(a)[i], Ring(a)[i + 1])

\* A whole group has four rows.
LEMMA FourCorners ==
  ASSUME NEW p \in Coordinates, NEW s \in Seq(Coordinates),
         \A i, j \in 1..Len(s) : s[i] = s[j] => i = j,
         Range(s) = GenerateSquareCoordinates(p)
  PROVE  Len(s) = 4
  <1> DEFINE S == GenerateSquareCoordinates(p)
             corner(dx, dy) == [lon |-> p.lon + dx, lat |-> p.lat + dy]
             f == [i \in 1..4 |-> CASE i = 1 -> corner(Size, Size)
                                    [] i = 2 -> corner(Size, -Size)
                                    [] i = 3 -> corner(-Size, -Size)
                                    [] i = 4 -> corner(-Size, Size)]
  <1>1. p.lon \in Int /\ p.lat \in Int /\ Size \in Nat \ {0}
    BY RangeAssumption DEF Coordinates
  <1>2. S = {corner(Size, Size), corner(Size, -Size), corner(-Size, -Size), corner(-Size, Size)}
    BY <1>1 DEF GenerateSquareCoordinates
  <1>3. \A dx, dy, ex, ey \in {Size, -Size} :
          corner(dx, dy) = corner(ex, ey) => dx = ex /\ dy = ey
    BY <1>1
  <1>4. /\ f[1] = corner(Size, Size) /\ f[2] = corner(Size, -Size)
        /\ f[3] = corner(-Size, -Size) /\ f[4] = corner(-Size, Size)
    OBVIOUS
  <1>5. Size # -Size
    BY <1>1
  <1>6. \A i, j \in 1..4 : f[i] = f[j] => i = j
    BY <1>3, <1>4, <1>5
  <1>7. f \in [1..4 -> S] /\ \A c \in S : \E i \in 1..4 : f[i] = c
    BY <1>2, <1>4
  <1>8. f \in Bijection(1..4, S)
    BY <1>6, <1>7, Fun_IsBij
  <1>9. s \in Bijection(1..Len(s), S)
    <2>1. s \in [1..Len(s) -> S] /\ \A c \in S : \E i \in 1..Len(s) : s[i] = c
      BY DEF Range
    <2> QED BY <2>1, Fun_IsBij
  <1>10. Len(s) \in Nat
    OBVIOUS
  <1> QED BY <1>8, <1>9, <1>10, Fun_NatBijSame DEF ExistsBijection

\* Four different positions of a two by two grid: going from one to the next and
\* back to the first keeps a line or a column just when the first and the third
\* share neither.
LEMMA FourInOrder ==
  ASSUME NEW l, NEW h, l # h, NEW x \in [1..4 -> {l, h}],
         NEW k, NEW t, k # t, NEW y \in [1..4 -> {k, t}],
         \A i, j \in 1..4 : i # j => x[i] # x[j] \/ y[i] # y[j]
  PROVE  (/\ x[1] = x[2] \/ y[1] = y[2]
          /\ x[2] = x[3] \/ y[2] = y[3]
          /\ x[3] = x[4] \/ y[3] = y[4]
          /\ x[4] = x[1] \/ y[4] = y[1]) <=> (x[1] # x[3] /\ y[1] # y[3])
  <1>1. /\ x[1] \in {l, h} /\ x[2] \in {l, h} /\ x[3] \in {l, h} /\ x[4] \in {l, h}
        /\ y[1] \in {k, t} /\ y[2] \in {k, t} /\ y[3] \in {k, t} /\ y[4] \in {k, t}
    OBVIOUS
  <1>2. /\ x[1] # x[2] \/ y[1] # y[2]
        /\ x[1] # x[3] \/ y[1] # y[3]
        /\ x[1] # x[4] \/ y[1] # y[4]
        /\ x[2] # x[3] \/ y[2] # y[3]
        /\ x[2] # x[4] \/ y[2] # y[4]
        /\ x[3] # x[4] \/ y[3] # y[4]
    OBVIOUS
  <1> QED BY <1>1, <1>2

\* The ring of a whole group goes round the square just when the first and the
\* third row that came in are opposite corners.
LEMMA RoundIffOpposite ==
  ASSUME NEW p \in Coordinates, NEW s \in Seq(Coordinates),
         \A i, j \in 1..Len(s) : s[i] = s[j] => i = j,
         Range(s) = GenerateSquareCoordinates(p),
         NEW r, r = MapToMultiBlockedPolygon(s)
  PROVE  (\A i \in 1..(Len(r) - 1) : Beside(r[i], r[i + 1])) <=> Opposite(s[1], s[3])
  <1>1. Len(s) = 4
    BY FourCorners
  <1>2. p.lon \in Int /\ p.lat \in Int /\ Size \in Nat \ {0}
    BY RangeAssumption DEF Coordinates
  <1>3. \A i \in 1..4 : /\ s[i] \in Coordinates
                        /\ s[i].lon \in {p.lon - Size, p.lon + Size}
                        /\ s[i].lat \in {p.lat - Size, p.lat + Size}
    <2> SUFFICES ASSUME NEW i \in 1..4
                 PROVE  /\ s[i] \in Coordinates
                        /\ s[i].lon \in {p.lon - Size, p.lon + Size}
                        /\ s[i].lat \in {p.lat - Size, p.lat + Size}
      OBVIOUS
    <2>1. s[i] \in Coordinates /\ s[i] \in GenerateSquareCoordinates(p)
      BY <1>1 DEF Range
    <2> QED BY <2>1, <1>2 DEF GenerateSquareCoordinates
  <1>4. \A c, d \in Coordinates : c.lon = d.lon /\ c.lat = d.lat => c = d
    BY DEF Coordinates
  <1>5. \A i, j \in 1..4 : i # j => s[i].lon # s[j].lon \/ s[i].lat # s[j].lat
    BY <1>1, <1>3, <1>4
  <1>6. r = Append(s, s[1])
    <2>1. s # <<>> /\ Head(s) = s[1]
      <3>1. Len(<<>>) = 0 /\ 4 # 0
        OBVIOUS
      <3>2. s # <<>>
        BY <1>1, <3>1, Zenon
      <3>3. s \in Seq(Coordinates) /\ s # <<>> => Head(s) = s[1]
        OBVIOUS
      <3> QED BY <3>2, <3>3
    <2>2. s[1] # s[Len(s)]
      BY <1>1, <1>5
    <2> QED BY <2>1, <2>2 DEF MapToMultiBlockedPolygon
  <1>7. /\ Len(r) = 5 /\ r[1] = s[1] /\ r[2] = s[2] /\ r[3] = s[3] /\ r[4] = s[4]
        /\ r[5] = s[1]
    BY <1>1, <1>6
  <1>8. (\A i \in 1..(Len(r) - 1) : Beside(r[i], r[i + 1]))
          <=> /\ Beside(s[1], s[2]) /\ Beside(s[2], s[3])
              /\ Beside(s[3], s[4]) /\ Beside(s[4], s[1])
    <2>1. \A i \in 1..(Len(r) - 1) : i = 1 \/ i = 2 \/ i = 3 \/ i = 4
      BY <1>7
    <2> QED BY <1>7, <2>1
  <1> DEFINE x == [i \in 1..4 |-> s[i].lon]
             y == [i \in 1..4 |-> s[i].lat]
  <1>9. /\ x \in [1..4 -> {p.lon - Size, p.lon + Size}]
        /\ y \in [1..4 -> {p.lat - Size, p.lat + Size}]
        /\ p.lon - Size # p.lon + Size /\ p.lat - Size # p.lat + Size
        /\ \A i, j \in 1..4 : i # j => x[i] # x[j] \/ y[i] # y[j]
    BY <1>2, <1>3, <1>5
  <1>10. /\ x[1] = s[1].lon /\ x[2] = s[2].lon /\ x[3] = s[3].lon /\ x[4] = s[4].lon
         /\ y[1] = s[1].lat /\ y[2] = s[2].lat /\ y[3] = s[3].lat /\ y[4] = s[4].lat
    OBVIOUS
  <1> HIDE DEF x, y
  <1>11. (/\ x[1] = x[2] \/ y[1] = y[2]
          /\ x[2] = x[3] \/ y[2] = y[3]
          /\ x[3] = x[4] \/ y[3] = y[4]
          /\ x[4] = x[1] \/ y[4] = y[1]) <=> (x[1] # x[3] /\ y[1] # y[3])
    BY <1>9, FourInOrder
  <1> QED BY <1>8, <1>10, <1>11 DEF Beside, Opposite

\* What RingsAreSquares needs of the database, and no more, once corners are
\* stored: that opposite corners come back two rows apart.  GetAllAsync and
\* GetAllUnResolvedAsync ask for no order, so that any may come.
THEOREM RingsAreSquaresIff ==
  Spec => [](RingsAreSquares
               <=> \A a \in Answered \cap steady : Opposite(groups[a][1], groups[a][3]))
  <1>1. ASSUME Inv
        PROVE  RingsAreSquares
                 <=> \A a \in Answered \cap steady : Opposite(groups[a][1], groups[a][3])
    <2>1. \A a \in Answered \cap steady : GoesRound(a) <=> Opposite(groups[a][1], groups[a][3])
      <3> SUFFICES ASSUME NEW a \in Answered \cap steady
                   PROVE  GoesRound(a) <=> Opposite(groups[a][1], groups[a][3])
        OBVIOUS
      <3>1. place[a] \in Coordinates
        BY <1>1, PlacesAssumption DEF Answered, Inv, TypeOK
      <3>2. phase = "answered" /\ a \in steady
        BY DEF Answered
      <3> QED BY <1>1, <3>1, <3>2, AnsweredWhole, RoundIffOpposite DEF GoesRound, Ring
    <2>2. RingsAreSquares <=> \A a \in Answered \cap steady : GoesRound(a)
      BY DEF RingsAreSquares, GoesRound, Beside
    <2> QED BY <2>1, <2>2
  <1> QED BY <1>1, Invariance, PTL
=============================================================================
