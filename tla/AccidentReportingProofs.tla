---------------------- MODULE AccidentReportingProofs ----------------------
(***************************************************************************)
(* The safety properties of AccidentReporting, for any units, any requests *)
(* they make and any number of faults.  Routing is settled first: every    *)
(* request reaches the case of its kind and yields its unit's identifier.  *)
(***************************************************************************)
EXTENDS AccidentReporting, TLAPS

\* HandleMessageAsync takes a request to the case of the template it was sent
\* under.
LEMMA CaseIsKind ==
  ASSUME NEW m \in Requests
  PROVE  Kind(m) \in {2, 3, 4} /\ Case(Topic(m)) = Kind(m)
<1>1. Kind(m) \in {2, 3, 4}
  BY PlanAssumption DEF Requests, Kind
<1>2. /\ AccidentSubTopics[1] = <<"test">>
      /\ AccidentSubTopics[2] = <<"rsu", "AccidentReport", "ID">>
      /\ AccidentSubTopics[3] = <<"rsu", "Requests", "Directions", "ID">>
      /\ AccidentSubTopics[4] = <<"rsu", "Requests", "AdvancedDirections", "ID">>
  BY DEF AccidentSubTopics
<1>. DEFINE t == Topic(m)
<1>3. ASSUME t[1] = "rsu" PROVE ~StartsWith(t, AccidentSubTopics[1])
  BY <1>2, <1>3 DEF StartsWith, Placeholders
<1>4. ASSUME t[2] # "AccidentReport" PROVE ~StartsWith(t, AccidentSubTopics[2])
  BY <1>2, <1>4 DEF StartsWith, Placeholders
<1>5. ASSUME t[3] # "Directions" PROVE ~StartsWith(t, AccidentSubTopics[3])
  BY <1>2, <1>5 DEF StartsWith, Placeholders
<1>6. CASE Kind(m) = 2
  <2>1. DOMAIN t = 1..3 /\ t[1] = "rsu" /\ t[2] = "AccidentReport"
    BY <1>2, <1>6 DEF Topic
  <2>2. StartsWith(t, AccidentSubTopics[2])
    BY <1>2, <2>1 DEF StartsWith, Placeholders
  <2>3. Case(t) = 2
    BY <1>3, <2>1, <2>2 DEF Case
  <2>. QED BY <1>6, <2>3
<1>7. CASE Kind(m) = 3
  <2>1. DOMAIN t = 1..4 /\ t[1] = "rsu" /\ t[2] = "Requests" /\ t[3] = "Directions"
    BY <1>2, <1>7 DEF Topic
  <2>2. StartsWith(t, AccidentSubTopics[3])
    BY <1>2, <2>1 DEF StartsWith, Placeholders
  <2>3. Case(t) = 3
    BY <1>3, <1>4, <2>1, <2>2 DEF Case
  <2>. QED BY <1>7, <2>3
<1>8. CASE Kind(m) = 4
  <2>1. DOMAIN t = 1..4 /\ t[1] = "rsu" /\ t[2] = "Requests" /\ t[3] = "AdvancedDirections"
    BY <1>2, <1>8 DEF Topic
  <2>2. StartsWith(t, AccidentSubTopics[4])
    BY <1>2, <2>1 DEF StartsWith, Placeholders
  <2>3. Case(t) = 4
    BY <1>3, <1>4, <1>5, <2>1, <2>2 DEF Case
  <2>. QED BY <1>8, <2>3
<1>. QED BY <1>1, <1>6, <1>7, <1>8

\* The one topic of the answer is the one the unit reads.
LEMMA AnswerReachesUnit ==
  ASSUME NEW m \in Requests
  PROVE  ResponseTopics(m) = {AnswerTopic(m.unit, Kind(m))}
<1>1. Kind(m) \in {2, 3, 4} /\ Case(Topic(m)) = Kind(m)
  BY CaseIsKind
<1>2. /\ AccidentSubTopics[2] = <<"rsu", "AccidentReport", "ID">>
      /\ AccidentSubTopics[3] = <<"rsu", "Requests", "Directions", "ID">>
      /\ AccidentSubTopics[4] = <<"rsu", "Requests", "AdvancedDirections", "ID">>
  BY DEF AccidentSubTopics
<1>3. CASE Kind(m) = 2
  <2>. DEFINE topic == <<"rsu", "AccidentReport", m.unit>>
  <2>1. Topic(m) = topic
    BY <1>2, <1>3 DEF Topic
  <2>2. Len(topic) = 3 /\ Len(AccidentSubTopics[2]) = 3
    BY <1>2
  <2>3. {j \in DOMAIN AccidentSubTopics[2] :
           /\ Len(AccidentSubTopics[2]) = Len(topic)
           /\ AccidentSubTopics[2][j] \in Placeholders
           /\ \A i \in 1..(j - 1) : AccidentSubTopics[2][i] \notin Placeholders} = {3}
    BY <1>2, <2>2 DEF Placeholders
  <2>4. ExtractId(AccidentSubTopics[2], topic) = {m.unit}
    BY <2>3 DEF ExtractId
  <2>. QED BY <1>1, <1>3, <2>1, <2>4 DEF ResponseTopics, AnswerTopic
<1>4. CASE Kind(m) = 3
  <2>. DEFINE topic == <<"rsu", "Requests", "Directions", m.unit>>
  <2>1. Topic(m) = topic
    BY <1>2, <1>4 DEF Topic
  <2>2. Len(topic) = 4 /\ Len(AccidentSubTopics[3]) = 4
    BY <1>2
  <2>3. {j \in DOMAIN AccidentSubTopics[3] :
           /\ Len(AccidentSubTopics[3]) = Len(topic)
           /\ AccidentSubTopics[3][j] \in Placeholders
           /\ \A i \in 1..(j - 1) : AccidentSubTopics[3][i] \notin Placeholders} = {4}
    BY <1>2, <2>2 DEF Placeholders
  <2>4. ExtractId(AccidentSubTopics[3], topic) = {m.unit}
    BY <2>3 DEF ExtractId
  <2>. QED BY <1>1, <1>4, <2>1, <2>4 DEF ResponseTopics, AnswerTopic
<1>5. CASE Kind(m) = 4
  <2>. DEFINE topic == <<"rsu", "Requests", "AdvancedDirections", m.unit>>
  <2>1. Topic(m) = topic
    BY <1>2, <1>5 DEF Topic
  <2>2. Len(topic) = 4 /\ Len(AccidentSubTopics[4]) = 4
    BY <1>2
  <2>3. {j \in DOMAIN AccidentSubTopics[4] :
           /\ Len(AccidentSubTopics[4]) = Len(topic)
           /\ AccidentSubTopics[4][j] \in Placeholders
           /\ \A i \in 1..(j - 1) : AccidentSubTopics[4][i] \notin Placeholders} = {4}
    BY <1>2, <2>2 DEF Placeholders
  <2>4. ExtractId(AccidentSubTopics[4], topic) = {m.unit}
    BY <2>3 DEF ExtractId
  <2>. QED BY <1>1, <1>5, <2>1, <2>4 DEF ResponseTopics, AnswerTopic
<1>. QED BY <1>1, <1>3, <1>4, <1>5

----------------------------------------------------------------------------
(* The inductive invariant: beside the properties, that an answer being    *)
(* published is to a stored report, and that a unit's requests are in      *)
(* order along retained answer, message in the service and queue.          *)

RespondingStored ==
  \A w \in work : w.at = "responding" /\ Report(w.message) => copies[w.message] > 0

Ordered ==
  /\ \A i, j \in DOMAIN queue :
       i < j /\ queue[i].unit = queue[j].unit => queue[i].nr <= queue[j].nr
  /\ \A i \in DOMAIN queue : queue[i].nr <= current[queue[i].unit]
  /\ \A w \in work : w.message.nr <= current[w.message.unit]
  /\ \A w \in work, i \in DOMAIN queue :
       w.message.unit = queue[i].unit => w.message.nr <= queue[i].nr

RetainedFirst ==
  \A r \in retained :
    /\ r[2] \in Requests
    /\ r[2].nr <= current[r[2].unit]
    /\ \A w \in work : w.message.unit = r[2].unit => r[2].nr <= w.message.nr
    /\ \A i \in DOMAIN queue : queue[i].unit = r[2].unit => r[2].nr <= queue[i].nr
    /\ \A q \in retained : r[1] = q[1] => r = q

Inv ==
  /\ TypeOK /\ AnswersOwn /\ StoredOnce /\ AckedDecided
  /\ RespondingStored /\ Ordered /\ RetainedFirst

\* A request is a unit's, with a number of its plan.
LEMMA RequestFields ==
  /\ \A m \in Requests : m.unit \in Units /\ m.nr \in Nat \ {0} /\ m.nr <= Len(Plan[m.unit])
  /\ \A u \in Units, n \in Nat \ {0} : n <= Len(Plan[u]) => [unit |-> u, nr |-> n] \in Requests
BY PlanAssumption DEF Requests

\* The initial state satisfies the invariant.
LEMMA InvInit == Init => Inv
<1>. SUFFICES ASSUME Init PROVE Inv
  OBVIOUS
<1>1. TypeOK
  BY PlanAssumption, BoundsAssumption DEF Init, TypeOK
<1>2. AnswersOwn /\ StoredOnce /\ AckedDecided
  BY ReportsAssumption DEF Init, AnswersOwn, StoredOnce, AckedDecided
<1>3. RespondingStored /\ Ordered /\ RetainedFirst
  BY DEF Init, RespondingStored, Ordered, RetainedFirst
<1>. QED BY <1>1, <1>2, <1>3 DEF Inv

\* Sending a unit's current request keeps the queue and its order.
LEMMA SendStep ==
  ASSUME Inv, NEW m \in Requests, Send(m), current' \in [Units -> Nat],
         \A u \in Units : current[u] <= current'[u] /\ current'[u] <= Len(Plan[u]),
         m.nr = current'[m.unit]
  PROVE  Inv'
<1>1. queue' \in {queue, Append(queue, m)} /\ queue \in Seq(Requests)
  BY DEF Send, Inv, TypeOK
<1>2. UNCHANGED <<service, work, effects, faults>>
  BY DEF Send
<1>3. TypeOK'
  <2>1. queue' \in Seq(Requests)
    BY <1>1
  <2>. QED BY <1>2, <2>1 DEF Inv, TypeOK, service, effects
<1>4. AnswersOwn' /\ StoredOnce' /\ AckedDecided' /\ RespondingStored'
  BY <1>2 DEF Inv, AnswersOwn, StoredOnce, AckedDecided, RespondingStored, effects
<1>5. \A x \in Requests : x.unit \in Units /\ x.nr \in Nat
  BY RequestFields
<1>6. \A w \in work : w.message \in Requests
  BY DEF Inv, TypeOK
<1>7. /\ DOMAIN queue = 1..Len(queue) /\ Len(queue) \in Nat
      /\ \A i \in DOMAIN queue : queue[i] \in Requests
  BY <1>1
<1>8. DOMAIN queue' \subseteq 1..(Len(queue) + 1)
  BY <1>1, <1>7
<1>9. \A i \in DOMAIN queue' :
        \/ i \in DOMAIN queue /\ queue'[i] = queue[i]
        \/ i = Len(queue) + 1 /\ queue'[i] = m
  BY <1>1, <1>7
<1>10. \A x \in Requests : x.nr <= current[x.unit] => x.nr <= current'[x.unit]
  BY <1>5 DEF Inv, TypeOK
<1>11. \A i \in DOMAIN queue :
         /\ queue[i].nr <= current'[queue[i].unit]
         /\ queue[i].unit = m.unit => queue[i].nr <= m.nr
  BY <1>7, <1>10 DEF Inv, Ordered
<1>12. \A w \in work :
         /\ w.message.nr <= current'[w.message.unit]
         /\ w.message.unit = m.unit => w.message.nr <= m.nr
  BY <1>6, <1>10 DEF Inv, Ordered
<1>13. m.nr <= m.nr /\ m.nr <= current'[m.unit]
  BY <1>5
<1>14. Ordered'
  <2>1. ASSUME NEW i \in DOMAIN queue', NEW j \in DOMAIN queue', i < j,
               queue'[i].unit = queue'[j].unit
        PROVE  queue'[i].nr <= queue'[j].nr
    <3>1. i \in DOMAIN queue /\ queue'[i] = queue[i]
      BY <1>7, <1>8, <1>9, <2>1
    <3>. QED BY <1>9, <1>11, <2>1, <3>1 DEF Inv, Ordered
  <2>2. \A i \in DOMAIN queue' : queue'[i].nr <= current'[queue'[i].unit]
    BY <1>9, <1>11, <1>13
  <2>3. \A w \in work, i \in DOMAIN queue' :
          w.message.unit = queue'[i].unit => w.message.nr <= queue'[i].nr
    BY <1>9, <1>12 DEF Inv, Ordered
  <2>. QED BY <1>2, <1>12, <2>1, <2>2, <2>3 DEF Ordered
<1>15. RetainedFirst'
  <2>1. ASSUME NEW r \in retained
        PROVE  /\ r[2] \in Requests /\ r[2].nr <= current'[r[2].unit]
               /\ r[2].unit = m.unit => r[2].nr <= m.nr
    BY <1>10, <2>1 DEF Inv, RetainedFirst
  <2>. QED BY <1>2, <1>9, <2>1 DEF Inv, RetainedFirst, effects
<1>. QED BY <1>3, <1>4, <1>14, <1>15 DEF Inv

\* A unit's next request, and a repeated one.
LEMMA UnitStep ==
  ASSUME Inv, NEW u \in Units, Ask(u) \/ Repeat(u)
  PROVE  Inv'
<1>1. current[u] \in Nat /\ current[u] <= Len(Plan[u]) /\ Len(Plan[u]) \in Nat
  BY PlanAssumption DEF Inv, TypeOK
<1>2. CASE Ask(u)
  <2>. DEFINE m == [unit |-> u, nr |-> current[u] + 1]
  <2>1. m \in Requests
    BY <1>1, <1>2, RequestFields DEF Ask
  <2>2. /\ current' \in [Units -> Nat]
        /\ \A v \in Units : current[v] <= current'[v] /\ current'[v] <= Len(Plan[v])
        /\ m.nr = current'[m.unit]
    BY <1>1, <1>2, PlanAssumption DEF Ask, Inv, TypeOK
  <2>3. Send(m)
    BY <1>2 DEF Ask
  <2>. HIDE DEF m
  <2>. QED BY <2>1, <2>2, <2>3, SendStep
<1>3. CASE Repeat(u)
  <2>. DEFINE m == [unit |-> u, nr |-> current[u]]
  <2>1. m \in Requests
    BY <1>1, <1>3, RequestFields DEF Repeat
  <2>2. /\ current' \in [Units -> Nat]
        /\ \A v \in Units : current[v] <= current'[v] /\ current'[v] <= Len(Plan[v])
        /\ m.nr = current'[m.unit]
    BY <1>1, <1>3 DEF Repeat, Inv, TypeOK
  <2>3. Send(m)
    BY <1>3 DEF Repeat
  <2>. HIDE DEF m
  <2>. QED BY <2>1, <2>2, <2>3, SendStep
<1>. QED BY <1>2, <1>3

\* A message leaves the queue for the idle service.
LEMMA TakeStep ==
  ASSUME Inv, Take
  PROVE  Inv'
<1>1. /\ queue \in Seq(Requests) /\ queue # <<>> /\ work = {} /\ queue' = Tail(queue)
      /\ work' = {[message |-> Head(queue), at |-> "handling"]}
      /\ UNCHANGED <<current, service, effects, faults>>
  BY DEF Inv, TypeOK, Take
<1>2. /\ Len(queue) \in Nat \ {0} /\ DOMAIN queue = 1..Len(queue) /\ queue' \in Seq(Requests)
      /\ DOMAIN queue' = 1..(Len(queue) - 1)
      /\ \A i \in DOMAIN queue' : i + 1 \in DOMAIN queue /\ queue'[i] = queue[i + 1]
      /\ Head(queue) = queue[1] /\ 1 \in DOMAIN queue /\ queue[1] \in Requests
  BY <1>1
<1>3. TypeOK'
  BY <1>1, <1>2 DEF Inv, TypeOK, service, effects
<1>4. AnswersOwn' /\ StoredOnce' /\ AckedDecided' /\ RespondingStored'
  BY <1>1 DEF Inv, AnswersOwn, StoredOnce, AckedDecided, RespondingStored, effects
<1>5. \A w \in work' : w.message = queue[1]
  BY <1>1, <1>2
<1>6. Ordered'
  <2>1. \A i, j \in DOMAIN queue' :
          i < j /\ queue'[i].unit = queue'[j].unit => queue'[i].nr <= queue'[j].nr
    BY <1>2 DEF Inv, Ordered
  <2>2. \A i \in DOMAIN queue' : queue[1].unit = queue'[i].unit => queue[1].nr <= queue'[i].nr
    <3>1. \A i \in DOMAIN queue' : i + 1 \in DOMAIN queue /\ 1 < i + 1
      BY <1>2
    <3>2. \A j \in DOMAIN queue :
            1 < j /\ queue[1].unit = queue[j].unit => queue[1].nr <= queue[j].nr
      BY <1>2 DEF Inv, Ordered
    <3>. QED BY <1>2, <3>1, <3>2
  <2>3. \A i \in DOMAIN queue' : queue'[i].nr <= current[queue'[i].unit]
    BY <1>2 DEF Inv, Ordered
  <2>4. queue[1].nr <= current[queue[1].unit]
    BY <1>2 DEF Inv, Ordered
  <2>. QED BY <1>1, <1>5, <2>1, <2>2, <2>3, <2>4 DEF Ordered
<1>7. RetainedFirst'
  BY <1>1, <1>2, <1>5 DEF Inv, RetainedFirst, effects
<1>. QED BY <1>3, <1>4, <1>6, <1>7 DEF Inv

\* What only drops messages keeps the order of the rest.
LEMMA OrderKept ==
  ASSUME Inv, current' = current, queue' \in {queue, <<>>},
         \A v \in work' : \E w \in work : v.message = w.message
  PROVE  Ordered' /\ (retained' = retained => RetainedFirst')
<1>1. \A i \in DOMAIN queue' : i \in DOMAIN queue /\ queue'[i] = queue[i]
  OBVIOUS
<1>. QED BY <1>1 DEF Inv, Ordered, RetainedFirst

\* An answer is retained: what it replaces is an answer to the same unit.
LEMMA PublishStep ==
  ASSUME Inv, NEW w \in work, Publish(w)
  PROVE  Inv'
<1>. DEFINE m == w.message
            t == AnswerTopic(m.unit, Kind(m))
<1>1. m \in Requests /\ m.unit \in Units /\ m.nr \in Nat
  BY RequestFields DEF Inv, TypeOK
<1>2. retained' = {r \in retained : r[1] # t} \cup {<<t, m>>}
  BY <1>1, AnswerReachesUnit DEF Publish
<1>3. /\ work' = {} /\ w.at = "responding"
      /\ acked' \in {acked, acked \cup {m}}
      /\ acked' # acked => Report(m)
      /\ UNCHANGED <<current, service, queue, copies, failed, faults>>
  BY DEF Publish, Return, Inv, TypeOK
<1>4. TypeOK'
  BY <1>1, <1>3 DEF Inv, TypeOK, service
<1>5. Report(m) => copies[m] > 0
  BY <1>3 DEF Inv, RespondingStored
<1>6. AnswersOwn' /\ StoredOnce' /\ AckedDecided' /\ RespondingStored'
  BY <1>2, <1>3, <1>5 DEF Inv, AnswersOwn, StoredOnce, AckedDecided, RespondingStored
<1>7. Ordered'
  BY <1>3, OrderKept
<1>8. RetainedFirst'
  <2>1. m.nr <= current[m.unit]
        /\ \A i \in DOMAIN queue : queue[i].unit = m.unit => m.nr <= queue[i].nr
    BY DEF Inv, Ordered
  <2>. QED BY <1>1, <1>2, <1>3, <2>1 DEF Inv, RetainedFirst
<1>. QED BY <1>4, <1>6, <1>7, <1>8 DEF Inv

\* Every other step of a handler.
LEMMA HandleStep ==
  ASSUME Inv, NEW w \in work, Handle(w)
  PROVE  Inv'
<1>. DEFINE m == w.message
<1>1. m \in Requests /\ work = {w} /\ w.at \in {"handling", "responding"}
  BY DEF Inv, TypeOK
<1>2. Case(Topic(m)) = Kind(m)
  BY <1>1, CaseIsKind
<1>3. CASE Save(w)
  <2>1. /\ work' = {[w EXCEPT !.at = "responding"]} /\ Kind(m) = 2
        /\ copies' = [copies EXCEPT ![m] = IF @ = 0 THEN 1 ELSE 2]
        /\ m \in Identified => copies[m] = 0
        /\ UNCHANGED <<current, service, queue, retained, acked, failed, faults>>
    BY <1>1, <1>2, <1>3 DEF Save, Handling
  <2>2. /\ copies' \in [Requests -> 0..2] /\ copies'[m] > 0
        /\ \A x \in Requests : copies[x] > 0 => copies'[x] > 0
        /\ \A x \in Requests : x # m => copies'[x] = copies[x]
        /\ m \in Identified => copies'[m] = 1
    BY <1>1, <2>1 DEF Inv, TypeOK
  <2>3. \A v \in work' : v.message = m /\ v \in [message : Requests, at : {"handling", "responding"}]
    BY <1>1, <2>1 DEF Inv, TypeOK
  <2>4. TypeOK'
    BY <2>1, <2>2, <2>3 DEF Inv, TypeOK, service
  <2>5. AnswersOwn' /\ AckedDecided' /\ RespondingStored'
    BY <2>1, <2>2, <2>3
       DEF Inv, TypeOK, AnswersOwn, AckedDecided, RespondingStored, RetainedFirst
  <2>6. StoredOnce'
    BY <2>2, ReportsAssumption DEF Inv, StoredOnce
  <2>7. Ordered' /\ RetainedFirst'
    BY <1>1, <2>1, <2>3, OrderKept
  <2>. QED BY <2>4, <2>5, <2>6, <2>7 DEF Inv
<1>4. CASE Duplicate(w) \/ SaveFails(w) \/ RouteFails(w) \/ PublishFails(w)
  <2>1. /\ work' = {} /\ UNCHANGED <<current, service, queue, copies, retained>>
        /\ failed \subseteq failed' /\ failed' \subseteq Requests /\ faults' \in 0..MaxFaults
        /\ acked' \in {acked, acked \cup {m}} /\ (acked' # acked => Report(m))
    <3>1. faults + 1 \in 0..MaxFaults \/ ~(faults < MaxFaults)
      BY BoundsAssumption DEF Inv, TypeOK
    <3>2. Return(w) /\ UNCHANGED <<current, service, queue, copies, retained>>
      BY <1>4 DEF Duplicate, SaveFails, RouteFails, PublishFails
    <3>3. /\ work' = {} /\ acked' \in {acked, acked \cup {m}} /\ (acked' # acked => Report(m))
      BY <1>1, <3>2 DEF Return
    <3>4. failed' \in {failed, failed \cup {m}, failed \cup {}}
      BY <1>4 DEF Duplicate, SaveFails, RouteFails, PublishFails
    <3>5. faults' \in 0..MaxFaults
      BY <1>4, <3>1 DEF Duplicate, SaveFails, RouteFails, PublishFails, Fault, Inv, TypeOK
    <3>. QED BY <1>1, <3>2, <3>3, <3>4, <3>5 DEF Inv, TypeOK
  <2>2. Report(m) => copies[m] > 0 \/ m \in failed'
    <3>1. CASE Duplicate(w)
      BY <3>1 DEF Duplicate
    <3>2. CASE SaveFails(w)
      BY <1>1, <3>2 DEF SaveFails, Inv, TypeOK
    <3>3. CASE RouteFails(w)
      BY <1>2, <3>3 DEF RouteFails, Handling, Report
    <3>4. CASE PublishFails(w)
      BY <3>4 DEF PublishFails, Inv, RespondingStored
    <3>. QED BY <1>4, <3>1, <3>2, <3>3, <3>4
  <2>3. TypeOK'
    BY <1>1, <2>1 DEF Inv, TypeOK, service
  <2>4. AnswersOwn' /\ StoredOnce' /\ AckedDecided' /\ RespondingStored'
    BY <2>1, <2>2 DEF Inv, AnswersOwn, StoredOnce, AckedDecided, RespondingStored
  <2>5. Ordered' /\ RetainedFirst'
    BY <2>1, OrderKept
  <2>. QED BY <2>3, <2>4, <2>5 DEF Inv
<1>5. CASE Route(w)
  <2>1. /\ work' = {[w EXCEPT !.at = "responding"]} /\ Kind(m) # 2
        /\ UNCHANGED <<current, service, queue, effects, faults>>
    BY <1>1, <1>2, <1>5 DEF Route, Handling
  <2>2. \A v \in work' : v.message = m /\ v \in [message : Requests, at : {"handling", "responding"}]
    BY <1>1, <2>1 DEF Inv, TypeOK
  <2>3. TypeOK'
    BY <2>1, <2>2 DEF Inv, TypeOK, service, effects
  <2>4. AnswersOwn' /\ StoredOnce' /\ AckedDecided' /\ RespondingStored'
    BY <2>1, <2>2
       DEF Inv, AnswersOwn, StoredOnce, AckedDecided, RespondingStored, effects, Report
  <2>5. Ordered' /\ RetainedFirst'
    BY <1>1, <2>1, <2>2, OrderKept DEF effects
  <2>. QED BY <2>3, <2>4, <2>5 DEF Inv
<1>6. CASE Publish(w)
  BY <1>6, PublishStep
<1>. QED BY <1>3, <1>4, <1>5, <1>6 DEF Handle

\* Connection and process: what is dropped is dropped whole.
LEMMA ServiceStep ==
  ASSUME Inv,
         \/ Connect \/ Subscribe \/ SubscribeFails \/ LinkLost
         \/ Greet \/ GreetFails \/ InitializeDatabase \/ Crash \/ Restart
  PROVE  Inv'
<1>1. /\ current' = current /\ UNCHANGED effects
      /\ queue' \in {queue, <<>>} /\ work' \in {work, {}}
  BY DEF Connect, Subscribe, SubscribeFails, LinkLost, Greet, GreetFails, InitializeDatabase,
         Crash, Die, Restart
<1>2. /\ process' \in {"down", "starting", "greeting", "migrating", "running"}
      /\ development' \in BOOLEAN /\ migrated' \in BOOLEAN
      /\ link' \in {"down", "connected", "subscribed", "deaf"}
      /\ faults' \in 0..MaxFaults
  <2>1. faults + 1 \in 0..MaxFaults \/ ~(faults < MaxFaults)
    BY BoundsAssumption DEF Inv, TypeOK
  <2>2. faults' \in 0..MaxFaults
    BY <2>1 DEF Inv, TypeOK, Connect, Subscribe, SubscribeFails, LinkLost, Greet, GreetFails,
                InitializeDatabase, Crash, Restart, Fault
  <2>3. /\ process' \in {process, "down", "starting", "greeting", "migrating", "running"}
        /\ development' = development /\ migrated' \in {migrated, migrated \/ development}
        /\ link' \in {link, "down", "connected", "subscribed", "deaf"}
    BY DEF Connect, Subscribe, SubscribeFails, LinkLost, StartAsyncReturns, Greet, GreetFails,
           InitializeDatabase, Crash, Die, Restart
  <2>. QED BY <2>2, <2>3 DEF Inv, TypeOK
<1>3. TypeOK'
  <2>1. queue' \in Seq(Requests)
    <3>1. queue \in Seq(Requests) /\ <<>> \in Seq(Requests)
      BY DEF Inv, TypeOK
    <3>. QED BY <1>1, <3>1
  <2>2. work' \subseteq work
    BY <1>1
  <2>. QED BY <1>1, <1>2, <2>1, <2>2 DEF Inv, TypeOK, effects
<1>4. AnswersOwn' /\ StoredOnce' /\ AckedDecided' /\ RespondingStored'
  BY <1>1 DEF Inv, AnswersOwn, StoredOnce, AckedDecided, RespondingStored, effects
<1>5. Ordered' /\ RetainedFirst'
  BY <1>1, OrderKept DEF effects
<1>. QED BY <1>3, <1>4, <1>5 DEF Inv

\* The invariant holds in every reachable state.
THEOREM Invariance == Spec => []Inv
<1>1. Inv /\ [Next]_vars => Inv'
  <2>. SUFFICES ASSUME Inv, [Next]_vars PROVE Inv'
    OBVIOUS
  <2>1. CASE UNCHANGED vars
    BY <2>1 DEF Inv, TypeOK, AnswersOwn, StoredOnce, AckedDecided, RespondingStored, Ordered,
                RetainedFirst, vars, service, effects
  <2>. QED BY <2>1, UnitStep, TakeStep, HandleStep, ServiceStep DEF Next
<1>. QED BY InvInit, <1>1, PTL DEF Spec

\* Types, and one message at a time.
THEOREM TypeCorrect == Spec => []TypeOK
BY Invariance, PTL DEF Inv

\* Every retained answer is where its unit reads it, and to a stored report.
THEOREM AnswersOwnHolds == Spec => []AnswersOwn
BY Invariance, PTL DEF Inv

\* A report with a Guid is stored once.
THEOREM StoredOnceHolds == Spec => []StoredOnce
BY Invariance, PTL DEF Inv

\* An acknowledged report is stored or its save failed.
THEOREM AckedDecidedHolds == Spec => []AckedDecided
BY Invariance, PTL DEF Inv

\* A unit's answers never go back.
THEOREM AnswersForwardHolds == Spec => AnswersForward
<1>1. ASSUME Inv, [Next]_vars
      PROVE  [\A r \in retained, q \in retained' : r[1] = q[1] => r[2].nr <= q[2].nr]_retained
  <2>1. SUFFICES ASSUME retained' # retained, NEW r \in retained, NEW q \in retained', r[1] = q[1]
                 PROVE  r[2].nr <= q[2].nr
    BY Zenon
  <2>2. PICK w \in work : Publish(w)
    BY <1>1, <2>1
       DEF Next, vars, Ask, Repeat, Send, Take, Handle, Save, Duplicate, SaveFails, Route,
           RouteFails, PublishFails, Connect, Subscribe, SubscribeFails, LinkLost,
           Greet, GreetFails, InitializeDatabase, Crash, Die, Restart, effects
  <2>3. w.message \in Requests
    BY <1>1 DEF Inv, TypeOK
  <2>. DEFINE t == AnswerTopic(w.message.unit, Kind(w.message))
  <2>4. (q \in retained /\ q[1] # t) \/ q = <<t, w.message>>
    BY <2>2, <2>3, AnswerReachesUnit DEF Publish
  <2>5. CASE q = <<t, w.message>>
    <3>1. /\ r[1] = AnswerTopic(r[2].unit, Kind(r[2])) /\ r[1] = t
      BY <1>1, <2>1, <2>5 DEF Inv, AnswersOwn
    <3>2. r[2].unit = w.message.unit
      BY <3>1 DEF AnswerTopic
    <3>. QED BY <1>1, <2>5, <3>2 DEF Inv, RetainedFirst
  <2>6. CASE q \in retained
    <3>1. r = q /\ r[2] \in Requests
      BY <1>1, <2>1, <2>6 DEF Inv, RetainedFirst
    <3>. QED BY <3>1, RequestFields
  <2>. QED BY <2>4, <2>5, <2>6
<1>. QED BY Invariance, <1>1, PTL DEF Spec, AnswersForward

----------------------------------------------------------------------------
(* The refinement of RoadsideRequests, one step after the other.           *)

\* Different units, and different kinds of request, have different answer topics.
LEMMA ChannelsDistinct ==
  ASSUME NEW m \in Requests, NEW q \in Requests,
         AnswerTopic(m.unit, Kind(m)) = AnswerTopic(q.unit, Kind(q))
  PROVE  m.unit = q.unit /\ Kind(m) = Kind(q)
<1>1. Kind(m) \in {2, 3, 4} /\ Kind(q) \in {2, 3, 4}
  BY CaseIsKind
<1>2. /\ ResponseKind[2] = "AccidentReport"
      /\ ResponseKind[3] = "Directions"
      /\ ResponseKind[4] = "AdvancedDirections"
  BY DEF ResponseKind
<1>3. m.unit = q.unit /\ ResponseKind[Kind(m)] = ResponseKind[Kind(q)]
  BY DEF AnswerTopic
<1>. QED BY <1>1, <1>2, <1>3

\* Nothing was asked, stored or answered yet.
LEMMA PromisedInit == Init => Promised!Init
<1>1. ASSUME Init PROVE Asked = {}
  BY <1>1, RequestFields DEF Init, Asked
<1>2. ASSUME Init PROVE Standing = {}
  BY <1>2 DEF Init, Standing
<1>. QED BY <1>1, <1>2 DEF Init, Promised!Init

\* A unit's next request is asked, all its earlier ones being asked already.
LEMMA PromisedAsk ==
  ASSUME Inv, NEW u \in Units, Ask(u)
  PROVE  Promised!Next
<1>. DEFINE m == [unit |-> u, nr |-> current[u] + 1]
<1>1. current[u] \in Nat /\ current[u] < Len(Plan[u]) /\ Len(Plan[u]) \in Nat
  BY PlanAssumption DEF Inv, TypeOK, Ask
<1>2. m \in Requests /\ m.unit = u /\ m.nr = current[u] + 1
  BY <1>1, RequestFields
<1>3. \A q \in Requests : q.unit \in Units /\ q.nr \in Nat
  BY RequestFields
<1>4. \A q \in Requests : q.unit = u /\ q.nr = m.nr => q = m
  BY <1>2 DEF Requests
<1>5. current \in [Units -> Nat] /\ current' = [current EXCEPT ![u] = current[u] + 1]
  BY DEF Ask, Inv, TypeOK
<1>6. m \notin Asked
  BY <1>1, <1>2 DEF Asked
<1>7. \A q \in Requests : q.unit = m.unit /\ q.nr < m.nr => q \in Asked
  BY <1>1, <1>2, <1>3 DEF Asked
<1>8. Asked' = Asked \cup {m}
  <2>1. ASSUME NEW q \in Requests
        PROVE  q.nr <= current'[q.unit] <=> q.nr <= current[q.unit] \/ q = m
    <3>1. CASE q.unit = u
      <4>1. current'[q.unit] = current[u] + 1
        BY <1>5, <3>1
      <4>. QED BY <1>1, <1>2, <1>3, <1>4, <3>1, <4>1
    <3>2. CASE q.unit # u
      BY <1>2, <1>3, <1>5, <3>2
    <3>. QED BY <3>1, <3>2
  <2>. QED BY <1>2, <2>1 DEF Asked
<1>9. UNCHANGED <<copies, Standing, acked, failed>>
  BY DEF Ask, Send, effects, Standing
<1>. HIDE DEF m
<1>10. Promised!Ask(m)
  BY <1>2, <1>6, <1>7, <1>8, <1>9 DEF Promised!Ask
<1>. QED BY <1>2, <1>10 DEF Promised!Next

\* A handler's step on a message is one of the promised steps for it, or none.
LEMMA PromisedHandle ==
  ASSUME Inv, NEW w \in work, Handle(w)
  PROVE  Promised!Next \/ UNCHANGED Promised!vars
<1>. DEFINE m == w.message
<1>1. /\ m \in Requests /\ m \in Asked /\ Asked' = Asked
      /\ w.at \in {"handling", "responding"}
      /\ copies[m] \in 0..2
  BY DEF Inv, TypeOK, Ordered, Asked, Handle, Save, Duplicate, SaveFails, Route, RouteFails,
         Publish, PublishFails
<1>2. Case(Topic(m)) = Kind(m)
  BY <1>1, CaseIsKind
<1>3. m \in Reports <=> Report(m)
  BY <1>1 DEF Reports
<1>. HIDE DEF m
<1>4. CASE Save(w)
  <2>1. Promised!Store(m)
    BY <1>1, <1>2, <1>3, <1>4 DEF Save, Handling, Report, Reports, Promised!Store, Standing, m
  <2>. QED BY <1>1, <2>1 DEF Promised!Next
<1>5. CASE SaveFails(w) /\ copies[m] = 0
  <2>1. /\ Report(m) /\ failed' = failed \cup {m} /\ Return(w)
        /\ UNCHANGED <<copies, retained>>
    BY <1>2, <1>5 DEF SaveFails, Handling, Report, m
  <2>2. acked' \in {acked, acked \cup ({m} \cap Reports)}
    BY <1>3, <2>1 DEF Return, m
  <2>3. Promised!Refuse(m)
    BY <1>1, <1>3, <1>5, <2>1, <2>2 DEF Promised!Refuse, Promised!MayAcknowledge, Standing
  <2>. QED BY <1>1, <2>3 DEF Promised!Next
<1>6. CASE \/ Duplicate(w) \/ RouteFails(w) \/ PublishFails(w)
           \/ SaveFails(w) /\ copies[m] # 0
  <2>1. Return(w) /\ UNCHANGED <<copies, retained, failed>>
    BY <1>6 DEF Duplicate, RouteFails, PublishFails, SaveFails, m
  <2>2. Report(m) => copies[m] > 0
    BY <1>1, <1>2, <1>6
       DEF Duplicate, RouteFails, PublishFails, SaveFails, Handling, Report, Inv,
           RespondingStored, m
  <2>3. acked' \in {acked, acked \cup ({m} \cap Reports)} /\ (acked' # acked => Report(m))
    BY <1>3, <2>1 DEF Return, m
  <2>4. Standing' = Standing
    BY <2>1 DEF Standing
  <2>5. CASE acked' = acked
    BY <1>1, <2>1, <2>4, <2>5 DEF Promised!vars
  <2>6. CASE acked' # acked
    <3>1. Promised!Acknowledge(m)
      BY <1>1, <2>1, <2>2, <2>3, <2>4, <2>6
         DEF Promised!Acknowledge, Promised!MayAcknowledge
    <3>. QED BY <1>1, <3>1 DEF Promised!Next
  <2>. QED BY <2>5, <2>6
<1>7. CASE Route(w)
  BY <1>1, <1>7 DEF Route, effects, Promised!vars, Standing
<1>8. CASE Publish(w)
  <2>. DEFINE Channel == [q \in Requests |-> AnswerTopic(q.unit, Kind(q))]
  <2>1. /\ ResponseTopics(m) = {Channel[m]}
        /\ \A q \in Requests : Channel[q] = AnswerTopic(q.unit, Kind(q))
    BY <1>1, AnswerReachesUnit
  <2>2. /\ retained' = {r \in retained : r[1] # Channel[m]} \cup {<<Channel[m], m>>}
        /\ w.at = "responding" /\ Return(w) /\ UNCHANGED <<copies, failed>>
    BY <1>8, <2>1 DEF Publish, m
  <2>3. \A r \in retained : r[2] \in Requests /\ r[1] = Channel[r[2]]
    BY <2>1 DEF Inv, RetainedFirst, AnswersOwn
  <2>. HIDE DEF Channel
  <2>4. Standing' = {q \in Standing : Channel[q] # Channel[m]} \cup {m}
    <3>1. ASSUME NEW r \in retained'
          PROVE  r[2] = m \/ (r \in retained /\ Channel[r[2]] # Channel[m])
      BY <2>2, <2>3, <3>1
    <3>2. ASSUME NEW r \in retained, Channel[r[2]] # Channel[m] PROVE r \in retained'
      BY <2>2, <2>3, <3>2
    <3>3. <<Channel[m], m>> \in retained'
      BY <2>2
    <3>4. m \in Standing'
      BY <3>3 DEF Standing
    <3>. QED BY <3>1, <3>2, <3>4 DEF Standing
  <2>5. \A q \in Standing : Channel[q] = Channel[m] => q.nr <= m.nr
    <3>1. ASSUME NEW q \in Standing, Channel[q] = Channel[m] PROVE q.nr <= m.nr
      <4>1. PICK r \in retained : q = r[2]
        BY DEF Standing
      <4>2. q \in Requests /\ q.unit = m.unit
        BY <1>1, <2>1, <2>3, <3>1, <4>1, ChannelsDistinct
      <4>. QED BY <4>1, <4>2 DEF Inv, RetainedFirst, m
    <3>. QED BY <3>1
  <2>6. Report(m) => copies[m] > 0
    BY <2>2 DEF Inv, RespondingStored, m
  <2>7. acked' \in {acked, acked \cup ({m} \cap Reports)}
    BY <1>3, <2>2 DEF Return, m
  <2>8. Promised!Answer(m)
    BY <1>1, <1>3, <2>2, <2>4, <2>5, <2>6, <2>7
       DEF Promised!Answer, Promised!MayAcknowledge, Channel
  <2>. QED BY <1>1, <2>8 DEF Promised!Next
<1>. QED BY <1>4, <1>5, <1>6, <1>7, <1>8 DEF Handle

\* Queue, connection and process are not in sight.
LEMMA PromisedHidden ==
  ASSUME Inv,
         \/ \E u \in Units : Repeat(u)
         \/ Take \/ Connect \/ Subscribe \/ SubscribeFails \/ LinkLost
         \/ Greet \/ GreetFails \/ InitializeDatabase \/ Crash \/ Restart \/ UNCHANGED vars
  PROVE  UNCHANGED Promised!vars
<1>1. UNCHANGED <<current, effects>>
  BY DEF Repeat, Send, Take, Connect, Subscribe, SubscribeFails, LinkLost, Greet, GreetFails,
         InitializeDatabase, Crash, Die, Restart, vars
<1>. QED BY <1>1 DEF effects, Promised!vars, Asked, Standing

\* The service between units, broker and database implements RoadsideRequests,
\* for any units, plans, queue lengths and number of faults.
THEOREM ImplementsRequestsHolds == Spec => ImplementsRequests
<1>1. Inv /\ [Next]_vars => [Promised!Next]_(Promised!vars)
  <2>. SUFFICES ASSUME Inv, [Next]_vars
                PROVE  Promised!Next \/ UNCHANGED Promised!vars
    OBVIOUS
  <2>. QED BY PromisedAsk, PromisedHandle, PromisedHidden DEF Next
<1>. QED BY Invariance, PromisedInit, <1>1, PTL DEF Spec, ImplementsRequests, Promised!Spec

\* Whatever identifier a unit has, its requests match one of the filters the
\* service subscribes to, so that each is queued while the subscription lives.
THEOREM RequestsSubscribed ==
  ASSUME NEW m \in Requests
  PROVE  Matches(AccidentFilter(AccidentSubTopics[Kind(m)]), Topic(m))
<1>1. Kind(m) \in {2, 3, 4}
  BY CaseIsKind
<1>2. /\ AccidentSubTopics[2] = <<"rsu", "AccidentReport", "ID">>
      /\ AccidentSubTopics[3] = <<"rsu", "Requests", "Directions", "ID">>
      /\ AccidentSubTopics[4] = <<"rsu", "Requests", "AdvancedDirections", "ID">>
  BY DEF AccidentSubTopics
<1>3. CASE Kind(m) = 2
  <2>. DEFINE filter == <<"rsu", "AccidentReport", "+">>
              topic == <<"rsu", "AccidentReport", m.unit>>
  <2>1. AccidentFilter(AccidentSubTopics[2]) = filter /\ Topic(m) = topic
    BY <1>2, <1>3 DEF AccidentFilter, Topic
  <2>2. /\ Len(topic) = Len(filter) /\ DOMAIN filter = 1..3
        /\ \A i \in 1..3 : filter[i] \in {topic[i], "+", "#"}
    OBVIOUS
  <2>. QED BY <1>3, <2>1, <2>2 DEF Matches
<1>4. CASE Kind(m) = 3
  <2>. DEFINE filter == <<"rsu", "Requests", "Directions", "+">>
              topic == <<"rsu", "Requests", "Directions", m.unit>>
  <2>1. AccidentFilter(AccidentSubTopics[3]) = filter /\ Topic(m) = topic
    BY <1>2, <1>4 DEF AccidentFilter, Topic
  <2>2. /\ Len(topic) = Len(filter) /\ DOMAIN filter = 1..4
        /\ \A i \in 1..4 : filter[i] \in {topic[i], "+", "#"}
    OBVIOUS
  <2>. QED BY <1>4, <2>1, <2>2 DEF Matches
<1>5. CASE Kind(m) = 4
  <2>. DEFINE filter == <<"rsu", "Requests", "AdvancedDirections", "+">>
              topic == <<"rsu", "Requests", "AdvancedDirections", m.unit>>
  <2>1. AccidentFilter(AccidentSubTopics[4]) = filter /\ Topic(m) = topic
    BY <1>2, <1>5 DEF AccidentFilter, Topic
  <2>2. /\ Len(topic) = Len(filter) /\ DOMAIN filter = 1..4
        /\ \A i \in 1..4 : filter[i] \in {topic[i], "+", "#"}
    OBVIOUS
  <2>. QED BY <1>5, <2>1, <2>2 DEF Matches
<1>. QED BY <1>1, <1>3, <1>4, <1>5
=============================================================================
