------------------------ MODULE IotMessagePathProofs ------------------------
(***************************************************************************)
(* The safety properties of IotMessagePath, for any number of reports, any *)
(* time and any number of faults.                                          *)
(***************************************************************************)
EXTENDS IotMessagePath, TLAPS

\* What is under way was taken by a service with the handler, which keeps it
\* until the Worker is stopped; the broker has what is in flight, each report
\* once.
Flow ==
  /\ link = "subscribed" => host # "new"
  /\ host # "new" /\ ~handler => Ending
  /\ \A m \in Reports : stage[m] \notin {"unsent", "missed"} => host # "new"
  /\ \A m \in Reports : m > sent => stage[m] = "unsent"
  /\ \A i \in DOMAIN queue : stage[queue[i]] = "inFlight"
  /\ \A i, j \in DOMAIN queue : queue[i] = queue[j] => i = j

Counted == \A m \in Reports : writes[m] = IF stage[m] = "written" THEN 1 ELSE 0

Stamped ==
  /\ \A m \in Reports : stamp[m] <= clock
  /\ \A p \in after :
       /\ p[1] # p[2] /\ stage[p[1]] = "written"
       /\ stage[p[2]] \notin {"unsent", "missed", "inFlight"}

Inv == TypeOK /\ TakenUntilStopped /\ Flow /\ Counted /\ Stamped /\ LaterShows

\* What the provider no longer gives and the service refuses belongs to the end.
LEMMA EndingOrder == (Disposed \/ Cancelled \/ Closed) => Ending
BY DEF Disposed, Cancelled, Closed, Ending

\* The initial state satisfies the invariant.
LEMMA InvInit == Init => Inv
<1>. SUFFICES ASSUME Init PROVE Inv
  OBVIOUS
<1>1. TypeOK
  <2>1. queue \in Seq(Reports)
    BY DEF Init
  <2>2. stage \in [Reports -> Stages] /\ stamp \in [Reports -> 0..MaxClock] /\ writes \in [Reports -> Nat]
    BY BoundsAssumption DEF Init, Stages
  <2>3. \A m \in Reports : stage[m] # "checked"
    BY DEF Init
  <2>4. sent \in 0..Count /\ delivering \in 0..Count /\ clock \in 0..MaxClock /\ faults \in 0..MaxFaults
    BY CountAssumption, BoundsAssumption DEF Init
  <2>. QED BY <2>1, <2>2, <2>3, <2>4 DEF Init, TypeOK
<1>2. Flow
  BY DEF Init, Flow
<1>3. TakenUntilStopped /\ Counted
  BY DEF Init, TakenUntilStopped, Counted
<1>4. Stamped /\ LaterShows
  BY DEF Init, Stamped, LaterShows
<1>. QED BY <1>1, <1>2, <1>3, <1>4 DEF Inv

\* One report goes on, behind the broker.
LEMMA GoStep ==
  ASSUME Inv, NEW m \in Reports, NEW from, NEW to \in Stages, Go(m, from, to),
         from \notin {"unsent", "missed", "inFlight", "written"},
         to \notin {"unsent", "missed", "inFlight", "checked"},
         to \in {"dropped", "refused", "faulted"} => Ending,
         to = "stamped" => stamp' = [stamp EXCEPT ![m] = clock],
         to # "stamped" => stamp' = stamp /\ (from = "stamped" \/ to # "written"),
         writes' = [x \in Reports |-> IF x = m /\ to = "written" THEN writes[x] + 1 ELSE writes[x]],
         delivering' \in 0..Count,
         \A x \in Reports : stage[x] = "checked" /\ x # m => x = delivering',
         faults' \in 0..MaxFaults,
         UNCHANGED <<sent, queue, acked, lifetime, link, clock, after>>
  PROVE  Inv'
<1>1. stage \in [Reports -> Stages] /\ stage[m] = from /\ stage' = [stage EXCEPT ![m] = to]
  BY DEF Inv, TypeOK, Go
<1>2. stage' \in [Reports -> Stages] /\ stage'[m] = to /\ \A x \in Reports : x # m => stage'[x] = stage[x]
  BY <1>1
<1>3. stamp' \in [Reports -> 0..MaxClock] /\ \A x \in Reports : x # m => stamp'[x] = stamp[x]
  BY DEF Inv, TypeOK
<1>4. writes' \in [Reports -> Nat]
  BY DEF Inv, TypeOK
<1>5. TypeOK'
  BY <1>2, <1>3, <1>4 DEF Inv, TypeOK, lifetime
<1>6. Ending' <=> Ending
  BY DEF lifetime, Ending, Closed, Disposed, Cancelled
<1>7. TakenUntilStopped'
  BY <1>2, <1>6 DEF Inv, TakenUntilStopped
<1>8. Flow'
  <2>1. \A i \in DOMAIN queue : queue[i] \in Reports /\ stage'[queue[i]] = "inFlight"
    BY <1>1, <1>2 DEF Inv, TypeOK, Flow
  <2>. QED BY <1>1, <1>2, <1>6, <2>1 DEF Inv, Flow, lifetime
<1>9. Counted'
  BY <1>1, <1>2 DEF Inv, TypeOK, Counted
<1>10. stamp'[m] <= clock /\ (to # "stamped" => stamp'[m] = stamp[m])
  BY <1>3 DEF Inv, TypeOK, Stamped
<1>11. \A p \in after : p[1] \in Reports /\ p[2] \in Reports /\ p[1] # m
  BY <1>1 DEF Inv, TypeOK, Stamped
<1>12. Stamped'
  BY <1>2, <1>3, <1>10, <1>11 DEF Inv, Stamped
<1>13. LaterShows'
  <2>. SUFFICES ASSUME NEW p \in after, stage'[p[2]] \in {"stamped", "written"}
                PROVE  p[1] # p[2] /\ stamp'[p[1]] <= stamp'[p[2]]
    BY DEF LaterShows
  <2>1. p[1] # p[2] /\ stage[p[1]] = "written" /\ stamp'[p[1]] = stamp[p[1]] /\ stamp[p[1]] <= clock
    BY <1>3, <1>11 DEF Inv, Stamped
  <2>2. CASE p[2] # m
    BY <1>2, <1>3, <1>11, <2>1, <2>2 DEF Inv, LaterShows
  <2>3. CASE p[2] = m /\ to = "stamped"
    BY <2>1, <2>3 DEF Inv, TypeOK
  <2>4. CASE p[2] = m /\ to # "stamped"
    <3>1. from = "stamped" /\ stamp' = stamp
      BY <1>2, <2>4
    <3>. QED BY <1>1, <2>1, <2>4, <3>1 DEF Inv, LaterShows
  <2>. QED BY <2>2, <2>3, <2>4
<1>. QED BY <1>5, <1>7, <1>8, <1>9, <1>12, <1>13 DEF Inv

\* A report is in one handler's hands.
LEMMA HandleStep ==
  ASSUME Inv, NEW m \in Reports, Dispatch(m) \/ Handle(m)
  PROVE  Inv'
<1>1. \A x \in Reports : stage[x] = "checked" => x = delivering
  BY DEF Inv, TypeOK
<1>2. delivering \in 0..Count /\ 0 \in 0..Count /\ faults \in 0..MaxFaults
      /\ (faults + 1 \in 0..MaxFaults \/ ~(faults < MaxFaults))
  BY BoundsAssumption, CountAssumption DEF Inv, TypeOK
<1>3. writes = [x \in Reports |-> writes[x]]
  BY DEF Inv, TypeOK
<1>4. /\ Closed \/ Cancelled => Ending
      /\ stage[m] \notin {"unsent", "missed"} /\ ~handler => Ending
  BY EndingOrder DEF Inv, Flow
<1>5. CASE Dispatch(m)
  <2>1. PICK to \in {"refused", "queued", "dropped"} :
          /\ Go(m, "checked", to)
          /\ to # "queued" => Ending
          /\ delivering' \in {0, delivering}
    BY <1>4, <1>5 DEF Dispatch, Go
  <2>2. \A x \in Reports : stage[x] = "checked" /\ x # m => x = delivering'
    BY <1>1, <2>1 DEF Go
  <2>3. UNCHANGED <<sent, queue, acked, lifetime, link, clock, stamp, writes, after, faults>>
    BY <1>5 DEF Dispatch
  <2>. QED BY <1>2, <1>3, <2>1, <2>2, <2>3, GoStep DEF Stages
<1>6. CASE Begin(m)
  <2>1. PICK to \in {"begun", "faulted"} :
          Go(m, "queued", to) /\ (to # "begun" => Ending)
    BY <1>4, <1>6 DEF Begin, Go
  <2>2. UNCHANGED <<broker, lifetime, link, clock, stamp, writes, after, faults>>
    BY <1>6 DEF Begin
  <2>. QED BY <1>1, <1>2, <1>3, <2>1, <2>2, GoStep DEF Stages, broker
<1>7. CASE Stamp(m)
  BY <1>1, <1>2, <1>3, <1>7, GoStep DEF Stamp, Stages, broker
<1>8. CASE GiveUp(m)
  <2>1. PICK to \in {"unusable", "faulted"} :
          Go(m, "begun", to) /\ (to # "unusable" => Ending)
    BY <1>4, <1>8 DEF GiveUp
  <2>2. UNCHANGED <<broker, lifetime, link, clock, stamp, writes, after, faults>>
    BY <1>8 DEF GiveUp
  <2>. QED BY <1>1, <1>2, <1>3, <2>1, <2>2, GoStep DEF Stages, broker
<1>9. CASE Write(m)
  <2>1. writes' = [x \in Reports |-> IF x = m THEN writes[x] + 1 ELSE writes[x]]
    BY <1>3, <1>9 DEF Write
  <2>2. Go(m, "stamped", "written")
        /\ UNCHANGED <<broker, lifetime, link, clock, stamp, after, faults>>
    BY <1>9 DEF Write
  <2>. QED BY <1>1, <1>2, <2>1, <2>2, GoStep DEF Stages, broker
<1>10. CASE WriteFails(m)
  BY <1>1, <1>2, <1>3, <1>10, GoStep DEF WriteFails, Fault, Stages, broker
<1>. QED BY <1>5, <1>6, <1>7, <1>8, <1>9, <1>10 DEF Handle

\* The connection comes, time passes, a report is acknowledged, the host goes on.
LEMMA HostStep ==
  ASSUME Inv,
         \/ Connect \/ Ack \/ Tick
         \/ Attach \/ Started \/ StartFails \/ Stop \/ Close \/ Dispose \/ Cancel
  PROVE  Inv'
<1>1. /\ UNCHANGED <<sent, queue, stage, stamp, writes, after, faults>>
      /\ delivering' \in {delivering, 0} /\ (delivering' # delivering => Ack)
      /\ acked' \subseteq acked \cup {delivering} /\ (acked' # acked => Ack)
      /\ link' \in {link, "subscribed"}
  BY DEF Connect, Ack, Acknowledge, Attach, Started, StartFails, Stop, Close, Dispose, Cancel,
         Advance, Tick, broker
<1>2. Ack => delivering \in Reports /\ stage[delivering] # "checked"
  BY DEF Ack, Inv, TypeOK, Reports
<1>3. clock' \in 0..MaxClock /\ clock <= clock'
  BY BoundsAssumption
     DEF Connect, Ack, Attach, Started, StartFails, Stop, Close, Dispose, Cancel, Advance, Tick,
         Inv, TypeOK
<1>4. /\ host' \in {host, "attached", "started", "failed", "detached", "closed", "disposed",
                    "cancelled"}
      /\ host' = "new" => host = "new"
      /\ handler' \in BOOLEAN
  BY DEF Connect, Ack, Attach, Started, StartFails, Stop, Close, Dispose, Cancel, Advance, Tick,
         lifetime, Inv, TypeOK
<1>5. TypeOK'
  <2>1. delivering' \in 0..Count /\ acked' \subseteq Reports
    BY <1>1, <1>2, CountAssumption DEF Inv, TypeOK
  <2>2. \A m \in Reports : stage'[m] = "checked" => m = delivering'
    BY <1>1, <1>2 DEF Inv, TypeOK
  <2>3. link' \in {"down", "subscribed"}
    BY <1>1 DEF Inv, TypeOK
  <2>. QED BY <1>1, <1>3, <1>4, <2>1, <2>2, <2>3 DEF Inv, TypeOK
<1>6. (Ending => Ending') /\ (host' # "new" /\ ~handler' => Ending')
  BY DEF Connect, Ack, Attach, Started, StartFails, Stop, Close, Dispose, Cancel, Advance, Tick,
         lifetime, Ending, Closed, Disposed, Cancelled, Inv, Flow
<1>7. link' = "subscribed" => host' # "new"
  BY <1>1, <1>4 DEF Inv, Flow, Connect, Ack, Attach, Started, StartFails, Stop, Close, Dispose,
                    Cancel, Advance, Tick
<1>8. TakenUntilStopped'
  BY <1>1, <1>6 DEF Inv, TakenUntilStopped
<1>9. Flow'
  BY <1>1, <1>4, <1>6, <1>7 DEF Inv, Flow
<1>10. Counted' /\ LaterShows'
  BY <1>1 DEF Inv, Counted, LaterShows
<1>11. Stamped'
  BY <1>1, <1>3 DEF Inv, TypeOK, Stamped
<1>. QED BY <1>5, <1>8, <1>9, <1>10, <1>11 DEF Inv

\* A report is published.
LEMMA SendStep ==
  ASSUME Inv, Send
  PROVE  Inv'
<1>. DEFINE m == sent + 1
<1>1. m \in Reports /\ sent \in Nat /\ m > sent /\ stage[m] = "unsent"
  BY CountAssumption DEF Inv, TypeOK, Send, Reports, Flow
<1>2. PICK to \in {"inFlight", "missed"} :
        /\ stage' = [stage EXCEPT ![m] = to]
        /\ to = "inFlight" => link = "subscribed" /\ queue' = Append(queue, m)
        /\ to = "missed" => queue' = queue
  BY DEF Send, Go
<1>. HIDE DEF m
<1>3. /\ sent' = sent + 1
      /\ UNCHANGED <<lifetime, link, delivering, acked, clock, stamp, writes, after, faults>>
  BY DEF Send
<1>4. stage' \in [Reports -> Stages] /\ stage'[m] = to /\ \A x \in Reports : x # m => stage'[x] = stage[x]
  BY <1>1, <1>2 DEF Inv, TypeOK, Stages
<1>5. /\ queue \in Seq(Reports) /\ DOMAIN queue = 1..Len(queue) /\ Len(queue) \in Nat
      /\ \A i \in DOMAIN queue : queue[i] \in Reports /\ queue[i] # m
  BY <1>1 DEF Inv, TypeOK, Flow
<1>6. queue' \in Seq(Reports)
  BY <1>1, <1>2, <1>5
<1>7. TypeOK'
  <2>1. sent' \in 0..Count
    BY <1>3, CountAssumption DEF Inv, TypeOK, Send
  <2>. QED BY <1>1, <1>3, <1>4, <1>6, <2>1 DEF Inv, TypeOK, lifetime
<1>8. (Ending' <=> Ending) /\ host' = host /\ handler' = handler
  BY <1>3 DEF lifetime, Ending, Closed, Disposed, Cancelled
<1>9. TakenUntilStopped'
  BY <1>4, <1>8 DEF Inv, TakenUntilStopped
<1>10. Flow'
  <2>1. \A i \in DOMAIN queue' :
          \/ i \in DOMAIN queue /\ queue'[i] = queue[i]
          \/ to = "inFlight" /\ i = Len(queue) + 1 /\ queue'[i] = m
    BY <1>2, <1>5
  <2>2. \A i \in DOMAIN queue' : stage'[queue'[i]] = "inFlight"
    BY <1>4, <1>5, <2>1 DEF Inv, Flow
  <2>3. \A i, j \in DOMAIN queue' : queue'[i] = queue'[j] => i = j
    BY <1>5, <2>1 DEF Inv, Flow
  <2>4. \A x \in Reports : x > sent' => stage'[x] = "unsent"
    BY <1>1, <1>3, <1>4 DEF Inv, Flow, Reports, m
  <2>5. \A x \in Reports : stage'[x] \notin {"unsent", "missed"} => host # "new"
    BY <1>2, <1>4 DEF Inv, Flow
  <2>. QED BY <1>3, <1>8, <2>2, <2>3, <2>4, <2>5 DEF Inv, Flow
<1>11. Counted'
  BY <1>1, <1>3, <1>4 DEF Inv, Counted
<1>12. \A p \in after : p[1] \in Reports /\ p[2] \in Reports /\ p[1] # m /\ p[2] # m
  BY <1>1 DEF Inv, TypeOK, Stamped
<1>13. Stamped' /\ LaterShows'
  BY <1>3, <1>4, <1>12 DEF Inv, Stamped, LaterShows
<1>. QED BY <1>7, <1>9, <1>10, <1>11, <1>13 DEF Inv

\* The connection goes, with what waited for it; a call goes on.
LEMMA LostStep ==
  ASSUME Inv, LinkLost \/ Leave
  PROVE  Inv'
<1>1. /\ link' = "down" /\ queue' = <<>> /\ delivering' = delivering
      /\ stage' = [m \in Reports |-> IF m \in Waiting(queue) THEN "lost" ELSE stage[m]]
      /\ UNCHANGED <<sent, acked, handler, clock, stamp, writes, after>>
      /\ host' \in {host, "gone"} /\ (host' # host => host = "cancelled")
  BY DEF LinkLost, Leave, Disconnected, Advance, lifetime
<1>2. faults' \in 0..MaxFaults
  BY BoundsAssumption DEF LinkLost, Leave, Advance, Fault, Inv, TypeOK
<1>3. \A m \in Waiting(queue) : m \in Reports /\ stage[m] = "inFlight"
  BY DEF Waiting, Inv, TypeOK, Flow
<1>4. /\ stage' \in [Reports -> Stages]
      /\ \A m \in Reports : \/ stage'[m] = stage[m]
                            \/ stage'[m] = "lost" /\ stage[m] = "inFlight"
  BY <1>1, <1>3 DEF Inv, TypeOK, Stages
<1>5. TypeOK'
  BY <1>1, <1>2, <1>4 DEF Inv, TypeOK
<1>6. Ending => Ending'
  BY <1>1 DEF Ending, Closed, Disposed, Cancelled
<1>7. TakenUntilStopped' /\ Flow'
  <2>1. \A m \in Reports : m > sent => stage'[m] = "unsent"
    BY <1>4 DEF Inv, Flow
  <2>. QED BY <1>1, <1>4, <1>6, <2>1 DEF Inv, TakenUntilStopped, Flow
<1>8. Counted'
  BY <1>1, <1>4 DEF Inv, Counted
<1>9. Stamped' /\ LaterShows'
  <2>1. \A p \in after : p[1] \in Reports /\ p[2] \in Reports
    BY DEF Inv, TypeOK
  <2>. QED BY <1>1, <1>4, <2>1 DEF Inv, Stamped, LaterShows
<1>. QED BY <1>5, <1>7, <1>8, <1>9 DEF Inv

\* HandleMessageAsync is called.
LEMMA DeliverStep ==
  ASSUME Inv, Deliver
  PROVE  Inv'
<1>. DEFINE m == Head(queue)
<1>1. /\ queue \in Seq(Reports) /\ queue # <<>> /\ queue' = Tail(queue)
      /\ delivering = 0 /\ delivering' = m
      /\ UNCHANGED <<sent, acked, lifetime, link, clock, stamp, writes, faults>>
  BY DEF Inv, TypeOK, Deliver
<1>2. /\ m \in Reports /\ queue' \in Seq(Reports) /\ m = queue[1] /\ 1 \in DOMAIN queue
      /\ \A i \in DOMAIN queue' :
           i \in Nat /\ i + 1 \in DOMAIN queue /\ i + 1 # 1 /\ queue'[i] = queue[i + 1]
  BY <1>1
<1>3. PICK to \in {"dropped", "checked"} :
        /\ stage[m] = "inFlight" /\ stage' = [stage EXCEPT ![m] = to]
        /\ to = "dropped" => Ending
  BY EndingOrder DEF Deliver, Go
<1>4. after' = after \cup {n \in Reports : stage[n] = "written"} \X {m}
  BY DEF Deliver
<1>. HIDE DEF m
<1>5. stage' \in [Reports -> Stages] /\ stage'[m] = to /\ \A x \in Reports : x # m => stage'[x] = stage[x]
  BY <1>2, <1>3 DEF Inv, TypeOK, Stages
<1>6. \A p \in after' : \/ p \in after
                        \/ p[1] \in Reports /\ stage[p[1]] = "written" /\ p[2] = m
  BY <1>4
<1>7. TypeOK'
  <2>1. \A x \in Reports : stage[x] = "checked" => x = 0
    BY <1>1 DEF Inv, TypeOK
  <2>2. \A x \in Reports : x # 0
    BY CountAssumption DEF Reports
  <2>3. delivering' \in 0..Count
    BY <1>1, <1>2, CountAssumption DEF Reports
  <2>4. after' \subseteq Reports \X Reports
    BY <1>2, <1>4 DEF Inv, TypeOK
  <2>. QED BY <1>1, <1>2, <1>5, <2>1, <2>2, <2>3, <2>4 DEF Inv, TypeOK, lifetime
<1>8. (Ending' <=> Ending) /\ host' = host /\ handler' = handler
  BY <1>1 DEF lifetime, Ending, Closed, Disposed, Cancelled
<1>9. TakenUntilStopped'
  BY <1>3, <1>5, <1>8 DEF Inv, TakenUntilStopped
<1>10. Flow'
  <2>1. \A i \in DOMAIN queue' : queue'[i] \in Reports /\ queue'[i] # m
    BY <1>1, <1>2 DEF Inv, Flow
  <2>2. \A i \in DOMAIN queue' : stage'[queue'[i]] = "inFlight"
    BY <1>2, <1>5, <2>1 DEF Inv, Flow
  <2>3. \A i, j \in DOMAIN queue' : queue'[i] = queue'[j] => i = j
    BY <1>2 DEF Inv, Flow
  <2>4. \A x \in Reports : x > sent' => stage'[x] = "unsent"
    BY <1>1, <1>2, <1>3, <1>5 DEF Inv, Flow
  <2>5. \A x \in Reports : stage'[x] \notin {"unsent", "missed"} => host # "new"
    BY <1>2, <1>3, <1>5 DEF Inv, Flow
  <2>. QED BY <1>1, <1>8, <2>2, <2>3, <2>4, <2>5 DEF Inv, Flow
<1>11. Counted'
  BY <1>1, <1>2, <1>3, <1>5 DEF Inv, Counted
<1>12. \A p \in after : p[1] \in Reports /\ p[2] \in Reports /\ p[1] # m /\ p[2] # m
  BY <1>3 DEF Inv, TypeOK, Stamped
<1>13. Stamped'
  BY <1>1, <1>2, <1>3, <1>5, <1>6, <1>12 DEF Inv, Stamped
<1>14. LaterShows'
  BY <1>1, <1>5, <1>6, <1>12 DEF Inv, LaterShows
<1>. QED BY <1>7, <1>9, <1>10, <1>11, <1>13, <1>14 DEF Inv

\* The invariant holds in every reachable state.
THEOREM Invariance == Spec => []Inv
<1>1. Inv /\ [Next]_vars => Inv'
  <2>. SUFFICES ASSUME Inv, [Next]_vars PROVE Inv'
    OBVIOUS
  <2>1. CASE UNCHANGED vars
    BY <2>1 DEF Inv, TypeOK, TakenUntilStopped, Flow, Counted, Stamped, LaterShows, Ending,
                Closed, Disposed, Cancelled, lifetime, vars, broker
  <2>. QED BY <2>1, HandleStep, HostStep, SendStep, LostStep, DeliverStep DEF Next
<1>. QED BY InvInit, <1>1, PTL DEF Spec

\* Where a report is once HandleMessageAsync has let go of it unrefused.
Past == {"queued", "begun", "stamped", "written", "writeFailed", "unusable", "dropped", "faulted"}

\* What is delivered is looked at or past it, what is acknowledged past it.
AckInv ==
  /\ delivering # 0 => stage[delivering] \in Past \cup {"checked"}
  /\ \A m \in acked : stage[m] \in Past

\* A report that HandleMessageAsync has let go of stays so: neither the handler
\* nor the connection takes it back, and one that is looked at is the one that
\* is being delivered.
LEMMA PastStays ==
  ASSUME Inv, [Next]_vars
  PROVE  \A m \in Reports : stage[m] \in Past => stage'[m] \in Past
<1>. SUFFICES ASSUME NEW m \in Reports, stage[m] \in Past
              PROVE  stage'[m] \in Past
  OBVIOUS
<1>. USE DEF Past
<1>1. stage \in [Reports -> Stages]
  BY DEF Inv, TypeOK
<1>2. CASE UNCHANGED vars
  BY <1>2 DEF vars
<1>3. CASE Send
  BY <1>1, <1>3 DEF Send, Go
<1>4. CASE \/ Connect \/ Ack \/ Tick
           \/ Attach \/ Started \/ StartFails \/ Stop \/ Close \/ Dispose \/ Cancel
  BY <1>4 DEF Connect, Ack, Tick, Attach, Started, StartFails, Stop, Close, Dispose, Cancel
<1>5. CASE LinkLost \/ Leave
  <2>1. stage' = [x \in Reports |-> IF x \in Waiting(queue) THEN "lost" ELSE stage[x]]
    BY <1>5 DEF LinkLost, Leave, Disconnected
  <2>2. m \notin Waiting(queue)
    BY DEF Waiting, Inv, Flow
  <2>. QED BY <2>1, <2>2
<1>6. CASE Deliver
  BY <1>1, <1>6 DEF Deliver, Go
<1>7. ASSUME NEW x \in Reports, Dispatch(x) PROVE stage'[m] \in Past
  BY <1>1, <1>7 DEF Dispatch, Go
<1>8. ASSUME NEW x \in Reports, Handle(x) PROVE stage'[m] \in Past
  BY <1>1, <1>8 DEF Handle, Begin, Stamp, GiveUp, Write, WriteFails, Go
<1>. QED BY <1>2, <1>3, <1>4, <1>5, <1>6, <1>7, <1>8 DEF Next

\* The next step keeps what is said of delivered and acknowledged reports.
LEMMA AckStep ==
  ASSUME Inv, AckInv, [Next]_vars
  PROVE  AckInv'
<1>1. stage \in [Reports -> Stages] /\ acked \subseteq Reports /\ delivering \in 0..Count
  BY DEF Inv, TypeOK
<1>2. acked' \subseteq acked \/ Ack
  BY DEF Next, vars, broker, Send, Connect, LinkLost, Deliver, Dispatch, Handle, Begin, Stamp,
         GiveUp, Write, WriteFails, Attach, Started, StartFails, Stop, Close, Dispose, Cancel, Leave,
         Disconnected, Advance, Tick
<1>3. \A m \in acked' : stage'[m] \in Past
  <2>1. CASE acked' \subseteq acked
    BY <1>1, <2>1, PastStays DEF AckInv
  <2>2. CASE Ack
    <3>1. stage' = stage /\ stage[delivering] \in Past /\ acked' \subseteq acked \cup {delivering}
      BY <2>2 DEF Ack, Acknowledge, AckInv
    <3>. QED BY <1>1, <3>1 DEF AckInv
  <2>. QED BY <1>2, <2>1, <2>2
<1>4. ASSUME delivering' # 0 PROVE stage'[delivering'] \in Past \cup {"checked"}
  <2>1. CASE Deliver
    <3>1. Head(queue) \in Reports
      BY <2>1 DEF Deliver, Inv, TypeOK
    <3>. QED BY <1>1, <2>1, <3>1 DEF Deliver, Go, Past, Stages
  <2>2. CASE \E x \in Reports : Dispatch(x)
    <3>1. PICK x \in Reports : Dispatch(x)
      BY <2>2
    <3>2. delivering' = delivering /\ stage[x] = "checked"
          /\ \E to \in {"queued", "dropped"} : stage' = [stage EXCEPT ![x] = to]
      BY <1>4, <3>1 DEF Dispatch, Go
    <3>3. x = delivering
      BY <3>2 DEF Inv, TypeOK
    <3>. QED BY <1>1, <3>2, <3>3 DEF Past
  <2>3. CASE delivering' = delivering /\ ~Deliver /\ ~(\E x \in Reports : Dispatch(x))
    <3>1. delivering \in Reports
      BY <1>1, <1>4, <2>3 DEF Reports
    <3>2. CASE stage[delivering] \in Past
      BY <2>3, <3>1, <3>2, PastStays
    <3>3. CASE stage[delivering] = "checked"
      <4>1. CASE LinkLost \/ Leave
        <5>1. delivering \notin Waiting(queue)
          BY <3>3 DEF Waiting, Inv, Flow
        <5>. QED BY <2>3, <3>1, <3>3, <4>1, <5>1 DEF LinkLost, Leave, Disconnected
      <4>2. CASE Send
        BY <1>1, <2>3, <3>1, <3>3, <4>2 DEF Send, Go, Past
      <4>3. ASSUME NEW x \in Reports, Handle(x) PROVE stage'[delivering] = "checked"
        BY <1>1, <3>1, <3>3, <4>3 DEF Handle, Begin, Stamp, GiveUp, Write, WriteFails, Go
      <4>4. CASE \/ Connect \/ Ack \/ Tick \/ UNCHANGED vars
                 \/ Attach \/ Started \/ StartFails \/ Stop \/ Close \/ Dispose \/ Cancel
        BY <2>3, <3>3, <4>4
           DEF Connect, Ack, Tick, vars, Attach, Started, StartFails, Stop, Close, Dispose, Cancel
      <4>. QED BY <2>3, <4>1, <4>2, <4>3, <4>4 DEF Next
    <3>. QED BY <1>4, <2>3, <3>2, <3>3 DEF AckInv
  <2>4. delivering' \in {0, delivering} \/ Deliver
    BY DEF Next, vars, broker, Send, Connect, LinkLost, Ack, Dispatch, Handle, Begin, Stamp,
           GiveUp, Write, WriteFails, Attach, Started, StartFails, Stop, Close, Dispose, Cancel,
           Leave, Disconnected, Advance, Tick
  <2>. QED BY <1>4, <2>1, <2>2, <2>3, <2>4
<1>. QED BY <1>3, <1>4 DEF AckInv

\* What the broker has forgotten is in the Worker's hands, or came to its end
\* there, and was discarded only after the Worker was stopped or, when its start
\* had failed, the provider was closed.
THEOREM AckedTakenHolds == Spec => []AckedTaken
<1>1. Init => AckInv
  BY DEF Init, AckInv
<1>2. Inv /\ AckInv => AckedTaken
  BY DEF Inv, TypeOK, TakenUntilStopped, AckInv, Past, AckedTaken
<1>3. Inv /\ AckInv /\ [Next]_vars => AckInv'
  BY AckStep
<1>. QED BY Invariance, <1>1, <1>2, <1>3, PTL DEF Spec

\* Types, and one call of HandleMessageAsync at a time.
THEOREM TypeCorrect == Spec => []TypeOK
BY Invariance, PTL DEF Inv

\* Nothing that came in is discarded before the Worker is stopped or the provider
\* closed: a failed start discards nothing by itself.
THEOREM TakenUntilStoppedHolds == Spec => []TakenUntilStopped
BY Invariance, PTL DEF Inv

\* A report has one point at most.
THEOREM WrittenOnceHolds == Spec => []WrittenOnce
<1>1. Inv => WrittenOnce
  BY DEF Inv, Counted, WrittenOnce
<1>. QED BY Invariance, <1>1, PTL

\* A report delivered after an earlier one was written has no earlier time.
THEOREM LaterShowsHolds == Spec => []LaterShows
BY Invariance, PTL DEF Inv
=============================================================================
