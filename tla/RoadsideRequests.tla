-------------------------- MODULE RoadsideRequests --------------------------
(***************************************************************************)
(* What road-side units may rely on, with no broker, session, queue or     *)
(* process in sight: a request is only acted on once it was made; a report *)
(* is stored before it is answered and decided before it is acknowledged;  *)
(* one with a Guid is stored once; and the answer that stands on a channel *)
(* only ever gives way to one to the same or a later request.              *)
(***************************************************************************)
EXTENDS Integers

CONSTANTS
  Requests,  \* records: the unit that makes the request and its number there
  Reports,   \* the requests that report an accident
  Guarded,   \* the reports that carry a Guid
  Channel    \* of each request, where its answer is to be found

VARIABLES
  asked,     \* the requests made so far
  copies,    \* how many accidents were stored for each; 2 is several
  answered,  \* the requests whose answers stand
  acked,     \* the reports acknowledged to their sender
  failed     \* the reports that could not be stored when they were tried

vars == <<asked, copies, answered, acked, failed>>

Init ==
  /\ asked = {} /\ answered = {} /\ acked = {} /\ failed = {}
  /\ copies = [m \in Requests |-> 0]

\* A unit makes its requests in order.
Ask(m) ==
  /\ m \notin asked
  /\ \A q \in Requests : q.unit = m.unit /\ q.nr < m.nr => q \in asked
  /\ asked' = asked \cup {m}
  /\ UNCHANGED <<copies, answered, acked, failed>>

MayAcknowledge(m) == acked' \in {acked, acked \cup ({m} \cap Reports)}

Store(m) ==
  /\ m \in asked \cap Reports
  /\ m \in Guarded => copies[m] = 0
  /\ copies' = [copies EXCEPT ![m] = IF @ = 0 THEN 1 ELSE 2]
  /\ UNCHANGED <<asked, answered, acked, failed>>

Refuse(m) ==
  /\ m \in asked \cap Reports /\ copies[m] = 0
  /\ failed' = failed \cup {m}
  /\ MayAcknowledge(m)
  /\ UNCHANGED <<asked, copies, answered>>

Answer(m) ==
  /\ m \in asked
  /\ m \in Reports => copies[m] > 0
  /\ \A q \in answered : Channel[q] = Channel[m] => q.nr <= m.nr
  /\ answered' = {q \in answered : Channel[q] # Channel[m]} \cup {m}
  /\ MayAcknowledge(m)
  /\ UNCHANGED <<asked, copies, failed>>

Acknowledge(m) ==
  /\ m \in asked
  /\ copies[m] > 0 \/ m \in failed
  /\ MayAcknowledge(m)
  /\ UNCHANGED <<asked, copies, answered, failed>>

Next ==
  \E m \in Requests : Ask(m) \/ Store(m) \/ Refuse(m) \/ Answer(m) \/ Acknowledge(m)

Spec == Init /\ [][Next]_vars
=============================================================================
