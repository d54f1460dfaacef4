-------------------------- MODULE AccidentRegistry --------------------------
(***************************************************************************)
(* What the accident monitor promises of its accidents, whatever the       *)
(* interleaving of HTTP requests, MQTT messages and failures: an accident  *)
(* is registered, resolved and removed in one step each, together with     *)
(* what it blocks; it is resolved for good; and a request that asks what   *)
(* is blocked gets the blockers of one single moment.                      *)
(***************************************************************************)
CONSTANTS
  Accidents,  \* accident identities (Guids)
  Requests    \* the requests that may ask what is blocked

VARIABLES
  status,     \* of each accident: absent, or its AccidentResolvedStatus
  blockers,   \* the accidents that have polygons
  readings    \* what each request was told: nothing yet, or one purpose with one
              \* set of accidents

vars == <<status, blockers, readings>>

Init ==
  /\ status = [a \in Accidents |-> "absent"]
  /\ blockers = {}
  /\ readings = [r \in Requests |-> {}]

Register(a) ==
  /\ status[a] = "absent"
  /\ \E s \in {"Unresolved", "Resolved"} : status' = [status EXCEPT ![a] = s]
  /\ blockers' \in {blockers, blockers \cup {a}}
  /\ UNCHANGED readings

Resolve(a) ==
  /\ status[a] # "absent"
  /\ status' = [status EXCEPT ![a] = "Resolved"]
  /\ UNCHANGED <<blockers, readings>>

Remove(a) ==
  /\ status[a] # "absent"
  /\ status' = [status EXCEPT ![a] = "absent"]
  /\ blockers' = blockers \ {a}
  /\ UNCHANGED readings

InTheWay == {a \in blockers : status[a] = "Unresolved"}

\* A route avoids the unresolved blockers; the overview lists every blocker.
Consult(r) ==
  /\ readings[r] = {}
  /\ readings' \in {[readings EXCEPT ![r] = {told}] :
                      told \in {<<"avoid", InTheWay>>, <<"list", blockers>>}}
  /\ UNCHANGED <<status, blockers>>

Next ==
  \/ \E a \in Accidents : Register(a) \/ Resolve(a) \/ Remove(a)
  \/ \E r \in Requests : Consult(r)

Spec == Init /\ [][Next]_vars
=============================================================================
