------------------------ MODULE AccidentReportingMC ------------------------
(***************************************************************************)
(* Two units: the first reports twice, with a Guid and then without, so    *)
(* that one report and its answer may meet the other's; the second asks    *)
(* for a route round the accidents and then reports, with a Guid, one that *)
(* blocks the way, which the pinned EF Core refuses.  One message of each  *)
(* may wait at the broker beside the one in the service; two things go     *)
(* wrong, so that a fault meets the recovery from another.                 *)
(***************************************************************************)
EXTENDS AccidentReporting

MCUnits == {"u1", "u2"}
MCPlan == [u \in MCUnits |-> IF u = "u1" THEN <<2, 2>> ELSE <<4, 2>>]
MCIdentified == {[unit |-> "u1", nr |-> 1], [unit |-> "u2", nr |-> 2]}
MCBlocking == {[unit |-> "u2", nr |-> 2]}
MCPending == [u \in MCUnits |-> 1]
=============================================================================
