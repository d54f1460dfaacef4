-------------------------- MODULE AccidentCommandsMC --------------------------
(***************************************************************************)
(* Small instances of AccidentCommands for TLC.                            *)
(***************************************************************************)
EXTENDS AccidentCommands, TLC

\* Requests are interchangeable until they arrive.
RequestSymmetry == Permutations(Requests)

\* What the service exposes: DeleteAccidentCommand has no sender.
ServiceOps == (Reports \cup Changes \cup Queries) \ {"DeleteAccidentCommand"}
AllOps == Reports \cup Changes \cup Queries
=============================================================================
