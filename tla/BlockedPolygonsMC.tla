------------------------- MODULE BlockedPolygonsMC -------------------------
(***************************************************************************)
(* Small instances of BlockedPolygons for TLC.                             *)
(***************************************************************************)
EXTENDS BlockedPolygons, TLC

\* In the middle of the map, and at its edge, where the square does not fit.
MiddleAndEdge == {[lon |-> 0, lat |-> 0], [lon |-> 3, lat |-> 0]}

AccidentSymmetry == Permutations(Accidents)
=============================================================================
