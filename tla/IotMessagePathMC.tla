-------------------------- MODULE IotMessagePathMC --------------------------
(***************************************************************************)
(* Three reports, of which the second is no JSON: two in handlers at once, *)
(* or one in a handler, one in HandleMessageAsync and one at the broker.   *)
(***************************************************************************)
EXTENDS IotMessagePath

MCUsable == {1, 3}
=============================================================================
