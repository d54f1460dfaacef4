------------------------ MODULE MqttClientServiceMC -------------------------
(***************************************************************************)
(* Small instances of MqttClientService for TLC.                           *)
(***************************************************************************)
EXTENDS MqttClientService, TLC

\* The handlers are interchangeable.
HandlerSymmetry == Permutations(Handlers)
=============================================================================
