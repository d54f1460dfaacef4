----------------------- MODULE IotMqttClientServiceMC -----------------------
(***************************************************************************)
(* Small instances of IotMqttClientService for TLC.                        *)
(***************************************************************************)
EXTENDS IotMqttClientService, TLC

\* The handlers are interchangeable: the safety runs identify the states that
\* only a permutation of them separates.
HandlerSymmetry == Permutations(Handlers)
=============================================================================
