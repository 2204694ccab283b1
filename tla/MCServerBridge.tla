---------------------------- MODULE MCServerBridge ----------------------------
(* Instances of ServerBridge for TLC. *)
EXTENDS ServerBridge
=============================================================================
