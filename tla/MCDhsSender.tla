---------------------------- MODULE MCDhsSender ----------------------------
(* Instance of DhsSender for TLC. *)
EXTENDS DhsSender
=============================================================================
