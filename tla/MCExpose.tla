------------------------------ MODULE MCExpose ------------------------------
(* Instances of Expose for TLC. *)
EXTENDS Expose
=============================================================================
