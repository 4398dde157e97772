----------------------------- MODULE MCFrameRing -----------------------------
(* Instances of FrameRing for TLC. *)
EXTENDS FrameRing
=============================================================================
