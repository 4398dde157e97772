--------------------------- MODULE MCPciCommands ---------------------------
(* Instances of PciCommands for TLC. *)
EXTENDS PciCommands
=============================================================================
