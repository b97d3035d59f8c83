------------------------------- MODULE MCPata -------------------------------
(***************************************************************************)
(* Sectors that differ in each digit of their address, the top one         *)
(* included, and a number that has more bits than the registers take.      *)
(***************************************************************************)
EXTENDS Pata
=============================================================================
