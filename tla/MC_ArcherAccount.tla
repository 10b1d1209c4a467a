-------------------------- MODULE MC_ArcherAccount --------------------------
(***************************************************************************)
(* An owner and two platform keys: enough for a rotation from one delegate *)
(* to the other while a transaction of either is in flight.                *)
(***************************************************************************)
EXTENDS ArcherAccount

MinFee == -5
=============================================================================
