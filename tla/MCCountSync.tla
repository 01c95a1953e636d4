---------------------------- MODULE MCCountSync ----------------------------
(***************************************************************************)
(* A small instance of CountSync for TLC: two owners, two overlapping runs. *)
(***************************************************************************)
EXTENDS CountSync
=============================================================================
