--------------------------- MODULE MCAppRegistry ---------------------------
(***************************************************************************)
(* Small instances of AppRegistry for TLC.                                 *)
(***************************************************************************)
EXTENDS AppRegistry
=============================================================================
