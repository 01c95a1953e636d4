----------------------------- MODULE MCLoadTest -----------------------------
(***************************************************************************)
(* Small instances of LoadTest for TLC.                                    *)
(***************************************************************************)
EXTENDS LoadTest, TLC

\* The users are interchangeable.  Only for invariants.
Symmetry == Permutations(Users)
=============================================================================
