--------------------------- MODULE MCChatCreation ---------------------------
(***************************************************************************)
(* Small instances of ChatCreation for TLC.                                *)
(***************************************************************************)
EXTENDS ChatCreation, TLC

\* Requests, handler slots and event ids are interchangeable; ExpiringLocks is
\* all of EventIds or empty wherever this is used.  Only for invariants.
Symmetry == Permutations(Requests) \cup Permutations(Workers)
                \cup Permutations(EventIds)
=============================================================================
