---------------------------- MODULE MCChatSystem ----------------------------
(***************************************************************************)
(* Small instances of ChatSystem for TLC.                                  *)
(***************************************************************************)
EXTENDS ChatSystem, TLC

\* A message's owner is a chat request, so those are interchangeable together
\* with the chats they name.  Only for invariants.
Symmetry == Permutations(ChatRequests) \cup Permutations(MessageRequests)
                \cup Permutations(EventIds)
                \cup Permutations(ChatWorkers) \cup Permutations(MessageWorkers)
=============================================================================
