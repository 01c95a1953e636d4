------------------------- MODULE MCConsumerProcess -------------------------
(***************************************************************************)
(* Small instances of ConsumerProcess for TLC: two chats' events and one   *)
(* message's event.                                                        *)
(***************************************************************************)
EXTENDS ConsumerProcess

MCMessages == {"chat1", "chat2", "message1"}
MCQueueOf == [m \in MCMessages |-> IF m = "message1" THEN "messages" ELSE "chats"]
=============================================================================
