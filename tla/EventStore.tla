----------------------------- MODULE EventStore -----------------------------
(***************************************************************************)
(* What a client of POST .../chats or POST .../messages is promised, apart *)
(* from how it is done: an event is queued, its sender may be answered     *)
(* 202, and later the row is there, or the event is parked in the          *)
(* dead-letter queue.  A queued event never just disappears, a row is      *)
(* stored for one key at a time, and it stays.                             *)
(*                                                                         *)
(* ChatCreation implements this module, and so do both sides of            *)
(* ChatSystem; LoadTest is a client of it.                                 *)
(***************************************************************************)
CONSTANT Keys       \* one for each event a client may have published

VARIABLES
    place,          \* how far the key's event has come
    answered        \* the keys whose client was answered 202

vars == <<place, answered>>

Places == {"none", "queued", "stored", "parked"}

TypeOK == place \in [Keys -> Places] /\ answered \in SUBSET Keys

Init ==
    /\ place = [k \in Keys |-> "none"]
    /\ answered = {}

Move(k, from, to) ==
    /\ place[k] \in from
    /\ place' = [place EXCEPT ![k] = to]
    /\ UNCHANGED answered

Publish(k) == Move(k, {"none"}, "queued")

\* Only what is with the broker, or was, is answered.
Answer(k) ==
    /\ place[k] # "none"
    /\ answered' = answered \cup {k}
    /\ UNCHANGED place

\* A handler that lost its channel may store a row whose event is parked already.
Store(k) == Move(k, {"queued", "parked"}, "stored")

Park(k) == Move(k, {"queued"}, "parked")

\* The publisher sends the event once more: not after the answer.
Resend(k) == k \notin answered /\ Move(k, {"parked"}, "queued")

Next == \E k \in Keys : Publish(k) \/ Answer(k) \/ Store(k) \/ Park(k) \/ Resend(k)

Spec == Init /\ [][Next]_vars
=============================================================================
