----------------------------- MODULE ChatSystem -----------------------------
(***************************************************************************)
(* Chats and messages together.  MessageService.create and                 *)
(* MessageReplicationEventHandler are the chat's program under other names *)
(* (chat for app, message for chat), but for two things: a message first   *)
(* looks its chat up in MySQL, and nothing is written to a Redis hash.  So *)
(* both sides are instances of ChatCreation, and what this module adds is  *)
(* the difference and what they share: the tables chats and inbox, the     *)
(* locks of counted events in Redis, and the faults.                       *)
(*                                                                         *)
(* Redis stays up here; ChatCreation has its restarts.                     *)
(***************************************************************************)
EXTENDS Naturals, FiniteSets

CONSTANTS
    Apps,               \* ids of the rows of table apps
    ChatRequests,       \* the POST .../chats clients may send
    MessageRequests,    \* the POST .../chats/:chat_number/messages
    EventIds,           \* values generateUniqueEventId may return
    ChatWorkers,        \* handler slots of ChatReplicationEventHandler
    MessageWorkers,     \* handler slots of MessageReplicationEventHandler
    MaxSends, DeliveryLimit, MaxFaults, ExpiringLocks, DriverCode, None

\* What both sides assume of these, as ChatCreation does.
ASSUME SystemAssumption ==
    /\ MaxSends \in Nat \ {0}
    /\ DeliveryLimit \in Nat
    /\ MaxFaults \in Nat
    /\ ExpiringLocks \subseteq EventIds
    /\ DriverCode \in {"ER_DUP_ENTRY", "23505"}
    /\ None \notin Apps \cup ChatRequests \cup EventIds
    /\ IsFiniteSet(ChatWorkers) /\ IsFiniteSet(MessageWorkers)

VARIABLES
    chatReq, chatGen, chatHash, chatCnt, chatWorker, chatCopy, chatTries,
    msgReq, msgGen, msgCnt, msgWorker, msgCopy, msgTries,
    chats, messages, inbox, lock,
    faults

chatVars == <<chatReq, chatGen, chatHash, chatCnt, chatWorker, chatCopy, chatTries, chats>>
messageVars == <<msgReq, msgGen, msgCnt, msgWorker, msgCopy, msgTries, messages>>
vars == <<chatVars, messageVars, inbox, lock, faults>>

\* The id of a row of table chats: the request whose event made it.
ChatIds == ChatRequests

NoSnapshot(owners) ==
    [gen |-> [o \in owners |-> 0], hash |-> {}, cnt |-> [o \in owners |-> 0], lock |-> {}]

Chat == INSTANCE ChatCreation WITH
    Requests <- ChatRequests, Workers <- ChatWorkers,
    req <- chatReq, gen <- chatGen, hash <- chatHash, cnt <- chatCnt,
    worker <- chatWorker, copy <- chatCopy, tries <- chatTries,
    rdb <- NoSnapshot(Apps), restarts <- 0, MaxRestarts <- 0

Message == INSTANCE ChatCreation WITH
    Apps <- ChatIds, Requests <- MessageRequests, Workers <- MessageWorkers,
    req <- msgReq, gen <- msgGen, hash <- {}, cnt <- msgCnt,
    worker <- msgWorker, copy <- msgCopy, tries <- msgTries, chats <- messages,
    rdb <- NoSnapshot(ChatIds), restarts <- 0, MaxRestarts <- 0

\* Both sides have their types.
TypeOK == Chat!TypeOK /\ Message!TypeOK

Init == Chat!Init /\ Message!Init

-----------------------------------------------------------------------------
(***************************************************************************)
(* The message API: MessageService.create                                  *)
(***************************************************************************)

\* findByToken, then findByAppIdAndChatNumber: a chat whose row is not there, or
\* not there yet although its number was answered, gives a 404.
FindChat(m) ==
    /\ msgReq[m].pc = "start"
    /\ \/ \E row \in chats :
            msgReq' = [msgReq EXCEPT ![m].pc = "number", ![m].app = row.by]
       \/ msgReq' = [msgReq EXCEPT ![m].pc = "notFound"]
    /\ UNCHANGED <<msgGen, msgCnt, msgWorker, msgCopy, msgTries, messages,
                   inbox, lock, faults>>

\* INCR of the chat's generator; there is no hash to initialise.
GetNextMessageNumber(m) ==
    LET c == msgReq[m].app IN
    /\ msgReq[m].pc = "number"
    /\ msgGen' = [msgGen EXCEPT ![c] = @ + 1]
    /\ msgReq' = [msgReq EXCEPT ![m].pc = "publish", ![m].num = msgGen[c] + 1]
    /\ UNCHANGED <<msgCnt, msgWorker, msgCopy, msgTries, messages, inbox, lock, faults>>

MessageRequestStep(m) ==
    \/ FindChat(m) \/ GetNextMessageNumber(m)
    \/ Message!PublishEvent(m) \/ Message!ConfirmPublish(m)
    \/ Message!RequestFails(m) \/ Message!NumberReplyLost(m) \/ Message!Republish(m)

-----------------------------------------------------------------------------
(***************************************************************************)
(* What the two consumers share                                            *)
(***************************************************************************)

\* The event ids that open transactions have inserted into inbox.
HeldByChats ==
    {Chat!EventId(w) : w \in {v \in ChatWorkers : chatWorker[v].pc \in {"insert", "commit"}}}

HeldByMessages ==
    {Message!EventId(w) : w \in {v \in MessageWorkers : msgWorker[v].pc \in {"insert", "commit"}}}

\* Mutant of InboxFree: an inbox index per kind of event: nobody waits for the others.
InboxFreePerKind(e, held) == TRUE

\* inbox has one unique index for both kinds of events: an insert waits for open
\* transactions of the other kind, too.
InboxFree(e, held) == e \notin held

ChatHandlerStep(w) ==
    /\ chatWorker[w].pc = "validate" => InboxFree(Chat!EventId(w), HeldByMessages)
    /\ Chat!HandlerStep(w)

MessageHandlerStep(w) ==
    /\ msgWorker[w].pc = "validate" => InboxFree(Message!EventId(w), HeldByChats)
    /\ Message!HandlerStep(w)

ChatNext ==
    /\ \/ \E r \in ChatRequests : Chat!RequestStep(r)
       \/ \E w \in ChatWorkers :
            Chat!TakeDelivery(w) \/ ChatHandlerStep(w) \/ Chat!HandlerFault(w)
    /\ UNCHANGED messageVars

MessageNext ==
    /\ \/ \E m \in MessageRequests : MessageRequestStep(m)
       \/ \E w \in MessageWorkers :
            Message!TakeDelivery(w) \/ MessageHandlerStep(w) \/ Message!HandlerFault(w)
    /\ UNCHANGED chatVars

\* The 24 h of a lock are over, for both consumers.
LockExpires(e) ==
    /\ Chat!LockExpires(e)
    /\ Message!LockExpires(e)

Next == ChatNext \/ MessageNext \/ \E e \in EventIds : LockExpires(e)

Spec == Init /\ [][Next]_vars

\* As in ChatCreation: the brokers deliver, and handlers go on.
Fairness ==
    /\ \A w \in ChatWorkers :
        /\ WF_vars(Chat!TakeDelivery(w) /\ UNCHANGED messageVars)
        /\ WF_vars(ChatHandlerStep(w) /\ UNCHANGED messageVars)
    /\ \A w \in MessageWorkers :
        /\ WF_vars(Message!TakeDelivery(w) /\ UNCHANGED chatVars)
        /\ WF_vars(MessageHandlerStep(w) /\ UNCHANGED chatVars)

FairSpec == Spec /\ Fairness

-----------------------------------------------------------------------------
(***************************************************************************)
(* Properties                                                              *)
(***************************************************************************)
ChatEvents == {chatReq[row.by].eid : row \in chats}
MessageEvents == {msgReq[row.by].eid : row \in messages}

\* The two consumers race for one inbox: each event id is spent on one row, of
\* one table, also when a chat's event and a message's event drew the same.
OneRowPerEvent ==
    /\ inbox = ChatEvents \cup MessageEvents
    /\ Cardinality(inbox) = Cardinality(chats) + Cardinality(messages)

\* Neither a promised chat nor a promised message is acknowledged away, whatever
\* the other kind of event does to the inbox.
NothingLost == Chat!NoSilentLoss /\ Message!NoSilentLoss

\* An acknowledged chat or message was counted, although both kinds of events take
\* their locks from one space of keys.
AckedAreCounted == Chat!CountCoversAcked /\ Message!CountCoversAcked

\* What the counter of an app and that of a chat have lost together, beside what handlers are
\* about to count: a fault costs a count of one kind, not of both.
DriftSharesFaults ==
    \A a \in Apps, c \in ChatIds :
        Cardinality(Chat!RowsOf(a)) + Cardinality(Message!RowsOf(c))
            <= chatCnt[a] + Cardinality(Chat!Counting(a))
               + msgCnt[c] + Cardinality(Message!Counting(c)) + faults

\* To its clients each side is an EventStore of its own, although an event of the
\* other kind may take its id and a fault of the other side its retries: the two
\* services LoadTest talks to.
BothAreEventStores == Chat!ImplementsEventStore /\ Message!ImplementsEventStore

\* Every promised chat and message is stored in the end, unless an event of either
\* kind drew its id, if the delivery limit is not smaller than the number of faults.
PromisesKept ==
    /\ \A r \in ChatRequests :
        Chat!Accepted(r) ~> chatReq[r].eid \in ChatEvents \cup MessageEvents
    /\ \A m \in MessageRequests :
        Message!Accepted(m) ~> msgReq[m].eid \in ChatEvents \cup MessageEvents
=============================================================================
