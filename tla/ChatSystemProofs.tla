-------------------------- MODULE ChatSystemProofs --------------------------
(***************************************************************************)
(* Theorems about ChatSystem.  Both sides are instances of ChatCreation,   *)
(* so both have its invariants (CP!, MP!), as long as each stays out of    *)
(* what the other holds in the inbox and in the locks they share.          *)
(***************************************************************************)
EXTENDS ChatSystem, FiniteSetTheorems, FunctionTheorems, TLAPS

CP == INSTANCE ChatCountProofs WITH
    Requests <- ChatRequests, Workers <- ChatWorkers,
    req <- chatReq, gen <- chatGen, hash <- chatHash, cnt <- chatCnt,
    worker <- chatWorker, copy <- chatCopy, tries <- chatTries,
    rdb <- NoSnapshot(Apps), restarts <- 0, MaxRestarts <- 0

MP == INSTANCE ChatCountProofs WITH
    Apps <- ChatIds, Requests <- MessageRequests, Workers <- MessageWorkers,
    req <- msgReq, gen <- msgGen, hash <- {}, cnt <- msgCnt,
    worker <- msgWorker, copy <- msgCopy, tries <- msgTries, chats <- messages,
    rdb <- NoSnapshot(ChatIds), restarts <- 0, MaxRestarts <- 0

\* The code the service runs with is not the one validateEvent compares with.
MySQL == DriverCode # "23505"

-----------------------------------------------------------------------------
(***************************************************************************)
(* A step of Chat or Message is the step of the same name of CP or MP: two *)
(* instances of one module agree.                                          *)
(***************************************************************************)
\* A request for a chat.
LEMMA ChatApi ==
    ASSUME NEW x, Chat!RequestStep(x)
    PROVE  CP!RequestStep(x)
<1>1. Chat!FindApp(x) => CP!FindApp(x)
  BY DEF Chat!FindApp, CP!FindApp, Chat!apiUnchanged, CP!apiUnchanged, Chat!dbVars,
     CP!dbVars, Chat!redisVars, CP!redisVars, Chat!queueVars, CP!queueVars, Chat!NoFault,
     CP!NoFault
<1>2. Chat!GetNextChatNumber(x) => CP!GetNextChatNumber(x)
  BY DEF Chat!GetNextChatNumber, CP!GetNextChatNumber, Chat!apiUnchanged, CP!apiUnchanged,
     Chat!dbVars, CP!dbVars, Chat!queueVars, CP!queueVars, Chat!NoFault, CP!NoFault
<1>3. Chat!InitializeChat(x) => CP!InitializeChat(x)
  BY DEF Chat!InitializeChat, CP!InitializeChat, Chat!apiUnchanged, CP!apiUnchanged,
     Chat!dbVars, CP!dbVars, Chat!queueVars, CP!queueVars, Chat!NoFault, CP!NoFault
<1>4. Chat!PublishEvent(x) => CP!PublishEvent(x)
  BY DEF Chat!PublishEvent, CP!PublishEvent, Chat!generateUniqueEventId,
     CP!generateUniqueEventId, Chat!Copies, CP!Copies, Chat!Queue!Publish, CP!Queue!Publish,
     Chat!apiUnchanged, CP!apiUnchanged, Chat!dbVars, CP!dbVars, Chat!redisVars,
     CP!redisVars, Chat!NoFault, CP!NoFault
<1>5. Chat!ConfirmPublish(x) => CP!ConfirmPublish(x)
  BY DEF Chat!ConfirmPublish, CP!ConfirmPublish, Chat!apiUnchanged, CP!apiUnchanged,
     Chat!dbVars, CP!dbVars, Chat!redisVars, CP!redisVars, Chat!queueVars, CP!queueVars,
     Chat!NoFault, CP!NoFault
<1>6. Chat!RequestFails(x) => CP!RequestFails(x)
  BY DEF Chat!RequestFails, CP!RequestFails, Chat!apiUnchanged, CP!apiUnchanged,
     Chat!dbVars, CP!dbVars, Chat!redisVars, CP!redisVars, Chat!queueVars, CP!queueVars,
     Chat!Fault, CP!Fault
<1>7. Chat!NumberReplyLost(x) => CP!NumberReplyLost(x)
  BY DEF Chat!NumberReplyLost, CP!NumberReplyLost, Chat!apiUnchanged, CP!apiUnchanged,
     Chat!dbVars, CP!dbVars, Chat!queueVars, CP!queueVars, Chat!Fault, CP!Fault
<1>8. Chat!Republish(x) => CP!Republish(x)
  BY DEF Chat!Republish, CP!Republish, Chat!Copies, CP!Copies, Chat!Queue!Publish,
     CP!Queue!Publish, Chat!apiUnchanged, CP!apiUnchanged, Chat!dbVars, CP!dbVars,
     Chat!redisVars, CP!redisVars, Chat!Fault, CP!Fault
<1> QED
  BY <1>1, <1>2, <1>3, <1>4, <1>5, <1>6, <1>7, <1>8 DEF Chat!RequestStep, CP!RequestStep

\* A chat is delivered.
LEMMA ChatDeliveries ==
    ASSUME NEW x, Chat!TakeDelivery(x)
    PROVE  CP!TakeDelivery(x)
<1>1. Chat!TakeDelivery(x) => CP!TakeDelivery(x)
  BY DEF Chat!TakeDelivery, CP!TakeDelivery, Chat!Copies, CP!Copies, Chat!Queue!Deliver,
     CP!Queue!Deliver, Chat!dbVars, CP!dbVars, Chat!handlerUnchanged, CP!handlerUnchanged,
     Chat!NoFault, CP!NoFault
<1> QED  BY <1>1

\* A handler of chats goes on.
LEMMA ChatHandlers ==
    ASSUME NEW x, Chat!HandlerStep(x)
    PROVE  CP!HandlerStep(x)
<1>1. Chat!ValidateEvent(x) => CP!ValidateEvent(x)
  BY DEF Chat!ValidateEvent, CP!ValidateEvent, Chat!InboxLocked, CP!InboxLocked,
     Chat!validateEvent, CP!validateEvent, Chat!AfterValidate, CP!AfterValidate,
     Chat!UniqueViolation, CP!UniqueViolation, Chat!EventId, CP!EventId, Chat!Request,
     CP!Request, Chat!handlerUnchanged, CP!handlerUnchanged, Chat!dbVars, CP!dbVars,
     Chat!queueVars, CP!queueVars, Chat!NoFault, CP!NoFault, Chat!Goto, CP!Goto
<1>2. Chat!CreateChat(x) => CP!CreateChat(x)
  BY DEF Chat!CreateChat, CP!CreateChat, Chat!ChatKeyLocked, CP!ChatKeyLocked, Chat!SameKey,
     CP!SameKey, Chat!NewRow, CP!NewRow, Chat!App, CP!App, Chat!Request, CP!Request,
     Chat!handlerUnchanged, CP!handlerUnchanged, Chat!dbVars, CP!dbVars, Chat!queueVars,
     CP!queueVars, Chat!NoFault, CP!NoFault, Chat!Goto, CP!Goto
<1>3. Chat!Commit(x) => CP!Commit(x)
  BY DEF Chat!Commit, CP!Commit, Chat!WriteRows, CP!WriteRows, Chat!NewRow, CP!NewRow,
     Chat!EventId, CP!EventId, Chat!App, CP!App, Chat!Request, CP!Request,
     Chat!handlerUnchanged, CP!handlerUnchanged, Chat!queueVars, CP!queueVars, Chat!NoFault,
     CP!NoFault, Chat!Goto, CP!Goto
<1>4. Chat!CountChat(x) => CP!CountChat(x)
  BY DEF Chat!CountChat, CP!CountChat, Chat!LockAndIncrement, CP!LockAndIncrement,
     Chat!EventId, CP!EventId, Chat!App, CP!App, Chat!Request, CP!Request,
     Chat!handlerUnchanged, CP!handlerUnchanged, Chat!dbVars, CP!dbVars, Chat!queueVars,
     CP!queueVars, Chat!NoFault, CP!NoFault, Chat!Goto, CP!Goto
<1>5. Chat!AckDelivery(x) => CP!AckDelivery(x)
  BY DEF Chat!AckDelivery, CP!AckDelivery, Chat!AckIfLive, CP!AckIfLive, Chat!Queue!Ack,
     CP!Queue!Ack, Chat!Copies, CP!Copies, Chat!queueVars, CP!queueVars, Chat!dbVars,
     CP!dbVars, Chat!handlerUnchanged, CP!handlerUnchanged, Chat!Release, CP!Release,
     Chat!IdleWorker, CP!IdleWorker, Chat!NoFault, CP!NoFault
<1>6. Chat!NackDelivery(x) => CP!NackDelivery(x)
  BY DEF Chat!NackDelivery, CP!NackDelivery, Chat!ReturnIfLive, CP!ReturnIfLive,
     Chat!Queue!Return, CP!Queue!Return, Chat!Copies, CP!Copies, Chat!queueVars,
     CP!queueVars, Chat!dbVars, CP!dbVars, Chat!handlerUnchanged, CP!handlerUnchanged,
     Chat!Release, CP!Release, Chat!IdleWorker, CP!IdleWorker, Chat!NoFault, CP!NoFault
<1> QED  BY <1>1, <1>2, <1>3, <1>4, <1>5, <1>6 DEF Chat!HandlerStep, CP!HandlerStep

\* Something happens to a handler of chats.
LEMMA ChatFaults ==
    ASSUME NEW x, Chat!HandlerFault(x)
    PROVE  CP!HandlerFault(x)
<1>1. Chat!HandlerError(x) => CP!HandlerError(x)
  BY DEF Chat!HandlerError, CP!HandlerError, Chat!handlerUnchanged, CP!handlerUnchanged,
     Chat!dbVars, CP!dbVars, Chat!queueVars, CP!queueVars, Chat!Fault, CP!Fault, Chat!Goto,
     CP!Goto
<1>2. Chat!CommitReplyLost(x) => CP!CommitReplyLost(x)
  BY DEF Chat!CommitReplyLost, CP!CommitReplyLost, Chat!WriteRows, CP!WriteRows,
     Chat!NewRow, CP!NewRow, Chat!EventId, CP!EventId, Chat!App, CP!App, Chat!Request,
     CP!Request, Chat!handlerUnchanged, CP!handlerUnchanged, Chat!queueVars, CP!queueVars,
     Chat!Fault, CP!Fault, Chat!Goto, CP!Goto
<1>3. Chat!CountReplyLost(x) => CP!CountReplyLost(x)
  BY DEF Chat!CountReplyLost, CP!CountReplyLost, Chat!LockAndIncrement, CP!LockAndIncrement,
     Chat!EventId, CP!EventId, Chat!App, CP!App, Chat!Request, CP!Request,
     Chat!handlerUnchanged, CP!handlerUnchanged, Chat!dbVars, CP!dbVars, Chat!queueVars,
     CP!queueVars, Chat!Fault, CP!Fault, Chat!Goto, CP!Goto
<1>4. Chat!ConsumerCrash(x) => CP!ConsumerCrash(x)
  BY DEF Chat!ConsumerCrash, CP!ConsumerCrash, Chat!ReturnIfLive, CP!ReturnIfLive,
     Chat!Queue!Return, CP!Queue!Return, Chat!Copies, CP!Copies, Chat!queueVars,
     CP!queueVars, Chat!dbVars, CP!dbVars, Chat!handlerUnchanged, CP!handlerUnchanged,
     Chat!Release, CP!Release, Chat!IdleWorker, CP!IdleWorker, Chat!Fault, CP!Fault
<1>5. Chat!ChannelLost(x) => CP!ChannelLost(x)
  BY DEF Chat!ChannelLost, CP!ChannelLost, Chat!Queue!Return, CP!Queue!Return, Chat!Copies,
     CP!Copies, Chat!queueVars, CP!queueVars, Chat!dbVars, CP!dbVars, Chat!handlerUnchanged,
     CP!handlerUnchanged, Chat!Fault, CP!Fault
<1> QED  BY <1>1, <1>2, <1>3, <1>4, <1>5 DEF Chat!HandlerFault, CP!HandlerFault

\* A lock of chats expires.
LEMMA ChatExpiries ==
    ASSUME NEW x, Chat!LockExpires(x)
    PROVE  CP!LockExpires(x)
<1>1. Chat!LockExpires(x) => CP!LockExpires(x)
  BY DEF Chat!LockExpires, CP!LockExpires, Chat!EventId, CP!EventId, Chat!Request,
     CP!Request, Chat!dbVars, CP!dbVars, Chat!queueVars, CP!queueVars, Chat!NoFault,
     CP!NoFault
<1> QED  BY <1>1

\* A message is delivered.
LEMMA MessageDeliveries ==
    ASSUME NEW x, Message!TakeDelivery(x)
    PROVE  MP!TakeDelivery(x)
<1>1. Message!TakeDelivery(x) => MP!TakeDelivery(x)
  BY DEF Message!TakeDelivery, MP!TakeDelivery, Message!Copies, MP!Copies,
     Message!Queue!Deliver, MP!Queue!Deliver, Message!dbVars, MP!dbVars,
     Message!handlerUnchanged, MP!handlerUnchanged, Message!NoFault, MP!NoFault
<1> QED  BY <1>1

\* A handler of messages goes on.
LEMMA MessageHandlers ==
    ASSUME NEW x, Message!HandlerStep(x)
    PROVE  MP!HandlerStep(x)
<1>1. Message!ValidateEvent(x) => MP!ValidateEvent(x)
  BY DEF Message!ValidateEvent, MP!ValidateEvent, Message!InboxLocked, MP!InboxLocked,
     Message!validateEvent, MP!validateEvent, Message!AfterValidate, MP!AfterValidate,
     Message!UniqueViolation, MP!UniqueViolation, Message!EventId, MP!EventId,
     Message!Request, MP!Request, Message!handlerUnchanged, MP!handlerUnchanged,
     Message!dbVars, MP!dbVars, Message!queueVars, MP!queueVars, Message!NoFault,
     MP!NoFault, Message!Goto, MP!Goto
<1>2. Message!CreateChat(x) => MP!CreateChat(x)
  BY DEF Message!CreateChat, MP!CreateChat, Message!ChatKeyLocked, MP!ChatKeyLocked,
     Message!SameKey, MP!SameKey, Message!NewRow, MP!NewRow, Message!App, MP!App,
     Message!Request, MP!Request, Message!handlerUnchanged, MP!handlerUnchanged,
     Message!dbVars, MP!dbVars, Message!queueVars, MP!queueVars, Message!NoFault,
     MP!NoFault, Message!Goto, MP!Goto
<1>3. Message!Commit(x) => MP!Commit(x)
  BY DEF Message!Commit, MP!Commit, Message!WriteRows, MP!WriteRows, Message!NewRow,
     MP!NewRow, Message!EventId, MP!EventId, Message!App, MP!App, Message!Request,
     MP!Request, Message!handlerUnchanged, MP!handlerUnchanged, Message!queueVars,
     MP!queueVars, Message!NoFault, MP!NoFault, Message!Goto, MP!Goto
<1>4. Message!CountChat(x) => MP!CountChat(x)
  BY DEF Message!CountChat, MP!CountChat, Message!LockAndIncrement, MP!LockAndIncrement,
     Message!EventId, MP!EventId, Message!App, MP!App, Message!Request, MP!Request,
     Message!handlerUnchanged, MP!handlerUnchanged, Message!dbVars, MP!dbVars,
     Message!queueVars, MP!queueVars, Message!NoFault, MP!NoFault, Message!Goto, MP!Goto
<1>5. Message!AckDelivery(x) => MP!AckDelivery(x)
  BY DEF Message!AckDelivery, MP!AckDelivery, Message!AckIfLive, MP!AckIfLive,
     Message!Queue!Ack, MP!Queue!Ack, Message!Copies, MP!Copies, Message!queueVars,
     MP!queueVars, Message!dbVars, MP!dbVars, Message!handlerUnchanged, MP!handlerUnchanged,
     Message!Release, MP!Release, Message!IdleWorker, MP!IdleWorker, Message!NoFault,
     MP!NoFault
<1>6. Message!NackDelivery(x) => MP!NackDelivery(x)
  BY DEF Message!NackDelivery, MP!NackDelivery, Message!ReturnIfLive, MP!ReturnIfLive,
     Message!Queue!Return, MP!Queue!Return, Message!Copies, MP!Copies, Message!queueVars,
     MP!queueVars, Message!dbVars, MP!dbVars, Message!handlerUnchanged, MP!handlerUnchanged,
     Message!Release, MP!Release, Message!IdleWorker, MP!IdleWorker, Message!NoFault,
     MP!NoFault
<1> QED  BY <1>1, <1>2, <1>3, <1>4, <1>5, <1>6 DEF Message!HandlerStep, MP!HandlerStep

\* Something happens to a handler of messages.
LEMMA MessageFaults ==
    ASSUME NEW x, Message!HandlerFault(x)
    PROVE  MP!HandlerFault(x)
<1>1. Message!HandlerError(x) => MP!HandlerError(x)
  BY DEF Message!HandlerError, MP!HandlerError, Message!handlerUnchanged,
     MP!handlerUnchanged, Message!dbVars, MP!dbVars, Message!queueVars, MP!queueVars,
     Message!Fault, MP!Fault, Message!Goto, MP!Goto
<1>2. Message!CommitReplyLost(x) => MP!CommitReplyLost(x)
  BY DEF Message!CommitReplyLost, MP!CommitReplyLost, Message!WriteRows, MP!WriteRows,
     Message!NewRow, MP!NewRow, Message!EventId, MP!EventId, Message!App, MP!App,
     Message!Request, MP!Request, Message!handlerUnchanged, MP!handlerUnchanged,
     Message!queueVars, MP!queueVars, Message!Fault, MP!Fault, Message!Goto, MP!Goto
<1>3. Message!CountReplyLost(x) => MP!CountReplyLost(x)
  BY DEF Message!CountReplyLost, MP!CountReplyLost, Message!LockAndIncrement,
     MP!LockAndIncrement, Message!EventId, MP!EventId, Message!App, MP!App, Message!Request,
     MP!Request, Message!handlerUnchanged, MP!handlerUnchanged, Message!dbVars, MP!dbVars,
     Message!queueVars, MP!queueVars, Message!Fault, MP!Fault, Message!Goto, MP!Goto
<1>4. Message!ConsumerCrash(x) => MP!ConsumerCrash(x)
  BY DEF Message!ConsumerCrash, MP!ConsumerCrash, Message!ReturnIfLive, MP!ReturnIfLive,
     Message!Queue!Return, MP!Queue!Return, Message!Copies, MP!Copies, Message!queueVars,
     MP!queueVars, Message!dbVars, MP!dbVars, Message!handlerUnchanged, MP!handlerUnchanged,
     Message!Release, MP!Release, Message!IdleWorker, MP!IdleWorker, Message!Fault, MP!Fault
<1>5. Message!ChannelLost(x) => MP!ChannelLost(x)
  BY DEF Message!ChannelLost, MP!ChannelLost, Message!Queue!Return, MP!Queue!Return,
     Message!Copies, MP!Copies, Message!queueVars, MP!queueVars, Message!dbVars, MP!dbVars,
     Message!handlerUnchanged, MP!handlerUnchanged, Message!Fault, MP!Fault
<1> QED  BY <1>1, <1>2, <1>3, <1>4, <1>5 DEF Message!HandlerFault, MP!HandlerFault

\* A lock of messages expires.
LEMMA MessageExpiries ==
    ASSUME NEW x, Message!LockExpires(x)
    PROVE  MP!LockExpires(x)
<1>1. Message!LockExpires(x) => MP!LockExpires(x)
  BY DEF Message!LockExpires, MP!LockExpires, Message!EventId, MP!EventId, Message!Request,
     MP!Request, Message!dbVars, MP!dbVars, Message!queueVars, MP!queueVars,
     Message!NoFault, MP!NoFault
<1> QED  BY <1>1

\* What the API does for a message as it does for a chat.
LEMMA MessageApi ==
    ASSUME NEW x,
           \/ Message!PublishEvent(x) \/ Message!ConfirmPublish(x)
           \/ Message!RequestFails(x) \/ Message!NumberReplyLost(x) \/ Message!Republish(x)
    PROVE  \/ MP!PublishEvent(x) \/ MP!ConfirmPublish(x)
           \/ MP!RequestFails(x) \/ MP!NumberReplyLost(x) \/ MP!Republish(x)
<1>1. Message!PublishEvent(x) => MP!PublishEvent(x)
  BY DEF Message!PublishEvent, MP!PublishEvent, Message!generateUniqueEventId,
     MP!generateUniqueEventId, Message!Copies, MP!Copies, Message!Queue!Publish,
     MP!Queue!Publish, Message!apiUnchanged, MP!apiUnchanged, Message!dbVars, MP!dbVars,
     Message!redisVars, MP!redisVars, Message!NoFault, MP!NoFault
<1>2. Message!ConfirmPublish(x) => MP!ConfirmPublish(x)
  BY DEF Message!ConfirmPublish, MP!ConfirmPublish, Message!apiUnchanged, MP!apiUnchanged,
     Message!dbVars, MP!dbVars, Message!redisVars, MP!redisVars, Message!queueVars,
     MP!queueVars, Message!NoFault, MP!NoFault
<1>3. Message!RequestFails(x) => MP!RequestFails(x)
  BY DEF Message!RequestFails, MP!RequestFails, Message!apiUnchanged, MP!apiUnchanged,
     Message!dbVars, MP!dbVars, Message!redisVars, MP!redisVars, Message!queueVars,
     MP!queueVars, Message!Fault, MP!Fault
<1>4. Message!NumberReplyLost(x) => MP!NumberReplyLost(x)
  BY DEF Message!NumberReplyLost, MP!NumberReplyLost, Message!apiUnchanged, MP!apiUnchanged,
     Message!dbVars, MP!dbVars, Message!queueVars, MP!queueVars, Message!Fault, MP!Fault
<1>5. Message!Republish(x) => MP!Republish(x)
  BY DEF Message!Republish, MP!Republish, Message!Copies, MP!Copies, Message!Queue!Publish,
     MP!Queue!Publish, Message!apiUnchanged, MP!apiUnchanged, Message!dbVars, MP!dbVars,
     Message!redisVars, MP!redisVars, Message!Fault, MP!Fault
<1> QED  BY <1>1, <1>2, <1>3, <1>4, <1>5

-----------------------------------------------------------------------------
(***************************************************************************)
(* The invariant: each side's own, and that the two sides' rows, and the   *)
(* ids their open transactions hold, have no event id in common.           *)
(***************************************************************************)
SysInv ==
    /\ CP!BaseInv /\ MP!BaseInv
    /\ CP!Events \cap MP!Events = {}
    /\ CP!Held \cap MP!Held = {}
    /\ inbox \subseteq CP!Events \cup MP!Events

\* The sides share the faults: what both have lost together cost one fault each.
LostInv == \A a \in Apps, c \in ChatIds : CP!Lost(a) + MP!Lost(c) <= faults

SideInv == CP!SideInv /\ MP!SideInv /\ LostInv

\* A step that costs one side no more than its faults, and the other side nothing.
LEMMA LossesAddUp ==
    ASSUME SysInv, SysInv', LostInv,
           \/ /\ \A a \in Apps : CP!Lost(a)' + faults <= CP!Lost(a) + faults'
              /\ \A c \in ChatIds : MP!Lost(c)' = MP!Lost(c)
           \/ /\ \A a \in Apps : CP!Lost(a)' = CP!Lost(a)
              /\ \A c \in ChatIds : MP!Lost(c)' + faults <= MP!Lost(c) + faults'
    PROVE  LostInv'
<1> USE SystemAssumption DEF IsFiniteSet, CP!IsFiniteSet, CP!UniqueViolation,
        MP!IsFiniteSet, MP!UniqueViolation, ChatIds
<1>1. faults \in Nat /\ faults' \in Nat
  BY DEF SysInv, CP!BaseInv, CP!TypeInv, CP!BudgetTypeOK
<1>2. /\ \A a \in Apps : CP!Lost(a) \in Int /\ CP!Lost(a)' \in Int
      /\ \A c \in ChatIds : MP!Lost(c) \in Int /\ MP!Lost(c)' \in Int
  BY CP!LostType, CP!LostTypeNext, MP!LostType, MP!LostTypeNext DEF SysInv
<1> SUFFICES ASSUME NEW a \in Apps, NEW c \in ChatIds
             PROVE  CP!Lost(a)' + MP!Lost(c)' <= faults'
  BY DEF LostInv
<1>3. CP!Lost(a) + MP!Lost(c) <= faults
  BY DEF LostInv
<1>4. /\ CP!Lost(a) \in Int /\ CP!Lost(a)' \in Int
      /\ MP!Lost(c) \in Int /\ MP!Lost(c)' \in Int
  BY <1>2
<1>5. \/ CP!Lost(a)' + faults <= CP!Lost(a) + faults' /\ MP!Lost(c)' = MP!Lost(c)
      \/ CP!Lost(a)' = CP!Lost(a) /\ MP!Lost(c)' + faults <= MP!Lost(c) + faults'
  OBVIOUS
<1> QED  BY <1>1, <1>3, <1>4, <1>5


\* Both sides' names for what open transactions hold.
LEMMA HeldNames == HeldByChats = CP!Held /\ HeldByMessages = MP!Held
  BY DEF HeldByChats, HeldByMessages, CP!Held, MP!Held, CP!Open, MP!Open, Chat!EventId, CP!EventId,
     Chat!Request, CP!Request, Message!EventId, MP!EventId, Message!Request, MP!Request

\* A step of the chat side, as CP sees it: an insert into inbox waits for messages.
LEMMA ChatMoves ==
    ASSUME ChatNext
    PROVE  /\ UNCHANGED messageVars
           /\ \/ \E r \in ChatRequests : CP!RequestStep(r)
              \/ \E w \in ChatWorkers :
                    /\ CP!TakeDelivery(w) \/ CP!HandlerStep(w) \/ CP!HandlerFault(w)
                    /\ \/ CP!TakeDelivery(w) \/ CP!HandlerFault(w)
                       \/ chatWorker[w].pc = "validate" => CP!EventId(w) \notin MP!Held
<1>1. CASE \E r \in ChatRequests : Chat!RequestStep(r)
  BY <1>1, ChatApi DEF ChatNext
<1>2. ASSUME NEW w \in ChatWorkers, ChatHandlerStep(w)
      PROVE  /\ CP!HandlerStep(w)
             /\ chatWorker[w].pc = "validate" => CP!EventId(w) \notin MP!Held
  <2>1. CP!HandlerStep(w)
    BY <1>2, ChatHandlers DEF ChatHandlerStep
  <2>2. Chat!EventId(w) = CP!EventId(w)
    BY DEF Chat!EventId, CP!EventId, Chat!Request, CP!Request
  <2> QED  BY <1>2, <2>1, <2>2, HeldNames DEF ChatHandlerStep, InboxFree
<1> QED  BY <1>1, <1>2, ChatDeliveries, ChatFaults DEF ChatNext

\* Chats keep the invariant: they store ids that messages do not hold, and count what they stored.
LEMMA ChatKeeps ==
    ASSUME MySQL, SysInv, ChatNext
    PROVE  SysInv' /\ (SideInv => SideInv')
<1> USE SystemAssumption DEF IsFiniteSet, CP!IsFiniteSet, CP!UniqueViolation,
        MP!IsFiniteSet, MP!UniqueViolation, MySQL, ChatIds
<1>1. CP!BaseInv' /\ (CP!SideInv => CP!SideInv') /\ faults <= faults'
  <2>1. CP!Next
    BY ChatMoves DEF CP!Next
  <2> QED  BY <2>1, CP!BaseStep, CP!SideStep, CP!FaultsGrow DEF SysInv
<1>2. \E new \in SUBSET CP!Held :
        inbox' = inbox \cup new /\ CP!Events' = CP!Events \cup new
  <2>1. ASSUME NEW r \in ChatRequests, CP!RequestStep(r)
        PROVE  inbox' = inbox \cup {} /\ CP!Events' = CP!Events \cup {}
    BY <2>1, CP!RequestAlone DEF SysInv
  <2> QED  BY <2>1, ChatMoves, CP!WorkerGives DEF SysInv
<1>3. lock \subseteq lock' /\ lock' \ lock \subseteq CP!CountedNow
  <2>1. ASSUME NEW r \in ChatRequests, CP!RequestStep(r)  PROVE lock' = lock
    BY <2>1, CP!RequestAlone DEF SysInv
  <2> QED  BY <2>1, ChatMoves, CP!WorkerGives DEF SysInv
<1>4. CP!Held' \cap MP!Held = {}
  <2>1. ASSUME NEW r \in ChatRequests, CP!RequestStep(r)  PROVE CP!Held' = CP!Held
    BY <2>1, CP!RequestAlone DEF SysInv
  <2>2. ASSUME NEW w \in ChatWorkers,
               CP!TakeDelivery(w) \/ CP!HandlerStep(w) \/ CP!HandlerFault(w),
               \/ CP!TakeDelivery(w) \/ CP!HandlerFault(w)
               \/ chatWorker[w].pc = "validate" => CP!EventId(w) \notin MP!Held
        PROVE  CP!Held' \cap MP!Held = {}
    <3>1. \/ CP!Held' \subseteq CP!Held
          \/ /\ CP!ValidateEvent(w) /\ ~CP!HandlerFault(w) /\ ~CP!TakeDelivery(w)
             /\ CP!Held' \subseteq CP!Held \cup {CP!EventId(w)}
      BY <2>2, CP!WorkerHolds DEF SysInv
    <3>2. CP!ValidateEvent(w) => chatWorker[w].pc = "validate"
      BY DEF CP!ValidateEvent
    <3> QED  BY <2>2, <3>1, <3>2 DEF SysInv
  <2> QED  BY <2>1, <2>2, ChatMoves DEF SysInv
<1>5. MP!Company
  <2>1. UNCHANGED <<msgReq, msgGen, {}, msgCnt, NoSnapshot(ChatIds), messages, msgWorker,
                    msgCopy, msgTries, 0>>
    BY ChatMoves DEF messageVars, NoSnapshot, ChatIds
  <2>2. inbox \subseteq inbox' /\ (inbox' \ inbox) \cap MP!Held = {}
    BY <1>2 DEF SysInv
  <2>3. /\ inbox' \subseteq EventIds /\ lock' \subseteq inbox'
        /\ faults \in Nat /\ faults' \in 0 .. MaxFaults
    BY <1>1 DEF SysInv, CP!BaseInv, CP!TypeInv, CP!TablesTypeOK, CP!BudgetTypeOK,
       CP!CountKeyInv
  <2>4. (lock' \ lock) \cap MP!CountedNow = {}
    <3>1. CP!CountedNow \subseteq CP!Events /\ MP!CountedNow \subseteq MP!Events
      BY CP!CountedAreStored, MP!CountedAreStored DEF SysInv
    <3> QED  BY <1>3, <3>1 DEF SysInv
  <2>5. NoSnapshot(ChatIds).lock \subseteq inbox
    BY DEF NoSnapshot
  <2>6. faults' \in faults .. MaxFaults
    BY <1>1, <2>3
  <2> QED  BY <1>3, <2>1, <2>2, <2>3, <2>4, <2>5, <2>6 DEF MP!Company
<1>6. MP!BaseInv' /\ (MP!SideInv => MP!SideInv')
  BY <1>5, MP!CompanyKeeps DEF SysInv
<1>7. MP!Events' = MP!Events /\ MP!Held' = MP!Held
  BY ChatMoves DEF messageVars, MP!Events, MP!Held, MP!EventId, MP!Request, MP!Open
<1>8. MP!Events \subseteq inbox
  BY DEF SysInv, MP!BaseInv, MP!AtomInv, MP!RowsInInbox, MP!Events
<1>9. CP!Held \cap inbox = {}
  BY DEF SysInv, CP!BaseInv, CP!AtomInv, CP!EventKeyInv, CP!Held
<1>10. CP!Events' \cap MP!Events' = {}
  BY <1>2, <1>7, <1>8, <1>9 DEF SysInv
<1>11. inbox' \subseteq CP!Events' \cup MP!Events'
  BY <1>2, <1>7 DEF SysInv
<1>12. SysInv'
  BY <1>1, <1>4, <1>6, <1>7, <1>10, <1>11 DEF SysInv
<1>13. LostInv => LostInv'
  <2>1. CP!Next
    BY ChatMoves DEF CP!Next
  <2>2. \A a \in Apps : CP!Lost(a)' + faults <= CP!Lost(a) + faults'
    BY <2>1, CP!LostStep DEF SysInv
  <2>3. \A c \in ChatIds : MP!Lost(c)' = MP!Lost(c)
    BY <1>5, MP!CompanyCounts
  <2> QED  BY <1>12, <2>2, <2>3, LossesAddUp
<1> QED  BY <1>1, <1>6, <1>12, <1>13 DEF SideInv

\* A chat's row names the chat's request: what FindChat takes for the chat's id.
LEMMA RowsAreChats == CP!BaseInv => \A row \in chats : row.by \in ChatIds
  BY DEF CP!BaseInv, CP!TypeInv, CP!TablesTypeOK, CP!Row, ChatIds

\* A step of the message side, as MP sees it: MySQL has the chats FindApp finds, a message's
\* number comes without a hash, and an insert into inbox waits for chats.
LEMMA MessageMoves ==
    ASSUME CP!BaseInv, MessageNext
    PROVE  /\ UNCHANGED chatVars
           /\ \/ \E m \in MessageRequests : MP!RequestStep(m) \/ MP!NumberOnly(m)
              \/ \E w \in MessageWorkers :
                    /\ MP!TakeDelivery(w) \/ MP!HandlerStep(w) \/ MP!HandlerFault(w)
                    /\ \/ MP!TakeDelivery(w) \/ MP!HandlerFault(w)
                       \/ msgWorker[w].pc = "validate" => MP!EventId(w) \notin CP!Held
<1>1. ASSUME NEW m \in MessageRequests, MessageRequestStep(m), UNCHANGED chatVars
      PROVE  MP!RequestStep(m) \/ MP!NumberOnly(m)
  <2>1. CASE FindChat(m)
    <3>1. MP!FindApp(m)
      BY <1>1, <2>1, RowsAreChats DEF FindChat, MP!FindApp, MP!apiUnchanged, MP!dbVars,
         MP!redisVars, MP!queueVars, MP!NoFault, chatVars, NoSnapshot
    <3> QED  BY <3>1 DEF MP!RequestStep
  <2>2. CASE GetNextMessageNumber(m)
    BY <1>1, <2>2 DEF GetNextMessageNumber, MP!NumberOnly, chatVars, NoSnapshot
  <2> QED  BY <1>1, <2>1, <2>2, MessageApi DEF MessageRequestStep, MP!RequestStep
<1>2. ASSUME NEW w \in MessageWorkers, MessageHandlerStep(w)
      PROVE  /\ MP!HandlerStep(w)
             /\ msgWorker[w].pc = "validate" => MP!EventId(w) \notin CP!Held
  <2>1. MP!HandlerStep(w)
    BY <1>2, MessageHandlers DEF MessageHandlerStep
  <2>2. Message!EventId(w) = MP!EventId(w)
    BY DEF Message!EventId, MP!EventId, Message!Request, MP!Request
  <2> QED  BY <1>2, <2>1, <2>2, HeldNames DEF MessageHandlerStep, InboxFree
<1> QED  BY <1>1, <1>2, MessageDeliveries, MessageFaults DEF MessageNext

\* Messages keep the invariant: they store ids that chats do not hold, and count what they stored.
LEMMA MessageKeeps ==
    ASSUME MySQL, SysInv, MessageNext
    PROVE  SysInv' /\ (SideInv => SideInv')
<1> USE SystemAssumption DEF IsFiniteSet, CP!IsFiniteSet, CP!UniqueViolation,
        MP!IsFiniteSet, MP!UniqueViolation, MySQL, ChatIds
<1>0. CP!BaseInv /\ MP!BaseInv
  BY DEF SysInv
<1> DEFINE Api(m) == MP!RequestStep(m) \/ MP!NumberOnly(m)
           Consumer(w) == MP!TakeDelivery(w) \/ MP!HandlerStep(w) \/ MP!HandlerFault(w)
<1> DEFINE Pays == \A c \in ChatIds : MP!Lost(c)' + faults <= MP!Lost(c) + faults'
<1>1. ASSUME NEW m \in MessageRequests, Api(m)
      PROVE  /\ MP!BaseInv' /\ (MP!SideInv => MP!SideInv') /\ faults <= faults'
             /\ Pays /\ inbox' = inbox /\ lock' = lock
             /\ MP!Events' = MP!Events /\ MP!Held' = MP!Held
  <2>1. CASE MP!RequestStep(m)
    <3>1. MP!Next
      BY <2>1 DEF MP!Next
    <3> QED  BY <1>0, <2>1, <3>1, MP!RequestAlone, MP!BaseStep, MP!SideStep,
            MP!FaultsGrow, MP!LostStep
  <2>2. CASE MP!NumberOnly(m)
    <3>1. /\ MP!BaseInv' /\ (MP!SideInv => MP!SideInv')
          /\ MP!Events' = MP!Events /\ MP!Held' = MP!Held
          /\ \A c \in ChatIds : MP!Lost(c)' = MP!Lost(c)
      BY <1>0, <2>2, MP!NumberOnlyKeeps
    <3>2. faults \in Nat /\ faults' = faults /\ inbox' = inbox /\ lock' = lock
      BY <1>0, <2>2 DEF MP!NumberOnly, MP!BaseInv, MP!TypeInv, MP!BudgetTypeOK
    <3>3. \A c \in ChatIds : MP!Lost(c) \in Int
      BY <1>0, MP!LostType
    <3>4. faults <= faults' /\ Pays
      BY <3>1, <3>2, <3>3
    <3> QED  BY <3>1, <3>2, <3>4
  <2> QED  BY <1>1, <2>1, <2>2
<1>2. ASSUME NEW w \in MessageWorkers, Consumer(w)
      PROVE  /\ MP!BaseInv' /\ (MP!SideInv => MP!SideInv') /\ faults <= faults' /\ Pays
             /\ \E new \in SUBSET MP!Held :
                    inbox' = inbox \cup new /\ MP!Events' = MP!Events \cup new
             /\ lock \subseteq lock' /\ lock' \ lock \subseteq MP!CountedNow
  <2>1. MP!Next
    BY <1>2 DEF MP!Next
  <2> QED  BY <1>0, <1>2, <2>1, MP!WorkerGives, MP!BaseStep, MP!SideStep,
          MP!FaultsGrow, MP!LostStep
<1>3. /\ MP!BaseInv' /\ (MP!SideInv => MP!SideInv') /\ faults <= faults' /\ Pays
      /\ \E new \in SUBSET MP!Held :
            inbox' = inbox \cup new /\ MP!Events' = MP!Events \cup new
      /\ lock \subseteq lock' /\ lock' \ lock \subseteq MP!CountedNow
  <2>1. CASE \E m \in MessageRequests : Api(m)
    <3>1. /\ MP!BaseInv' /\ (MP!SideInv => MP!SideInv') /\ faults <= faults' /\ Pays
          /\ inbox' = inbox \cup {} /\ MP!Events' = MP!Events \cup {} /\ lock' = lock
      BY <1>1, <2>1
    <3> HIDE DEF Api, Pays
    <3> QED  BY <3>1
  <2>2. CASE \E w \in MessageWorkers : Consumer(w)
    BY <1>2, <2>2
  <2> QED  BY <1>0, <2>1, <2>2, MessageMoves
<1>4. CP!Held \cap MP!Held' = {}
  <2>1. ASSUME NEW m \in MessageRequests, Api(m)  PROVE CP!Held \cap MP!Held' = {}
    BY <1>1, <2>1 DEF SysInv
  <2>2. ASSUME NEW w \in MessageWorkers, Consumer(w),
               \/ MP!TakeDelivery(w) \/ MP!HandlerFault(w)
               \/ msgWorker[w].pc = "validate" => MP!EventId(w) \notin CP!Held
        PROVE  CP!Held \cap MP!Held' = {}
    <3>1. \/ MP!Held' \subseteq MP!Held
          \/ /\ MP!ValidateEvent(w) /\ ~MP!HandlerFault(w) /\ ~MP!TakeDelivery(w)
             /\ MP!Held' \subseteq MP!Held \cup {MP!EventId(w)}
      BY <1>0, <2>2, MP!WorkerHolds
    <3>2. MP!ValidateEvent(w) => msgWorker[w].pc = "validate"
      BY DEF MP!ValidateEvent
    <3> QED  BY <2>2, <3>1, <3>2 DEF SysInv
  <2> QED  BY <1>0, <2>1, <2>2, MessageMoves
<1>5. CP!Company
  <2>1. UNCHANGED <<chatReq, chatGen, chatHash, chatCnt, NoSnapshot(Apps), chats, chatWorker,
                    chatCopy, chatTries, 0>>
    BY <1>0, MessageMoves DEF chatVars, NoSnapshot
  <2>2. inbox \subseteq inbox' /\ (inbox' \ inbox) \cap CP!Held = {}
    BY <1>3 DEF SysInv
  <2>3. /\ inbox' \subseteq EventIds /\ lock' \subseteq inbox'
        /\ faults \in Nat /\ faults' \in 0 .. MaxFaults
    BY <1>0, <1>3 DEF MP!BaseInv, MP!TypeInv, MP!TablesTypeOK, MP!BudgetTypeOK,
       MP!CountKeyInv
  <2>4. (lock' \ lock) \cap CP!CountedNow = {}
    <3>1. CP!CountedNow \subseteq CP!Events /\ MP!CountedNow \subseteq MP!Events
      BY CP!CountedAreStored, MP!CountedAreStored DEF SysInv
    <3> QED  BY <1>3, <3>1 DEF SysInv
  <2>5. NoSnapshot(Apps).lock \subseteq inbox
    BY DEF NoSnapshot
  <2>6. faults' \in faults .. MaxFaults
    BY <1>3, <2>3
  <2> QED  BY <1>3, <2>1, <2>2, <2>3, <2>4, <2>5, <2>6 DEF CP!Company
<1>6. CP!BaseInv' /\ (CP!SideInv => CP!SideInv')
  BY <1>0, <1>5, CP!CompanyKeeps
<1>7. CP!Events' = CP!Events /\ CP!Held' = CP!Held
  BY <1>0, MessageMoves DEF chatVars, CP!Events, CP!Held, CP!EventId, CP!Request, CP!Open
<1>8. CP!Events \subseteq inbox
  BY <1>0 DEF CP!BaseInv, CP!AtomInv, CP!RowsInInbox, CP!Events
<1>9. MP!Held \cap inbox = {}
  BY <1>0 DEF MP!BaseInv, MP!AtomInv, MP!EventKeyInv, MP!Held
<1>10. CP!Events' \cap MP!Events' = {}
  BY <1>3, <1>7, <1>8, <1>9 DEF SysInv
<1>11. inbox' \subseteq CP!Events' \cup MP!Events'
  BY <1>3, <1>7 DEF SysInv
<1>12. SysInv'
  BY <1>3, <1>4, <1>6, <1>7, <1>10, <1>11 DEF SysInv
<1>13. LostInv => LostInv'
  <2>1. \A a \in Apps : CP!Lost(a)' = CP!Lost(a)
    BY <1>5, CP!CompanyCounts
  <2> QED  BY <1>3, <1>12, <2>1, LossesAddUp
<1> QED  BY <1>3, <1>6, <1>12, <1>13 DEF SideInv

\* A lock that expires, expires for both sides.
LEMMA ExpiryKeeps ==
    ASSUME MySQL, SysInv, NEW e \in EventIds, LockExpires(e)
    PROVE  SysInv' /\ (SideInv => SideInv')
<1> USE SystemAssumption DEF IsFiniteSet, CP!IsFiniteSet, CP!UniqueViolation,
        MP!IsFiniteSet, MP!UniqueViolation, MySQL, ChatIds
<1>1. CP!LockExpires(e) /\ MP!LockExpires(e)
  BY ChatExpiries, MessageExpiries DEF LockExpires
<1>2. CP!Next /\ MP!Next
  BY <1>1 DEF CP!Next, MP!Next
<1>3. CP!BaseInv' /\ (CP!SideInv => CP!SideInv')
  BY <1>2, CP!BaseStep, CP!SideStep DEF SysInv
<1>4. MP!BaseInv' /\ (MP!SideInv => MP!SideInv')
  BY <1>2, MP!BaseStep, MP!SideStep DEF SysInv
<1>5. CP!Events' = CP!Events /\ CP!Held' = CP!Held /\ inbox' = inbox
  BY <1>1 DEF CP!LockExpires, CP!dbVars, CP!Events, CP!Held, CP!EventId, CP!Request, CP!Open
<1>6. MP!Events' = MP!Events /\ MP!Held' = MP!Held
  BY <1>1 DEF MP!LockExpires, MP!dbVars, MP!Events, MP!Held, MP!EventId, MP!Request, MP!Open
<1>7. SysInv'
  BY <1>3, <1>4, <1>5, <1>6 DEF SysInv
<1>8. LostInv => LostInv'
  <2>1. /\ \A a \in Apps : CP!Lost(a)' = CP!Lost(a)
        /\ \A c \in ChatIds : MP!Lost(c)' = MP!Lost(c)
    BY <1>1, CP!LostExpiry, MP!LostExpiry DEF SysInv
  <2>2. faults' = faults
    BY <1>1 DEF CP!LockExpires, CP!NoFault
  <2> QED  BY <2>1, <2>2 DEF LostInv
<1> QED  BY <1>3, <1>4, <1>7, <1>8 DEF SideInv

\* A step of nobody's.
LEMMA StutterKeeps ==
    ASSUME MySQL, SysInv, UNCHANGED vars
    PROVE  SysInv' /\ (SideInv => SideInv')
<1> USE SystemAssumption DEF IsFiniteSet, CP!IsFiniteSet, CP!UniqueViolation,
        MP!IsFiniteSet, MP!UniqueViolation, MySQL, ChatIds
<1>1. UNCHANGED CP!vars /\ UNCHANGED MP!vars
  BY DEF vars, chatVars, messageVars, NoSnapshot, CP!vars, CP!redisVars, CP!dbVars,
     CP!queueVars, MP!vars, MP!redisVars, MP!dbVars, MP!queueVars
<1>2. CP!BaseInv' /\ (CP!SideInv => CP!SideInv')
  BY <1>1, CP!BaseStep, CP!SideStep DEF SysInv
<1>3. MP!BaseInv' /\ (MP!SideInv => MP!SideInv')
  BY <1>1, MP!BaseStep, MP!SideStep DEF SysInv
<1>4. CP!Events' = CP!Events /\ CP!Held' = CP!Held /\ inbox' = inbox
  BY DEF vars, chatVars, CP!Events, CP!Held, CP!EventId, CP!Request, CP!Open
<1>5. MP!Events' = MP!Events /\ MP!Held' = MP!Held
  BY DEF vars, messageVars, MP!Events, MP!Held, MP!EventId, MP!Request, MP!Open
<1>6. SysInv'
  BY <1>2, <1>3, <1>4, <1>5 DEF SysInv
<1>7. LostInv => LostInv'
  <2>1. /\ \A a \in Apps : CP!Lost(a)' = CP!Lost(a)
        /\ \A c \in ChatIds : MP!Lost(c)' = MP!Lost(c)
    BY <1>1, CP!LostStutter, MP!LostStutter
  <2> QED  BY <2>1 DEF LostInv, vars
<1> QED  BY <1>2, <1>3, <1>6, <1>7 DEF SideInv

\* Every step of the system keeps both sides' invariants.
LEMMA SysStep ==
    ASSUME MySQL, SysInv, [Next]_vars
    PROVE  SysInv' /\ (SideInv => SideInv')
  BY ChatKeeps, MessageKeeps, ExpiryKeeps, StutterKeeps DEF Next

\* The system starts as both sides do.
LEMMA SideInits ==
    ASSUME Init
    PROVE  CP!Init /\ MP!Init
<1>1. CP!Init
  BY DEF Init, Chat!Init, CP!Init, Chat!EmptyRedis, CP!EmptyRedis, Chat!IdleWorker,
     CP!IdleWorker, Chat!Copies, CP!Copies, Chat!Queue!QueueInit, CP!Queue!QueueInit
<1>2. MP!Init
  BY DEF Init, Message!Init, MP!Init, Message!EmptyRedis, MP!EmptyRedis, Message!IdleWorker,
     MP!IdleWorker, Message!Copies, MP!Copies, Message!Queue!QueueInit, MP!Queue!QueueInit
<1> QED  BY <1>1, <1>2

\* Both sides start with nothing stored, held or counted.
LEMMA SysInit == Init => SysInv /\ SideInv
<1> SUFFICES ASSUME Init  PROVE SysInv /\ SideInv
  OBVIOUS
<1> USE SystemAssumption DEF IsFiniteSet, CP!IsFiniteSet, CP!UniqueViolation,
        MP!IsFiniteSet, MP!UniqueViolation, ChatIds
<1>1. CP!Init
  BY SideInits
<1>2. MP!Init
  BY SideInits
<1>3. CP!BaseInv /\ CP!SideInv
  BY <1>1, CP!BaseInit, CP!SideInit
<1>4. MP!BaseInv /\ MP!SideInv
  BY <1>2, MP!BaseInit, MP!SideInit
<1>5. chats = {} /\ messages = {} /\ inbox = {}
  BY <1>1, <1>2 DEF CP!Init, MP!Init
<1>6. CP!Held = {}
  BY <1>1 DEF CP!Init, CP!IdleWorker, CP!Held, CP!Open
<1>7. LostInv
  <2>1. faults = 0 /\ (\A a \in Apps : CP!Lost(a) = 0) /\ (\A c \in ChatIds : MP!Lost(c) = 0)
    BY <1>1, <1>2, CP!LostInit, MP!LostInit DEF CP!Init
  <2> QED  BY <2>1 DEF LostInv
<1> QED  BY <1>3, <1>4, <1>5, <1>6, <1>7 DEF SysInv, SideInv, CP!Events

-----------------------------------------------------------------------------
(***************************************************************************)
(* Chat and Message, and CP and MP, are instances of one module: their     *)
(* properties are the same formulas.                                       *)
(***************************************************************************)
\* What CP says of chats, Chat says.
LEMMA ChatMeans ==
    /\ CP!TypeOK => Chat!TypeOK
    /\ CP!NoSilentLoss => Chat!NoSilentLoss
    /\ CP!CountCoversAcked => Chat!CountCoversAcked
    /\ CP!CountNeverAhead => Chat!CountNeverAhead
    /\ CP!DriftBoundedByFaults => Chat!DriftBoundedByFaults
    /\ CP!AcceptedNumbersUnique => Chat!AcceptedNumbersUnique
    /\ \A S : Cardinality(S) = CP!Cardinality(S)
    /\ \A a : Chat!RowsOf(a) = CP!RowsOf(a) /\ Chat!Counting(a) = CP!Counting(a)
<1>1. CP!TypeOK => Chat!TypeOK
  BY DEF CP!TypeOK, Chat!TypeOK, CP!RequestsTypeOK, Chat!RequestsTypeOK, CP!RequestPc,
     Chat!RequestPc, CP!RedisTypeOK, Chat!RedisTypeOK, CP!Redis, Chat!Redis,
     CP!TablesTypeOK, Chat!TablesTypeOK, CP!Row, Chat!Row, CP!WorkersTypeOK,
     Chat!WorkersTypeOK, CP!WorkerPc, Chat!WorkerPc, CP!Copies, Chat!Copies,
     CP!Queue!QueueTypeOK, Chat!Queue!QueueTypeOK, CP!Queue!CopyState, Chat!Queue!CopyState,
     CP!BudgetTypeOK, Chat!BudgetTypeOK
<1>2. CP!NoSilentLoss => Chat!NoSilentLoss
  BY DEF CP!NoSilentLoss, Chat!NoSilentLoss, CP!Accepted, Chat!Accepted, CP!Stored,
     Chat!Stored, CP!Copies, Chat!Copies
<1>3. CP!CountCoversAcked => Chat!CountCoversAcked
  BY DEF CP!CountCoversAcked, Chat!CountCoversAcked, CP!RowsOf, Chat!RowsOf,
     CP!Copies, Chat!Copies, CP!Cardinality, Chat!Cardinality, CP!IsFiniteSet, Chat!IsFiniteSet
<1>4. \A S : Chat!Cardinality(S) = CP!Cardinality(S)
  BY DEF CP!Cardinality, Chat!Cardinality, CP!IsFiniteSet, Chat!IsFiniteSet
<1>5. \A a : Chat!RowsOf(a) = CP!RowsOf(a) /\ Chat!Counting(a) = CP!Counting(a)
  BY DEF CP!RowsOf, Chat!RowsOf, CP!Counting, Chat!Counting, CP!App, Chat!App,
     CP!Request, Chat!Request
<1>6. CP!CountNeverAhead => Chat!CountNeverAhead
  BY <1>4, <1>5 DEF CP!CountNeverAhead, Chat!CountNeverAhead
<1>7. CP!DriftBoundedByFaults => Chat!DriftBoundedByFaults
  BY <1>4, <1>5 DEF CP!DriftBoundedByFaults, Chat!DriftBoundedByFaults
<1>8. CP!AcceptedNumbersUnique => Chat!AcceptedNumbersUnique
  BY DEF CP!AcceptedNumbersUnique, Chat!AcceptedNumbersUnique, CP!Accepted, Chat!Accepted
<1>9. \A S : Cardinality(S) = CP!Cardinality(S)
  BY DEF CP!Cardinality, Cardinality, CP!IsFiniteSet, IsFiniteSet
<1> QED  BY <1>1, <1>2, <1>3, <1>5, <1>6, <1>7, <1>8, <1>9

\* What MP says of messages, Message says.
LEMMA MessageMeans ==
    /\ MP!TypeOK => Message!TypeOK
    /\ MP!NoSilentLoss => Message!NoSilentLoss
    /\ MP!CountCoversAcked => Message!CountCoversAcked
    /\ MP!CountNeverAhead => Message!CountNeverAhead
    /\ MP!DriftBoundedByFaults => Message!DriftBoundedByFaults
    /\ MP!AcceptedNumbersUnique => Message!AcceptedNumbersUnique
    /\ \A S : Cardinality(S) = MP!Cardinality(S)
    /\ \A a : Message!RowsOf(a) = MP!RowsOf(a) /\ Message!Counting(a) = MP!Counting(a)
<1>1. MP!TypeOK => Message!TypeOK
  BY DEF MP!TypeOK, Message!TypeOK, MP!RequestsTypeOK, Message!RequestsTypeOK, MP!RequestPc,
     Message!RequestPc, MP!RedisTypeOK, Message!RedisTypeOK, MP!Redis, Message!Redis,
     MP!TablesTypeOK, Message!TablesTypeOK, MP!Row, Message!Row, MP!WorkersTypeOK,
     Message!WorkersTypeOK, MP!WorkerPc, Message!WorkerPc, MP!Copies, Message!Copies,
     MP!Queue!QueueTypeOK, Message!Queue!QueueTypeOK, MP!Queue!CopyState,
     Message!Queue!CopyState, MP!BudgetTypeOK, Message!BudgetTypeOK
<1>2. MP!NoSilentLoss => Message!NoSilentLoss
  BY DEF MP!NoSilentLoss, Message!NoSilentLoss, MP!Accepted, Message!Accepted, MP!Stored,
     Message!Stored, MP!Copies, Message!Copies
<1>3. MP!CountCoversAcked => Message!CountCoversAcked
  BY DEF MP!CountCoversAcked, Message!CountCoversAcked, MP!RowsOf, Message!RowsOf, MP!Copies,
     Message!Copies, MP!Cardinality, Message!Cardinality, MP!IsFiniteSet, Message!IsFiniteSet
<1>4. \A S : Message!Cardinality(S) = MP!Cardinality(S)
  BY DEF MP!Cardinality, Message!Cardinality, MP!IsFiniteSet, Message!IsFiniteSet
<1>5. \A a : Message!RowsOf(a) = MP!RowsOf(a) /\ Message!Counting(a) = MP!Counting(a)
  BY DEF MP!RowsOf, Message!RowsOf, MP!Counting, Message!Counting, MP!App, Message!App,
     MP!Request, Message!Request
<1>6. MP!CountNeverAhead => Message!CountNeverAhead
  BY <1>4, <1>5 DEF MP!CountNeverAhead, Message!CountNeverAhead
<1>7. MP!DriftBoundedByFaults => Message!DriftBoundedByFaults
  BY <1>4, <1>5 DEF MP!DriftBoundedByFaults, Message!DriftBoundedByFaults
<1>8. MP!AcceptedNumbersUnique => Message!AcceptedNumbersUnique
  BY DEF MP!AcceptedNumbersUnique, Message!AcceptedNumbersUnique, MP!Accepted, Message!Accepted
<1>9. \A S : Cardinality(S) = MP!Cardinality(S)
  BY DEF MP!Cardinality, Cardinality, MP!IsFiniteSet, IsFiniteSet
<1> QED  BY <1>1, <1>2, <1>3, <1>5, <1>6, <1>7, <1>8, <1>9

-----------------------------------------------------------------------------
(***************************************************************************)
(* Both sides are EventStores: a step of the system is, for the clients of *)
(* each side, a step of one event of theirs, or nothing they see.          *)
(***************************************************************************)
\* A step of a side's own, as its clients see it.
LEMMA OwnStepRefines ==
    ASSUME MySQL, SysInv
    PROVE  /\ ChatNext => CP!StoreStep
           /\ MessageNext => MP!StoreStep
<1> USE SystemAssumption DEF IsFiniteSet, CP!IsFiniteSet, CP!UniqueViolation,
        MP!IsFiniteSet, MP!UniqueViolation, MySQL, ChatIds
<1>1. CP!StoreInv /\ MP!StoreInv
  BY DEF SysInv, CP!BaseInv, CP!StoreInv, MP!BaseInv, MP!StoreInv
<1>2. ChatNext => CP!StoreStep
  <2>1. ASSUME NEW r \in ChatRequests, CP!RequestStep(r)  PROVE CP!StoreStep
    BY <1>1, <2>1, CP!RequestRefines
  <2>2. ASSUME NEW w \in ChatWorkers,
               CP!TakeDelivery(w) \/ CP!HandlerStep(w) \/ CP!HandlerFault(w)
        PROVE  CP!StoreStep
    BY <1>1, <2>2, CP!WorkerRefines
  <2> QED  BY <2>1, <2>2, ChatMoves
<1>3. MessageNext => MP!StoreStep
  <2>1. ASSUME NEW m \in MessageRequests, MP!RequestStep(m)  PROVE MP!StoreStep
    BY <1>1, <2>1, MP!RequestRefines
  <2>2. ASSUME NEW m \in MessageRequests, MP!NumberOnly(m)  PROVE MP!StoreStep
    BY <2>2, MP!NumberOnlyRefines DEF SysInv
  <2>3. ASSUME NEW w \in MessageWorkers,
               MP!TakeDelivery(w) \/ MP!HandlerStep(w) \/ MP!HandlerFault(w)
        PROVE  MP!StoreStep
    BY <1>1, <2>3, MP!WorkerRefines
  <2> QED  BY <2>1, <2>2, <2>3, MessageMoves DEF SysInv
<1> QED  BY <1>2, <1>3

\* Every step, as both sides' clients see it: of the other side's steps they see nothing.
LEMMA SysRefines ==
    ASSUME MySQL, SysInv, [Next]_vars
    PROVE  CP!StoreStep /\ MP!StoreStep
<1> USE SystemAssumption DEF IsFiniteSet, CP!IsFiniteSet, CP!UniqueViolation,
        MP!IsFiniteSet, MP!UniqueViolation, MySQL, ChatIds
<1>1. CASE ChatNext
  <2>1. UNCHANGED <<msgReq, messages, msgCopy>>
    BY <1>1 DEF ChatNext, messageVars
  <2> QED  BY <1>1, <2>1, OwnStepRefines, MP!IdleRefines
<1>2. CASE MessageNext
  <2>1. UNCHANGED <<chatReq, chats, chatCopy>>
    BY <1>2 DEF MessageNext, chatVars
  <2> QED  BY <1>2, <2>1, OwnStepRefines, CP!IdleRefines
<1>3. CASE (\E e \in EventIds : LockExpires(e)) \/ UNCHANGED vars
  <2>1. UNCHANGED <<chatReq, chats, chatCopy>>
    BY <1>3, ChatExpiries DEF LockExpires, CP!LockExpires, CP!dbVars, CP!queueVars, vars, chatVars
  <2>2. UNCHANGED <<msgReq, messages, msgCopy>>
    BY <1>3, MessageExpiries DEF LockExpires, MP!LockExpires, MP!dbVars, MP!queueVars, vars,
       messageVars
  <2> QED  BY <2>1, <2>2, CP!IdleRefines, MP!IdleRefines
<1> QED  BY <1>1, <1>2, <1>3 DEF Next

\* What CP says of places and answers, Chat says.
LEMMA ChatPlaces ==
    /\ \A r : Chat!PlaceOf(r) = CP!PlaceOf(r) /\ Chat!PlaceOf(r)' = CP!PlaceOf(r)'
    /\ \A r : (Chat!Accepted(r) <=> CP!Accepted(r)) /\ (Chat!Accepted(r)' <=> CP!Accepted(r)')
<1>1. \A r : Chat!PlaceOf(r) = CP!PlaceOf(r)
  BY DEF Chat!PlaceOf, CP!PlaceOf, Chat!Stored, CP!Stored, Chat!CopiesIn, CP!CopiesIn,
     Chat!Copies, CP!Copies
<1>2. \A r : Chat!PlaceOf(r)' = CP!PlaceOf(r)'
  BY DEF Chat!PlaceOf, CP!PlaceOf, Chat!Stored, CP!Stored, Chat!CopiesIn, CP!CopiesIn,
     Chat!Copies, CP!Copies
<1> QED  BY <1>1, <1>2 DEF Chat!Accepted, CP!Accepted

\* What MP says of places and answers, Message says.
LEMMA MessagePlaces ==
    /\ \A r : Message!PlaceOf(r) = MP!PlaceOf(r) /\ Message!PlaceOf(r)' = MP!PlaceOf(r)'
    /\ \A r : /\ Message!Accepted(r) <=> MP!Accepted(r)
              /\ Message!Accepted(r)' <=> MP!Accepted(r)'
<1>1. \A r : Message!PlaceOf(r) = MP!PlaceOf(r)
  BY DEF Message!PlaceOf, MP!PlaceOf, Message!Stored, MP!Stored, Message!CopiesIn, MP!CopiesIn,
     Message!Copies, MP!Copies
<1>2. \A r : Message!PlaceOf(r)' = MP!PlaceOf(r)'
  BY DEF Message!PlaceOf, MP!PlaceOf, Message!Stored, MP!Stored, Message!CopiesIn, MP!CopiesIn,
     Message!Copies, MP!Copies
<1> QED  BY <1>1, <1>2 DEF Message!Accepted, MP!Accepted

\* A start, or a step, that is EventStore's for CP is EventStore's for Chat.
LEMMA ChatPromise ==
    /\ (\A r \in ChatRequests : CP!PlaceOf(r) = "none" /\ ~CP!Accepted(r)) => Chat!Promise!Init
    /\ CP!StoreStep => [Chat!Promise!Next]_(Chat!Promise!vars)
<1> DEFINE P == [r \in ChatRequests |-> CP!PlaceOf(r)]
           Q == [r \in ChatRequests |-> Chat!PlaceOf(r)]
           A == {r \in ChatRequests : CP!Accepted(r)}
           B == {r \in ChatRequests : Chat!Accepted(r)}
<1>1. P = Q /\ P' = Q'
  BY ChatPlaces
<1>2. A = B /\ A' = B'
  BY ChatPlaces
<1>3. \A k, from, to : CP!Promise!Move(k, from, to) <=> Chat!Promise!Move(k, from, to)
  BY <1>1, <1>2 DEF CP!Promise!Move, Chat!Promise!Move
<1>4. \A k : CP!Promise!Answer(k) <=> Chat!Promise!Answer(k)
  BY <1>1, <1>2 DEF CP!Promise!Answer, Chat!Promise!Answer
<1>5. \A k : CP!Promise!Resend(k) <=> Chat!Promise!Resend(k)
  BY <1>2, <1>3 DEF CP!Promise!Resend, Chat!Promise!Resend
<1>6. CP!Promise!Next => Chat!Promise!Next
  BY <1>3, <1>4, <1>5 DEF CP!Promise!Next, Chat!Promise!Next, CP!Promise!Publish,
     Chat!Promise!Publish, CP!Promise!Store, Chat!Promise!Store, CP!Promise!Park,
     Chat!Promise!Park
<1>7. UNCHANGED CP!Promise!vars => UNCHANGED Chat!Promise!vars
  BY <1>1, <1>2 DEF CP!Promise!vars, Chat!Promise!vars
<1>8. (\A r \in ChatRequests : CP!PlaceOf(r) = "none" /\ ~CP!Accepted(r)) => Chat!Promise!Init
  BY <1>1, <1>2 DEF Chat!Promise!Init
<1> QED  BY <1>6, <1>7, <1>8 DEF CP!StoreStep

\* A start, or a step, that is EventStore's for MP is EventStore's for Message.
LEMMA MessagePromise ==
    /\ (\A r \in MessageRequests : MP!PlaceOf(r) = "none" /\ ~MP!Accepted(r))
        => Message!Promise!Init
    /\ MP!StoreStep => [Message!Promise!Next]_(Message!Promise!vars)
<1> DEFINE P == [r \in MessageRequests |-> MP!PlaceOf(r)]
           Q == [r \in MessageRequests |-> Message!PlaceOf(r)]
           A == {r \in MessageRequests : MP!Accepted(r)}
           B == {r \in MessageRequests : Message!Accepted(r)}
<1>1. P = Q /\ P' = Q'
  BY MessagePlaces
<1>2. A = B /\ A' = B'
  BY MessagePlaces
<1>3. \A k, from, to : MP!Promise!Move(k, from, to) <=> Message!Promise!Move(k, from, to)
  BY <1>1, <1>2 DEF MP!Promise!Move, Message!Promise!Move
<1>4. \A k : MP!Promise!Answer(k) <=> Message!Promise!Answer(k)
  BY <1>1, <1>2 DEF MP!Promise!Answer, Message!Promise!Answer
<1>5. \A k : MP!Promise!Resend(k) <=> Message!Promise!Resend(k)
  BY <1>2, <1>3 DEF MP!Promise!Resend, Message!Promise!Resend
<1>6. MP!Promise!Next => Message!Promise!Next
  BY <1>3, <1>4, <1>5 DEF MP!Promise!Next, Message!Promise!Next, MP!Promise!Publish,
     Message!Promise!Publish, MP!Promise!Store, Message!Promise!Store, MP!Promise!Park,
     Message!Promise!Park
<1>7. UNCHANGED MP!Promise!vars => UNCHANGED Message!Promise!vars
  BY <1>1, <1>2 DEF MP!Promise!vars, Message!Promise!vars
<1>8. (\A r \in MessageRequests : MP!PlaceOf(r) = "none" /\ ~MP!Accepted(r)) => Message!Promise!Init
  BY <1>1, <1>2 DEF Message!Promise!Init
<1> QED  BY <1>6, <1>7, <1>8 DEF MP!StoreStep

\* At first nothing was published or answered.
LEMMA PromisesStart ==
    ASSUME Init
    PROVE  Chat!Promise!Init /\ Message!Promise!Init
<1> USE SystemAssumption DEF IsFiniteSet, CP!IsFiniteSet, CP!UniqueViolation,
        MP!IsFiniteSet, MP!UniqueViolation, ChatIds
<1>1. \A r \in ChatRequests : CP!PlaceOf(r) = "none" /\ ~CP!Accepted(r)
  BY SideInits, CP!PlacesInit
<1>2. \A r \in MessageRequests : MP!PlaceOf(r) = "none" /\ ~MP!Accepted(r)
  BY SideInits, MP!PlacesInit
<1> QED  BY <1>1, <1>2, ChatPromise, MessagePromise

-----------------------------------------------------------------------------
(***************************************************************************)
(* The theorems.                                                           *)
(***************************************************************************)
\* The invariant, for any number of requests, handlers and faults, and however ids collide.
LEMMA SysInvariant ==
    ASSUME MySQL
    PROVE  Spec => [](SysInv /\ SideInv)
<1>1. SysInv /\ SideInv /\ [Next]_vars => SysInv' /\ SideInv'
  BY SysStep
<1> QED  BY <1>1, SysInit, PTL DEF Spec

\* Both sides have their types in the one system they make.
THEOREM TypeCorrect ==
    ASSUME MySQL
    PROVE  Spec => []TypeOK
<1> USE SystemAssumption DEF IsFiniteSet, CP!IsFiniteSet, CP!UniqueViolation,
        MP!IsFiniteSet, MP!UniqueViolation, ChatIds
<1>1. SysInv => CP!TypeOK /\ MP!TypeOK
  BY CP!BaseMeans, MP!BaseMeans DEF SysInv
<1>2. SysInv => TypeOK
  BY <1>1, ChatMeans, MessageMeans DEF TypeOK
<1> QED  BY <1>2, SysInvariant, PTL

\* A chat or message promised with a 202 is stored or still with its broker, although a chat's
\* event and a message's event may draw one id and race for one row of the inbox.
THEOREM NothingLostTogether ==
    ASSUME MySQL
    PROVE  Spec => []NothingLost
<1> USE SystemAssumption DEF IsFiniteSet, CP!IsFiniteSet, CP!UniqueViolation,
        MP!IsFiniteSet, MP!UniqueViolation, ChatIds
<1>1. SysInv => CP!NoSilentLoss /\ MP!NoSilentLoss
  BY CP!BaseMeans, MP!BaseMeans DEF SysInv
<1>2. SysInv => NothingLost
  BY <1>1, ChatMeans, MessageMeans DEF NothingLost
<1> QED  BY <1>2, SysInvariant, PTL

\* An acknowledged chat or message was counted: neither kind of event finds its lock taken by
\* the other kind, because only a stored event is counted and an id is stored once.
THEOREM AckedAreCountedTogether ==
    ASSUME MySQL
    PROVE  Spec => []AckedAreCounted
<1> USE SystemAssumption DEF IsFiniteSet, CP!IsFiniteSet, CP!UniqueViolation,
        MP!IsFiniteSet, MP!UniqueViolation, ChatIds
<1>1. SysInv /\ SideInv => CP!CountCoversAcked /\ MP!CountCoversAcked
  BY CP!SideMeans, MP!SideMeans DEF SysInv, SideInv
<1>2. SysInv /\ SideInv => AckedAreCounted
  BY <1>1, ChatMeans, MessageMeans DEF AckedAreCounted
<1> QED  BY <1>2, SysInvariant, PTL

\* No two chats of an app and no two messages of a chat are stored under one number, however
\* handlers of both kinds interleave and whatever they skip because an id is taken.
THEOREM KeysUniqueTogether ==
    ASSUME MySQL
    PROVE  Spec => [](Chat!StoredNumbersUnique /\ Message!StoredNumbersUnique)
<1>1. SysInv => CP!StoredNumbersUnique /\ MP!StoredNumbersUnique
  BY DEF SysInv, CP!BaseInv, CP!AtomInv, MP!BaseInv, MP!AtomInv
<1>2. SysInv => Chat!StoredNumbersUnique /\ Message!StoredNumbersUnique
  BY <1>1 DEF CP!StoredNumbersUnique, Chat!StoredNumbersUnique, CP!SameKey, Chat!SameKey,
     MP!StoredNumbersUnique, Message!StoredNumbersUnique, MP!SameKey, Message!SameKey
<1> QED  BY <1>2, SysInvariant, PTL

\* Two clients answered 202 hold different numbers, chats of one app as well as messages of one
\* chat, which gets its numbers without the hash field a chat's number comes with.
THEOREM NumbersNeverSharedTogether ==
    ASSUME MySQL
    PROVE  Spec => [](Chat!AcceptedNumbersUnique /\ Message!AcceptedNumbersUnique)
<1> USE SystemAssumption DEF IsFiniteSet, CP!IsFiniteSet, CP!UniqueViolation,
        MP!IsFiniteSet, MP!UniqueViolation, ChatIds
<1>1. SysInv /\ SideInv => CP!AcceptedNumbersUnique /\ MP!AcceptedNumbersUnique
  BY CP!SideMeans, MP!SideMeans DEF SysInv, SideInv
<1>2. SysInv /\ SideInv => Chat!AcceptedNumbersUnique /\ Message!AcceptedNumbersUnique
  BY <1>1, ChatMeans, MessageMeans
<1> QED  BY <1>2, SysInvariant, PTL

\* Redis counts neither a chat nor a message that is not stored, nor one of them twice, although
\* an expired or a taken lock is one for both kinds of events.
THEOREM NeverAheadTogether ==
    ASSUME MySQL
    PROVE  Spec => [](Chat!CountNeverAhead /\ Message!CountNeverAhead)
<1> USE SystemAssumption DEF IsFiniteSet, CP!IsFiniteSet, CP!UniqueViolation,
        MP!IsFiniteSet, MP!UniqueViolation, ChatIds
<1>1. SysInv /\ SideInv => CP!CountNeverAhead /\ MP!CountNeverAhead
  BY CP!SideMeans, MP!SideMeans DEF SysInv, SideInv
<1>2. SysInv /\ SideInv => Chat!CountNeverAhead /\ Message!CountNeverAhead
  BY <1>1, ChatMeans, MessageMeans
<1> QED  BY <1>2, SysInvariant, PTL

\* The counters of chats and of messages trail their tables by what is under way and, together,
\* by no more than the faults both sides had: they do not drift twice for one fault.
THEOREM DriftTakesFaultsTogether ==
    ASSUME MySQL
    PROVE  Spec => []DriftSharesFaults
<1>0. \A r, k, o, s, m, p, f \in Nat, x, y \in Int :
        r <= x + k + o /\ s <= y + m + p /\ x + y <= f => r + s <= k + o + m + p + f
  OBVIOUS
<1> USE SystemAssumption DEF IsFiniteSet, CP!IsFiniteSet, CP!UniqueViolation,
        MP!IsFiniteSet, MP!UniqueViolation, ChatIds
<1>1. ASSUME SysInv, SideInv, NEW a \in Apps, NEW c \in ChatIds
      PROVE  Cardinality(Chat!RowsOf(a)) + Cardinality(Message!RowsOf(c))
                <= chatCnt[a] + Cardinality(Chat!Counting(a))
                   + msgCnt[c] + Cardinality(Message!Counting(c)) + faults
  <2>1. CP!Lost(a) + MP!Lost(c) <= faults /\ faults \in Nat
    BY <1>1 DEF SideInv, LostInv, SysInv, CP!BaseInv, CP!TypeInv, CP!BudgetTypeOK
  <2> DEFINE chatRows == Cardinality(Chat!RowsOf(a))
             chatOpen == Cardinality(Chat!Counting(a))
             msgRows == Cardinality(Message!RowsOf(c))
             msgOpen == Cardinality(Message!Counting(c))
  <2>2. /\ chatRows \in Nat /\ chatOpen \in Nat /\ chatCnt[a] \in Nat
        /\ CP!Lost(a) \in Int /\ chatRows <= CP!Lost(a) + chatCnt[a] + chatOpen
    BY <1>1, CP!LostCovers, ChatMeans DEF SysInv
  <2>3. /\ msgRows \in Nat /\ msgOpen \in Nat /\ msgCnt[c] \in Nat
        /\ MP!Lost(c) \in Int /\ msgRows <= MP!Lost(c) + msgCnt[c] + msgOpen
    BY <1>1, MP!LostCovers, MessageMeans DEF SysInv
  <2> HIDE DEF chatRows, chatOpen, msgRows, msgOpen
  <2>4. chatRows + msgRows <= chatCnt[a] + chatOpen + msgCnt[c] + msgOpen + faults
    BY <1>0, <2>1, <2>2, <2>3
  <2> QED  BY <2>4 DEF chatRows, chatOpen, msgRows, msgOpen
<1>2. SysInv /\ SideInv => DriftSharesFaults
  BY <1>1 DEF DriftSharesFaults
<1> QED  BY <1>2, SysInvariant, PTL

\* The inbox is the disjoint union of the two tables' events: each id is spent on one row of
\* one table, whichever handler of whichever kind comes first.
THEOREM OneRowEach ==
    ASSUME MySQL
    PROVE  Spec => []OneRowPerEvent
<1> USE SystemAssumption DEF IsFiniteSet, CP!IsFiniteSet, CP!UniqueViolation,
        MP!IsFiniteSet, MP!UniqueViolation, ChatIds, Cardinality, CP!Cardinality, MP!Cardinality
<1>1. ASSUME SysInv
      PROVE  /\ CP!Events \subseteq inbox /\ IsFiniteSet(CP!Events)
             /\ Cardinality(CP!Events) = Cardinality(chats)
             /\ MP!Events \subseteq inbox /\ IsFiniteSet(MP!Events)
             /\ Cardinality(MP!Events) = Cardinality(messages)
  BY <1>1, CP!BaseMeans, MP!BaseMeans DEF SysInv
<1> HIDE DEF IsFiniteSet, Cardinality
<1>2. ChatEvents = CP!Events /\ MessageEvents = MP!Events
  BY DEF ChatEvents, MessageEvents, CP!Events, MP!Events
<1>3. SysInv => OneRowPerEvent
  <2> SUFFICES ASSUME SysInv  PROVE OneRowPerEvent
    OBVIOUS
  <2>1. inbox = CP!Events \cup MP!Events
    BY <1>1 DEF SysInv
  <2>2. CP!Events \cap MP!Events = {}
    BY DEF SysInv
  <2> DEFINE both == Cardinality(CP!Events \cup MP!Events)
  <2>3. both = Cardinality(CP!Events) + Cardinality(MP!Events)
               - Cardinality(CP!Events \cap MP!Events)
    BY <1>1, FS_Union
  <2>4. /\ Cardinality(CP!Events \cap MP!Events) = 0
        /\ Cardinality(CP!Events) \in Nat /\ Cardinality(MP!Events) \in Nat
    BY <1>1, <2>2, FS_EmptySet, FS_CardinalityType
  <2> QED  BY <1>1, <1>2, <2>1, <2>3, <2>4 DEF OneRowPerEvent
<1> QED  BY <1>3, SysInvariant, PTL

\* To its clients each side is an EventStore of its own, whatever the other side does to the
\* inbox, the locks and the faults they share: the services LoadTest talks to.
THEOREM BothSidesAreEventStores ==
    ASSUME MySQL
    PROVE  Spec => BothAreEventStores
<1>1. SysInv /\ [Next]_vars => /\ [Chat!Promise!Next]_(Chat!Promise!vars)
                              /\ [Message!Promise!Next]_(Message!Promise!vars)
  BY SysRefines, ChatPromise, MessagePromise
<1>2. Spec => Chat!Promise!Spec
  BY <1>1, PromisesStart, SysInvariant, PTL DEF Spec, Chat!Promise!Spec
<1>3. Spec => Message!Promise!Spec
  BY <1>1, PromisesStart, SysInvariant, PTL DEF Spec, Message!Promise!Spec
<1> QED  BY <1>2, <1>3 DEF BothAreEventStores, Chat!ImplementsEventStore,
            Message!ImplementsEventStore
=============================================================================
