---------------------------- MODULE ChatCreation ----------------------------
(***************************************************************************)
(* Creating a chat, end to end: POST /apps/:token/chats takes a number     *)
(* from Redis and publishes a CreateChatEvent (ChatService.create); a      *)
(* consumer writes the inbox row and the chat row in one MySQL transaction *)
(* and then counts the chat in Redis (ChatReplicationEventHandler).        *)
(*                                                                         *)
(* Every await of the code is a step boundary here.  The faults are those  *)
(* the code itself expects: Redis, MySQL or RabbitMQ failing a call, a     *)
(* reply or a channel lost, a process crash, a Redis restart from its last *)
(* snapshot.  Faults and restarts are bounded by MaxFaults, MaxRestarts.   *)
(***************************************************************************)
EXTENDS Naturals, FiniteSets

CONSTANTS
    Apps,           \* ids of the rows of table apps
    Requests,       \* the POST requests clients may send
    EventIds,       \* values generateUniqueEventId may return
    Workers,        \* concurrent handler slots over all consumer processes
    MaxSends,       \* copies the publisher may send of one event
    DeliveryLimit,  \* redeliveries the quorum queue allows
    MaxFaults,      \* failed calls, lost replies, crashes (bound)
    MaxRestarts,    \* Redis restarts (bound)
    ExpiringLocks,  \* the event ids whose lock may expire (bound)
    DriverCode,     \* error.parent.code of a unique violation
    None

UniqueViolation == "23505"      \* the code inbox.repository.ts compares with

ASSUME BoundsAssumption ==
    /\ MaxSends \in Nat \ {0}
    /\ DeliveryLimit \in Nat
    /\ MaxFaults \in Nat
    /\ MaxRestarts \in Nat
    /\ ExpiringLocks \subseteq EventIds

\* mysql2, the dialect main.connection.ts fixes, reports ER_DUP_ENTRY; pg,
\* which package.json also installs, would report 23505.
ASSUME DriverAssumption == DriverCode \in {"ER_DUP_ENTRY", UniqueViolation}

ASSUME NoneAssumption == None \notin Apps \cup EventIds

\* prefetchCount bounds what a consumer process works on at once.
ASSUME WorkersAssumption == IsFiniteSet(Workers)

Copies == Requests \X (1 .. MaxSends)

VARIABLES
    req,        \* the API side: one record per request
    gen,        \* Redis app:{id}:chat_number_generator
    hash,       \* Redis hash 'chats': fields aid_{app}_cnum_{number}
    cnt,        \* Redis app:{id}:chat_count_actual
    lock,       \* Redis processed_for_count:{messageId}
    rdb,        \* the snapshot Redis reloads when it restarts
    inbox,      \* MySQL table inbox: committed event_ids
    chats,      \* MySQL table chats: committed rows
    worker,     \* the consumer side: one record per handler slot
    copy, tries, \* the quorum queue
    faults, restarts

dbVars == <<inbox, chats>>
redisVars == <<gen, hash, cnt, lock>>
queueVars == <<copy, tries>>
vars == <<req, redisVars, rdb, dbVars, worker, queueVars, faults, restarts>>

Queue == INSTANCE QuorumQueue WITH Messages <- Copies

-----------------------------------------------------------------------------
RequestPc == {"start", "number", "init", "publish", "confirm",
              "accepted", "failed", "notFound"}

WorkerPc == {"idle", "validate", "insert", "commit", "count", "settle", "failed"}

\* A row of chats.  by is the request whose event made the row: it stands for
\* the row's own auto-increment id and no guard reads it.
Row == [app : Apps, num : Nat, by : Requests]

Redis == [gen : [Apps -> Nat], hash : SUBSET (Apps \X Nat),
          cnt : [Apps -> Nat], lock : SUBSET EventIds]

RequestsTypeOK ==
    req \in [Requests -> [pc : RequestPc, app : Apps \cup {None},
                          num : Nat, eid : EventIds \cup {None}]]

RedisTypeOK ==
    /\ gen \in [Apps -> Nat]
    /\ hash \in SUBSET (Apps \X Nat)
    /\ cnt \in [Apps -> Nat]
    /\ lock \in SUBSET EventIds
    /\ rdb \in Redis

TablesTypeOK == inbox \in SUBSET EventIds /\ chats \in SUBSET Row

WorkersTypeOK ==
    /\ worker \in [Workers -> [pc : WorkerPc, copy : Copies \cup {None},
                               live : BOOLEAN]]
    /\ \A w \in Workers : worker[w].pc # "idle" => worker[w].copy \in Copies

BudgetTypeOK == faults \in 0 .. MaxFaults /\ restarts \in 0 .. MaxRestarts

\* Every variable has its type, and a busy handler holds a message.
TypeOK ==
    /\ RequestsTypeOK
    /\ RedisTypeOK
    /\ TablesTypeOK
    /\ WorkersTypeOK
    /\ Queue!QueueTypeOK
    /\ BudgetTypeOK

EmptyRedis == [gen |-> [a \in Apps |-> 0], hash |-> {},
               cnt |-> [a \in Apps |-> 0], lock |-> {}]

IdleWorker == [pc |-> "idle", copy |-> None, live |-> FALSE]

Init ==
    /\ req = [r \in Requests |->
                [pc |-> "start", app |-> None, num |-> 0, eid |-> None]]
    /\ gen = EmptyRedis.gen
    /\ hash = EmptyRedis.hash
    /\ cnt = EmptyRedis.cnt
    /\ lock = EmptyRedis.lock
    /\ rdb = EmptyRedis
    /\ inbox = {}
    /\ chats = {}
    /\ worker = [w \in Workers |-> IdleWorker]
    /\ Queue!QueueInit
    /\ faults = 0
    /\ restarts = 0

\* One more fault of the budget.
Fault ==
    /\ faults < MaxFaults
    /\ faults' = faults + 1
    /\ UNCHANGED restarts

NoFault == UNCHANGED <<faults, restarts>>

-----------------------------------------------------------------------------
(***************************************************************************)
(* The API side: ChatService.create                                        *)
(***************************************************************************)
apiUnchanged == UNCHANGED <<rdb, dbVars, worker>>

\* appRepository.findByToken finds the app, or nothing: 404.
FindApp(r) ==
    /\ req[r].pc = "start"
    /\ \/ \E a \in Apps :
            req' = [req EXCEPT ![r].pc = "number", ![r].app = a]
       \/ req' = [req EXCEPT ![r].pc = "notFound"]
    /\ UNCHANGED <<redisVars, queueVars>> /\ apiUnchanged /\ NoFault

\* Mutant of GetNextChatNumber: the number is counted in MySQL, not drawn in Redis.
NumberFromTable(r) ==
    LET a == req[r].app IN
    /\ req[r].pc = "number"
    /\ req' = [req EXCEPT ![r].pc = "init",
                          ![r].num = Cardinality({row \in chats : row.app = a}) + 1]
    /\ UNCHANGED <<redisVars, queueVars>> /\ apiUnchanged /\ NoFault

\* INCR of the app's generator; its reply is the chat's number.
GetNextChatNumber(r) ==
    LET a == req[r].app IN
    /\ req[r].pc = "number"
    /\ gen' = [gen EXCEPT ![a] = @ + 1]
    /\ req' = [req EXCEPT ![r].pc = "init", ![r].num = gen[a] + 1]
    /\ UNCHANGED <<hash, cnt, lock, queueVars>> /\ apiUnchanged /\ NoFault

\* HSETNX of the chat's field in hash 'chats'.
InitializeChat(r) ==
    /\ req[r].pc = "init"
    /\ hash' = hash \cup {<<req[r].app, req[r].num>>}
    /\ req' = [req EXCEPT ![r].pc = "publish"]
    /\ UNCHANGED <<gen, cnt, lock, queueVars>> /\ apiUnchanged /\ NoFault

\* crypto.randomInt over a fixed range: any value of it, whether or not an
\* earlier event has it too.
generateUniqueEventId == EventIds

\* amqpConnection.publish hands the event to the broker ...
PublishEvent(r) ==
    /\ req[r].pc = "publish"
    /\ \E e \in generateUniqueEventId :
            req' = [req EXCEPT ![r].pc = "confirm", ![r].eid = e]
    /\ Queue!Publish(<<r, 1>>)
    /\ UNCHANGED redisVars /\ apiUnchanged /\ NoFault

\* ... and resolves when the broker confirms it: the client gets its number.
ConfirmPublish(r) ==
    /\ req[r].pc = "confirm"
    /\ req' = [req EXCEPT ![r].pc = "accepted"]
    /\ UNCHANGED <<redisVars, queueVars>> /\ apiUnchanged /\ NoFault

\* A call of the request fails, or the API process dies: the client gets a
\* 500 or no answer.  Whatever the request did so far stays done.
RequestFails(r) ==
    /\ req[r].pc \in {"start", "number", "init", "publish", "confirm"}
    /\ req' = [req EXCEPT ![r].pc = "failed"]
    /\ UNCHANGED <<redisVars, queueVars>> /\ apiUnchanged /\ Fault

\* The reply to INCR is lost; ioredis sends the command again on reconnect.
NumberReplyLost(r) ==
    /\ req[r].pc = "number"
    /\ gen' = [gen EXCEPT ![req[r].app] = @ + 1]
    /\ UNCHANGED <<req, hash, cnt, lock, queueVars>> /\ apiUnchanged /\ Fault

\* The connection is lost before the confirm; amqp-connection-manager sends
\* the same event again on reconnect.
Republish(r) ==
    /\ req[r].pc = "confirm"
    /\ \E k \in 2 .. MaxSends :
            /\ copy[<<r, k - 1>>] # "absent"
            /\ Queue!Publish(<<r, k>>)
    /\ UNCHANGED <<req, redisVars>> /\ apiUnchanged /\ Fault

-----------------------------------------------------------------------------
(***************************************************************************)
(* The consumer side: ChatReplicationEventHandler                          *)
(***************************************************************************)
Request(w) == worker[w].copy[1]
EventId(w) == req[Request(w)].eid
App(w) == req[Request(w)].app
NewRow(w) == [app |-> App(w), num |-> req[Request(w)].num, by |-> Request(w)]

SameKey(row1, row2) == row1.app = row2.app /\ row1.num = row2.num

\* Another open transaction holds the index entry w is about to insert: MySQL
\* makes w wait until that transaction ends.
InboxLocked(w) ==
    \E v \in Workers : /\ worker[v].pc \in {"insert", "commit"}
                       /\ EventId(v) = EventId(w)

ChatKeyLocked(w) ==
    \E v \in Workers : /\ worker[v].pc = "commit"
                       /\ SameKey(NewRow(v), NewRow(w))

Goto(w, pc) == worker' = [worker EXCEPT ![w].pc = pc]

handlerUnchanged == UNCHANGED <<req, gen, hash, rdb>>

\* Mutant of TakeDelivery: a consumer with noAck, settled on delivery.
TakeDeliveryNoAck(w) ==
    /\ worker[w].pc = "idle"
    /\ \E c \in Copies :
        /\ copy[c] = "ready"
        /\ copy' = [copy EXCEPT ![c] = "acked"]
        /\ worker' = [worker EXCEPT ![w] =
                        [pc |-> "validate", copy |-> c, live |-> FALSE]]
    /\ UNCHANGED <<tries, cnt, lock, dbVars>> /\ handlerUnchanged /\ NoFault

TakeDelivery(w) ==
    /\ worker[w].pc = "idle"
    /\ \E c \in Copies :
        /\ Queue!Deliver(c)
        /\ worker' = [worker EXCEPT ![w] =
                        [pc |-> "validate", copy |-> c, live |-> TRUE]]
    /\ UNCHANGED <<cnt, lock, dbVars>> /\ handlerUnchanged /\ NoFault

\* Mutant of validateEvent: the migration makes an index on event_id that is not unique.
validateEventNoIndex(e) == "new"

\* Mutant of validateEvent: every unique violation is taken for a repeat of the same
\* event, also when another event drew the id.
validateEventSkips(e) == IF e \notin inbox THEN "new" ELSE "duplicate"

\* What inboxRepository.validateEvent makes of the insert into inbox.
validateEvent(e) ==
    IF e \notin inbox THEN "new"
    ELSE IF DriverCode = UniqueViolation THEN "duplicate" ELSE "error"

AfterValidate == [new |-> "insert", duplicate |-> "count", error |-> "failed"]

\* Phase 1: the transaction opens with the insert into inbox.
ValidateEvent(w) ==
    /\ worker[w].pc = "validate"
    /\ ~InboxLocked(w)
    /\ Goto(w, AfterValidate[validateEvent(EventId(w))])
    /\ UNCHANGED <<cnt, lock, dbVars, queueVars>> /\ handlerUnchanged /\ NoFault

\* Mutant of CreateChat: the insert is not given the transaction.
CreateChatOutside(w) ==
    /\ worker[w].pc = "insert"
    /\ ~\E row \in chats : SameKey(row, NewRow(w))
    /\ chats' = chats \cup {NewRow(w)}
    /\ Goto(w, "commit")
    /\ UNCHANGED <<inbox, cnt, lock, queueVars>> /\ handlerUnchanged /\ NoFault

\* Mutant of CreateChat: the migration makes an index that is not unique.
CreateChatNoIndex(w) ==
    /\ worker[w].pc = "insert"
    /\ Goto(w, "commit")
    /\ UNCHANGED <<cnt, lock, dbVars, queueVars>> /\ handlerUnchanged /\ NoFault

\* The unique index on (app_id, chat_number): a taken key rolls back.
CreateChat(w) ==
    /\ worker[w].pc = "insert"
    /\ ~ChatKeyLocked(w)
    /\ Goto(w, IF \E row \in chats : SameKey(row, NewRow(w))
               THEN "failed" ELSE "commit")
    /\ UNCHANGED <<cnt, lock, dbVars, queueVars>> /\ handlerUnchanged /\ NoFault

WriteRows(w) ==
    /\ inbox' = inbox \cup {EventId(w)}
    /\ chats' = chats \cup {NewRow(w)}

Commit(w) ==
    /\ worker[w].pc = "commit"
    /\ WriteRows(w)
    /\ Goto(w, "count")
    /\ UNCHANGED <<cnt, lock, queueVars>> /\ handlerUnchanged /\ NoFault

\* Mutant of LockAndIncrement: no lock.
IncrementOnly(e, a) ==
    /\ cnt' = [cnt EXCEPT ![a] = @ + 1]
    /\ UNCHANGED lock

\* Mutant of LockAndIncrement: the lock's key is made from the app, not the event.
LockPerApp(e, a) ==
    IF \E r \in Requests : req[r].app = a /\ req[r].eid \in lock
    THEN UNCHANGED <<cnt, lock>>
    ELSE /\ lock' = lock \cup {e}
         /\ cnt' = [cnt EXCEPT ![a] = @ + 1]

\* ATOMIC_INCREMENT_SCRIPT: SET NX of the event's lock and INCR, as one step.
LockAndIncrement(e, a) ==
    IF e \in lock THEN UNCHANGED <<cnt, lock>>
    ELSE /\ lock' = lock \cup {e}
         /\ cnt' = [cnt EXCEPT ![a] = @ + 1]

\* Phase 2.
CountChat(w) ==
    /\ worker[w].pc = "count"
    /\ LockAndIncrement(EventId(w), App(w))
    /\ Goto(w, "settle")
    /\ UNCHANGED <<dbVars, queueVars>> /\ handlerUnchanged /\ NoFault

\* Mutant of Release: the slot forgets its message and still counts as busy.
ReleaseCopyOnly(w) == worker' = [worker EXCEPT ![w].copy = None]

Release(w) == worker' = [worker EXCEPT ![w] = IdleWorker]

\* A handler whose channel is gone has nothing left to settle: the broker took
\* the message back already.
AckIfLive(w) ==
    IF worker[w].live THEN Queue!Ack(worker[w].copy) ELSE UNCHANGED queueVars

ReturnIfLive(w) ==
    IF worker[w].live THEN Queue!Return(worker[w].copy) ELSE UNCHANGED queueVars

\* The handler returned: ack.
AckDelivery(w) ==
    /\ worker[w].pc = "settle"
    /\ AckIfLive(w)
    /\ Release(w)
    /\ UNCHANGED <<cnt, lock, dbVars>> /\ handlerUnchanged /\ NoFault

\* Mutant of NackDelivery: nack without requeue.
NackToDeadLetter(w) ==
    /\ worker[w].pc = "failed"
    /\ copy' = IF worker[w].live
               THEN [copy EXCEPT ![worker[w].copy] = "dead"] ELSE copy
    /\ Release(w)
    /\ UNCHANGED <<tries, cnt, lock, dbVars>> /\ handlerUnchanged /\ NoFault

\* The handler threw: createRabbitErrorHandler.  Errors of MySQL and Redis
\* carry no HTTP status, so the event is requeued (after 2 s) for another try.
NackDelivery(w) ==
    /\ worker[w].pc = "failed"
    /\ ReturnIfLive(w)
    /\ Release(w)
    /\ UNCHANGED <<cnt, lock, dbVars>> /\ handlerUnchanged /\ NoFault

-----------------------------------------------------------------------------
(***************************************************************************)
(* What goes wrong around the handler                                      *)
(***************************************************************************)

\* Mutant of HandlerError: an error of Phase 2 is logged and swallowed.
CountErrorSwallowed(w) ==
    /\ worker[w].pc \in {"validate", "insert", "commit", "count"}
    /\ Goto(w, IF worker[w].pc = "count" THEN "settle" ELSE "failed")
    /\ UNCHANGED <<cnt, lock, dbVars, queueVars>> /\ handlerUnchanged /\ Fault

\* A call of the handler throws and did nothing; an open transaction rolls
\* back.
HandlerError(w) ==
    /\ worker[w].pc \in {"validate", "insert", "commit", "count"}
    /\ Goto(w, "failed")
    /\ UNCHANGED <<cnt, lock, dbVars, queueVars>> /\ handlerUnchanged /\ Fault

\* COMMIT is executed, but its reply is lost: the handler sees an error.
CommitReplyLost(w) ==
    /\ worker[w].pc = "commit"
    /\ WriteRows(w)
    /\ Goto(w, "failed")
    /\ UNCHANGED <<cnt, lock, queueVars>> /\ handlerUnchanged /\ Fault

\* The script ran, but its reply is lost: ioredis sends it again when it
\* reconnects, or gives up.
CountReplyLost(w) ==
    /\ worker[w].pc = "count"
    /\ LockAndIncrement(EventId(w), App(w))
    /\ \E pc \in {"count", "failed"} : Goto(w, pc)
    /\ UNCHANGED <<dbVars, queueVars>> /\ handlerUnchanged /\ Fault

\* The consumer process dies.  It takes all its handlers along: here that is
\* one step, and one fault, for each of them.
ConsumerCrash(w) ==
    /\ worker[w].pc # "idle"
    /\ ReturnIfLive(w)
    /\ Release(w)
    /\ UNCHANGED <<cnt, lock, dbVars>> /\ handlerUnchanged /\ Fault

\* The broker drops the channel and takes the message back, while the handler
\* goes on with its work.
ChannelLost(w) ==
    /\ worker[w].pc # "idle"
    /\ worker[w].live
    /\ Queue!Return(worker[w].copy)
    /\ worker' = [worker EXCEPT ![w].live = FALSE]
    /\ UNCHANGED <<cnt, lock, dbVars>> /\ handlerUnchanged /\ Fault

\* Redis writes a snapshot (taken only while a restart may still read it).
RedisSave ==
    /\ restarts < MaxRestarts
    /\ rdb' = [gen |-> gen, hash |-> hash, cnt |-> cnt, lock |-> lock]
    /\ UNCHANGED <<req, redisVars, dbVars, worker, queueVars>> /\ NoFault

\* Redis comes back with its last snapshot, or, its container made anew with
\* no volume mounted, with nothing.
RedisRestart ==
    /\ restarts < MaxRestarts
    /\ \E image \in {rdb, EmptyRedis} :
        /\ gen' = image.gen
        /\ hash' = image.hash
        /\ cnt' = image.cnt
        /\ lock' = image.lock
        /\ rdb' = image
    /\ restarts' = restarts + 1
    /\ UNCHANGED <<req, dbVars, worker, queueVars, faults>>

\* The 24 h of a lock are over.  A lock outlives by far the seconds a client
\* spends on resending a command: it does not expire under a handler that is
\* still in Phase 2.
LockExpires(e) ==
    /\ e \in lock \cap ExpiringLocks
    /\ \A w \in Workers : worker[w].pc = "count" => EventId(w) # e
    /\ lock' = lock \ {e}
    /\ UNCHANGED <<req, gen, hash, cnt, rdb, dbVars, worker, queueVars>> /\ NoFault

-----------------------------------------------------------------------------
RequestStep(r) ==
    \/ FindApp(r) \/ GetNextChatNumber(r) \/ InitializeChat(r)
    \/ PublishEvent(r) \/ ConfirmPublish(r)
    \/ RequestFails(r) \/ NumberReplyLost(r) \/ Republish(r)

\* What a handler does on its own ...
HandlerStep(w) ==
    \/ ValidateEvent(w) \/ CreateChat(w) \/ Commit(w) \/ CountChat(w)
    \/ AckDelivery(w) \/ NackDelivery(w)

\* ... and what may happen to it.
HandlerFault(w) ==
    \/ HandlerError(w) \/ CommitReplyLost(w) \/ CountReplyLost(w)
    \/ ConsumerCrash(w) \/ ChannelLost(w)

Next ==
    \/ \E r \in Requests : RequestStep(r)
    \/ \E w \in Workers : TakeDelivery(w) \/ HandlerStep(w) \/ HandlerFault(w)
    \/ \E e \in EventIds : LockExpires(e)
    \/ RedisSave
    \/ RedisRestart

Spec == Init /\ [][Next]_vars

\* The broker delivers, and a handler that runs goes on; clients need not
\* call, and nothing has to go wrong.
Fairness ==
    \A w \in Workers : WF_vars(TakeDelivery(w)) /\ WF_vars(HandlerStep(w))

FairSpec == Spec /\ Fairness

-----------------------------------------------------------------------------
(***************************************************************************)
(* Properties                                                              *)
(***************************************************************************)
Accepted(r) == req[r].pc = "accepted"
Stored(r) == \E row \in chats : row.by = r
RowsOf(a) == {row \in chats : row.app = a}
Counting(a) == {w \in Workers : worker[w].pc = "count" /\ App(w) = a}

\* Phase 1 is all or nothing, whatever its handlers, their crashes and lost
\* replies do: the inbox holds exactly the event ids of the stored chats, and
\* each of them stored one chat.
InboxMatchesRows ==
    /\ inbox = {req[row.by].eid : row \in chats}
    /\ \A x, y \in chats : req[x.by].eid = req[y.by].eid => x = y

\* No two chats of an app are stored under one number, also when concurrent
\* handlers insert the same key after Redis issued a number twice.
StoredNumbersUnique == \A x, y \in chats : SameKey(x, y) => x = y

\* Two clients that were both answered 202 for one app hold different numbers.
AcceptedNumbersUnique ==
    \A r, q \in Requests :
        Accepted(r) /\ Accepted(q) /\ r # q /\ req[r].app = req[q].app
            => req[r].num # req[q].num

\* A chat the client was promised (202) is stored, or its event is still with
\* the broker, at worst in the dead-letter queue; it is never acknowledged away.
NoSilentLoss ==
    \A r \in Requests :
        Accepted(r) => \/ Stored(r)
                       \/ \E c \in Copies : /\ c[1] = r
                                            /\ copy[c] \in {"ready", "unacked", "dead"}

\* The event of r as its client sees it: EventStore's view of the queue and the table.
CopiesIn(r, states) == {c \in Copies : c[1] = r /\ copy[c] \in states}

PlaceOf(r) ==
    IF Stored(r) THEN "stored"
    ELSE IF CopiesIn(r, {"ready", "unacked"}) # {} THEN "queued"
    ELSE IF CopiesIn(r, {"dead"}) # {} THEN "parked"
    ELSE "none"

Promise == INSTANCE EventStore WITH
    Keys <- Requests,
    place <- [r \in Requests |-> PlaceOf(r)],
    answered <- {r \in Requests : Accepted(r)}

\* Whatever the handlers, the broker, MySQL and Redis do, a client sees an
\* EventStore: no event disappears between queue and table, a chat that is
\* stored stays, and each step moves one request's event.
ImplementsEventStore == Promise!Spec

\* Redis never counts a chat that is not stored, nor one chat twice: not by a
\* redelivery, a script sent twice, an expired lock or a restart.
CountNeverAhead == \A a \in Apps : cnt[a] <= Cardinality(RowsOf(a))

\* An acknowledged event has been counted: only an event that ends in the
\* dead-letter queue can be missing from the counter.
CountCoversAcked ==
    \A a \in Apps :
        Cardinality({row \in RowsOf(a) :
                        \E c \in Copies : c[1] = row.by /\ copy[c] = "acked"})
            <= cnt[a]

\* The counter trails the table by the handlers between Phase 1 and Phase 2
\* and by at most one chat for each fault: losing a count takes a fault.
DriftBoundedByFaults ==
    \A a \in Apps :
        Cardinality(RowsOf(a)) <= cnt[a] + Cardinality(Counting(a)) + faults

\* Retries are not endless: every event the broker takes is acknowledged or
\* dead-lettered in the end.
EveryEventSettles ==
    \A c \in Copies : copy[c] = "ready" ~> copy[c] \in {"acked", "dead"}

\* A promised chat is stored in the end, unless another chat drew the same
\* event id, if the delivery limit is not smaller than the number of faults.
AcceptedEventuallyStored ==
    \A r \in Requests :
        Accepted(r) ~> \E q \in Requests : Stored(q) /\ req[q].eid = req[r].eid

\* Once nothing is left to do, the counter of every app is the number of its
\* chats: the count the cron job will copy is right in the end.
CountsConverge == \A a \in Apps : <>[](cnt[a] = Cardinality(RowsOf(a)))
=============================================================================
