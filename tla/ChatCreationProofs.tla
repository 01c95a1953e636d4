------------------------- MODULE ChatCreationProofs -------------------------
(***************************************************************************)
(* Theorems about ChatCreation, for every set of apps, requests, event     *)
(* ids and handlers, and every bound.                                      *)
(***************************************************************************)
EXTENDS ChatCreation, TLAPS

\* The parts of a copy: its request and its number.
LEMMA CopyParts == \A c \in Copies : c[1] \in Requests /\ c[2] \in 1 .. MaxSends
  BY DEF Copies

\* Every request has its copies.
LEMMA CopyIn == \A r \in Requests, k \in 1 .. MaxSends : <<r, k>> \in Copies
  BY DEF Copies

-----------------------------------------------------------------------------
(***************************************************************************)
(* The queue.                                                              *)
(***************************************************************************)
QueueInv ==
    /\ Queue!QueueTypeOK
    /\ \A c \in Copies : copy[c] # "dead" => tries[c] <= DeliveryLimit

QueueMove(c) ==
    Queue!Publish(c) \/ Queue!Deliver(c) \/ Queue!Ack(c) \/ Queue!Return(c)

\* A move of one message keeps the queue's invariant and the other messages,
\* and nothing but an acknowledgement acknowledges.
LEMMA QueueMoves ==
    ASSUME QueueInv, NEW c \in Copies, QueueMove(c)
    PROVE  /\ QueueInv'
           /\ copy'[c] # "absent"
           /\ \A d \in Copies : d # c => copy'[d] = copy[d]
           /\ ~Queue!Ack(c) => copy'[c] # "acked"
<1> USE BoundsAssumption DEF QueueInv, Queue!QueueTypeOK, Queue!CopyState
<1>1. CASE Queue!Publish(c)  BY <1>1 DEF Queue!Publish
<1>2. CASE Queue!Deliver(c)  BY <1>2 DEF Queue!Deliver
<1>3. CASE Queue!Ack(c)  BY <1>3 DEF Queue!Ack
<1>4. CASE Queue!Return(c)
  <2>1. tries'[c] = tries[c] + 1 /\ tries[c] \in 0 .. DeliveryLimit
    BY <1>4 DEF Queue!Return
  <2>2. copy'[c] = IF tries[c] < DeliveryLimit THEN "ready" ELSE "dead"
    BY <1>4 DEF Queue!Return
  <2>3. \A d \in Copies : d # c => copy'[d] = copy[d] /\ tries'[d] = tries[d]
    BY <1>4 DEF Queue!Return
  <2>4. copy' \in [Copies -> Queue!CopyState] /\ tries' \in [Copies -> 0 .. DeliveryLimit + 1]
    BY <1>4, <2>1 DEF Queue!Return
  <2> QED  BY <2>1, <2>2, <2>3, <2>4
<1> QED  BY <1>1, <1>2, <1>3, <1>4 DEF QueueMove

-----------------------------------------------------------------------------
(***************************************************************************)
(* Types.  TypeOK is not inductive: that a handler writes a well-formed row *)
(* depends on what the request filled in before it published the event.    *)
(***************************************************************************)
Serving == {"number", "init", "publish", "confirm", "accepted"}

RequestInv ==
    /\ RequestsTypeOK
    /\ \A r \in Requests : req[r].pc \in Serving => req[r].app \in Apps

\* A published event names an app and has an event id.
PayloadInv ==
    \A c \in Copies : copy[c] # "absent" =>
        req[c[1]].app \in Apps /\ req[c[1]].eid \in EventIds

WorkerInv ==
    /\ WorkersTypeOK
    /\ \A w \in Workers : worker[w].pc # "idle" => copy[worker[w].copy] # "absent"

TypeInv ==
    /\ RequestInv
    /\ RedisTypeOK
    /\ TablesTypeOK
    /\ WorkerInv
    /\ QueueInv
    /\ PayloadInv
    /\ BudgetTypeOK

\* The types hold at the start.
LEMMA TypeInit == Init => TypeInv
<1> SUFFICES ASSUME Init PROVE TypeInv
  OBVIOUS
<1> USE BoundsAssumption, CopyParts DEF Init
<1>1. RequestInv  BY DEF RequestInv, RequestsTypeOK, RequestPc, Serving
<1>2. RedisTypeOK  BY DEF RedisTypeOK, Redis, EmptyRedis
<1>3. TablesTypeOK  BY DEF TablesTypeOK
<1>4. WorkerInv  BY DEF WorkerInv, WorkersTypeOK, WorkerPc, IdleWorker
<1>5. QueueInv /\ PayloadInv
  BY DEF QueueInv, PayloadInv, Queue!QueueInit, Queue!QueueTypeOK, Queue!CopyState
<1>6. BudgetTypeOK  BY DEF BudgetTypeOK
<1> QED  BY <1>1, <1>2, <1>3, <1>4, <1>5, <1>6 DEF TypeInv

\* A request step changes one request, and keeps what its event will carry.
LEMMA RequestMoves ==
    ASSUME TypeInv, NEW r \in Requests, RequestStep(r)
    PROVE  /\ RequestInv'
           /\ RedisTypeOK'
           /\ BudgetTypeOK'
           /\ \A q \in Requests : q # r => req'[q] = req[q]
           /\ req[r].app \in Apps => req'[r].app \in Apps
           /\ req[r].eid \in EventIds => req'[r].eid \in EventIds
<1> USE BoundsAssumption DEF TypeInv, RequestInv, RequestsTypeOK, RedisTypeOK,
        BudgetTypeOK, RequestPc, Serving, NoFault, Fault, apiUnchanged,
        redisVars, dbVars, queueVars
<1>1. CASE FindApp(r)  BY <1>1 DEF FindApp
<1>2. CASE GetNextChatNumber(r)
  <2>1. req[r].app \in Apps /\ gen[req[r].app] + 1 \in Nat
    BY <1>2 DEF GetNextChatNumber
  <2>2. RedisTypeOK'
    BY <1>2, <2>1 DEF GetNextChatNumber
  <2>3. req' = [req EXCEPT ![r].pc = "init", ![r].num = gen[req[r].app] + 1]
    BY <1>2 DEF GetNextChatNumber
  <2>4. RequestInv' /\ \A q \in Requests : q # r => req'[q] = req[q]
    BY ZenonT(30), <2>1, <2>3
  <2> QED  BY <1>2, <2>1, <2>2, <2>3, <2>4 DEF GetNextChatNumber
<1>3. CASE InitializeChat(r)
  <2>1. <<req[r].app, req[r].num>> \in Apps \X Nat
    BY <1>3 DEF InitializeChat
  <2>2. RedisTypeOK'
    BY <1>3, <2>1 DEF InitializeChat
  <2>3. req' = [req EXCEPT ![r].pc = "publish"] /\ req[r].pc = "init"
    BY <1>3 DEF InitializeChat
  <2>4. RequestInv' /\ \A q \in Requests : q # r => req'[q] = req[q]
    BY <2>3
  <2> QED  BY <1>3, <2>2, <2>3, <2>4 DEF InitializeChat
<1>4. CASE PublishEvent(r)
  <2>1. PICK e \in EventIds :
            req' = [req EXCEPT ![r].pc = "confirm", ![r].eid = e]
    BY <1>4 DEF PublishEvent, generateUniqueEventId
  <2>2. RequestInv' /\ \A q \in Requests : q # r => req'[q] = req[q]
    <3>1. req[r].pc = "publish"
      BY <1>4 DEF PublishEvent
    <3> QED  BY ZenonT(30), <2>1, <3>1
  <2>3. UNCHANGED <<gen, hash, cnt, lock, rdb, faults, restarts>>
    BY <1>4 DEF PublishEvent
  <2>4. RedisTypeOK' /\ BudgetTypeOK'
    BY <2>3
  <2> QED  BY <2>1, <2>2, <2>4
<1>5. CASE ConfirmPublish(r)  BY <1>5 DEF ConfirmPublish
<1>6. CASE RequestFails(r)
  <2>1. RequestInv' /\ \A q \in Requests : q # r => req'[q] = req[q]
    BY <1>6 DEF RequestFails
  <2>2. RedisTypeOK' /\ BudgetTypeOK'
    BY <1>6 DEF RequestFails
  <2> QED  BY <1>6, <2>1, <2>2 DEF RequestFails
<1>7. CASE NumberReplyLost(r)
  <2>1. RedisTypeOK'
    BY <1>7 DEF NumberReplyLost
  <2>2. RequestInv' /\ BudgetTypeOK' /\ UNCHANGED req
    BY <1>7 DEF NumberReplyLost
  <2> QED  BY <2>1, <2>2
<1>8. CASE Republish(r)  BY <1>8 DEF Republish
<1> QED  BY <1>1, <1>2, <1>3, <1>4, <1>5, <1>6, <1>7, <1>8 DEF RequestStep

\* What a request step does to the queue: it publishes a copy of its own event,
\* whose payload is complete, or leaves the queue alone.
LEMMA RequestPublishes ==
    ASSUME TypeInv, NEW r \in Requests, RequestStep(r)
    PROVE  \/ UNCHANGED queueVars
           \/ \E k \in 1 .. MaxSends :
                /\ Queue!Publish(<<r, k>>)
                /\ req'[r].app \in Apps /\ req'[r].eid \in EventIds
<1> USE BoundsAssumption DEF TypeInv, RequestInv, RequestsTypeOK, Serving
<1>1. CASE PublishEvent(r)
  <2>1. 1 \in 1 .. MaxSends
    OBVIOUS
  <2> QED  BY <1>1, <2>1 DEF PublishEvent, generateUniqueEventId
<1>2. CASE Republish(r)
  <2>1. PICK k \in 2 .. MaxSends :
            copy[<<r, k - 1>>] # "absent" /\ Queue!Publish(<<r, k>>)
    BY <1>2 DEF Republish
  <2>2. <<r, k - 1>> \in Copies /\ k \in 1 .. MaxSends
    BY CopyIn
  <2>3. req[r].app \in Apps /\ req[r].eid \in EventIds
    BY <2>1, <2>2 DEF PayloadInv
  <2> QED  BY <1>2, <2>1, <2>2, <2>3 DEF Republish
<1> QED
  BY <1>1, <1>2 DEF RequestStep, FindApp, GetNextChatNumber, InitializeChat,
     ConfirmPublish, RequestFails, NumberReplyLost

\* Requests keep the types.
LEMMA TypeRequest ==
    ASSUME TypeInv, NEW r \in Requests, RequestStep(r)
    PROVE  TypeInv'
<1>1. UNCHANGED <<rdb, dbVars, worker>>
  BY DEF RequestStep, FindApp, GetNextChatNumber, InitializeChat, PublishEvent,
     ConfirmPublish, RequestFails, NumberReplyLost, Republish, apiUnchanged
<1>2. RequestInv' /\ RedisTypeOK' /\ BudgetTypeOK'
  BY RequestMoves
<1>3. TablesTypeOK'
  BY <1>1 DEF TypeInv, TablesTypeOK, dbVars
<1>4. /\ QueueInv'
      /\ \A c \in Copies : copy[c] # "absent" => copy'[c] # "absent"
      /\ \A c \in Copies : copy'[c] # "absent" /\ copy[c] = "absent" =>
            c[1] = r /\ req'[r].app \in Apps /\ req'[r].eid \in EventIds
  <2>1. CASE UNCHANGED queueVars
    BY <2>1 DEF TypeInv, QueueInv, Queue!QueueTypeOK, queueVars
  <2>2. ASSUME NEW k \in 1 .. MaxSends, Queue!Publish(<<r, k>>),
               req'[r].app \in Apps, req'[r].eid \in EventIds
        PROVE  <1>4
    <3>1. <<r, k>> \in Copies /\ QueueMove(<<r, k>>)
      BY <2>2, CopyIn DEF QueueMove
    <3>2. /\ QueueInv'
          /\ copy'[<<r, k>>] # "absent"
          /\ \A d \in Copies : d # <<r, k>> => copy'[d] = copy[d]
      BY <3>1, QueueMoves DEF TypeInv
    <3> QED  BY <2>2, <3>2
  <2> QED  BY <2>1, <2>2, RequestPublishes
<1>5. PayloadInv'
  <2> SUFFICES ASSUME NEW c \in Copies, copy'[c] # "absent"
               PROVE  req'[c[1]].app \in Apps /\ req'[c[1]].eid \in EventIds
    BY DEF PayloadInv
  <2>1. CASE copy[c] = "absent"
    BY <2>1, <1>4
  <2>2. CASE copy[c] # "absent"
    BY <2>2, RequestMoves, CopyParts DEF TypeInv, PayloadInv
  <2> QED  BY <2>1, <2>2
<1>6. WorkerInv'
  <2>1. WorkersTypeOK'
    BY <1>1 DEF TypeInv, WorkerInv, WorkersTypeOK
  <2> QED  BY <1>1, <1>4, <2>1 DEF TypeInv, WorkerInv, WorkersTypeOK
<1> QED  BY <1>2, <1>3, <1>4, <1>5, <1>6 DEF TypeInv

\* One handler moves on with its message, or drops it.
OneHandler(w) ==
    /\ WorkersTypeOK'
    /\ \A v \in Workers : v # w => worker'[v] = worker[v]
    /\ worker'[w].pc = "idle" \/ worker'[w].copy = worker[w].copy

\* Goto changes one handler's place and nothing else of it.
LEMMA GotoMoves ==
    ASSUME WorkersTypeOK, NEW w \in Workers, NEW pc \in WorkerPc,
           worker[w].pc # "idle", Goto(w, pc)
    PROVE  OneHandler(w) /\ worker'[w].pc = pc /\ worker'[w].live = worker[w].live
BY DEF WorkersTypeOK, WorkerPc, Goto, OneHandler

\* Release makes one handler idle.
LEMMA ReleaseMoves ==
    ASSUME WorkersTypeOK, NEW w \in Workers, Release(w)
    PROVE  OneHandler(w) /\ worker'[w].pc = "idle"
BY DEF WorkersTypeOK, WorkerPc, Release, IdleWorker, OneHandler

\* What the event of a busy handler carries.
LEMMA PayloadTypes ==
    ASSUME TypeInv, NEW w \in Workers, worker[w].pc # "idle"
    PROVE  /\ worker[w].copy \in Copies
           /\ Request(w) \in Requests
           /\ App(w) \in Apps
           /\ EventId(w) \in EventIds
           /\ NewRow(w) \in Row
<1>1. worker[w].copy \in Copies /\ copy[worker[w].copy] # "absent"
  BY DEF TypeInv, WorkerInv, WorkersTypeOK
<1>2. Request(w) \in Requests /\ App(w) \in Apps /\ EventId(w) \in EventIds
  BY <1>1, CopyParts DEF TypeInv, PayloadInv, Request, App, EventId
<1>3. req[Request(w)].num \in Nat
  BY <1>2 DEF TypeInv, RequestInv, RequestsTypeOK
<1> QED  BY <1>1, <1>2, <1>3 DEF NewRow, Row

\* The script keeps the types of counters and locks.
LEMMA CountTypes ==
    ASSUME RedisTypeOK, NEW e \in EventIds, NEW a \in Apps,
           LockAndIncrement(e, a), UNCHANGED <<gen, hash, rdb>>
    PROVE  RedisTypeOK'
<1>1. cnt' \in [Apps -> Nat] /\ lock' \in SUBSET EventIds
  BY DEF RedisTypeOK, LockAndIncrement
<1> QED  BY <1>1 DEF RedisTypeOK

\* A commit writes a row of the table's type: a published event has an app and an id.
LEMMA WriteTypes ==
    ASSUME TypeInv, NEW w \in Workers, worker[w].pc # "idle", WriteRows(w)
    PROVE  TablesTypeOK'
BY PayloadTypes DEF TypeInv, TablesTypeOK, WriteRows

\* What a step of a handler, or a fault that hits it, may change: its own record
\* and the message it holds, and never anything of the API side.
HandlerFrame(w) ==
    /\ UNCHANGED <<req, gen, hash, rdb>>
    /\ RedisTypeOK' /\ TablesTypeOK' /\ BudgetTypeOK'
    /\ OneHandler(w)
    /\ UNCHANGED queueVars \/ QueueMove(worker[w].copy)

\* Faults stay within their bound.
LEMMA Budgets == ASSUME BudgetTypeOK, NoFault \/ Fault PROVE BudgetTypeOK'
BY BoundsAssumption DEF BudgetTypeOK, NoFault, Fault

\* Tables that do not change keep their type.
LEMMA TablesKept == ASSUME TablesTypeOK, UNCHANGED dbVars PROVE TablesTypeOK'
BY DEF TablesTypeOK, dbVars

\* So does Redis.
LEMMA RedisKept ==
    ASSUME RedisTypeOK, UNCHANGED <<gen, hash, cnt, lock, rdb>> PROVE RedisTypeOK'
BY DEF RedisTypeOK

\* What a handler's step must do to keep the types.
LEMMA HandlerMoves ==
    ASSUME TypeInv, NEW w \in Workers, HandlerStep(w) \/ HandlerFault(w)
    PROVE  worker[w].pc # "idle" /\ HandlerFrame(w)
<1> USE DEF handlerUnchanged
<1>0. RedisTypeOK /\ TablesTypeOK /\ WorkersTypeOK /\ BudgetTypeOK
  BY DEF TypeInv, WorkerInv
<1>a. {"insert", "commit", "count", "settle", "failed"} \subseteq WorkerPc
  BY DEF WorkerPc
<1>1. CASE ValidateEvent(w)
  <2>1. worker[w].pc # "idle" /\ UNCHANGED <<req, gen, hash, rdb>> /\ (NoFault \/ Fault)
    BY <1>1 DEF ValidateEvent
  <2>2. OneHandler(w)
    <3>1. AfterValidate[validateEvent(EventId(w))] \in WorkerPc
      BY <1>a DEF AfterValidate, validateEvent
    <3> QED  BY <1>0, <1>1, <2>1, <3>1, GotoMoves DEF ValidateEvent
  <2>3. TablesTypeOK'
    BY <1>0, <1>1, TablesKept DEF ValidateEvent, dbVars
  <2>4. RedisTypeOK'
    BY <1>0, <1>1, <2>1, RedisKept DEF ValidateEvent
  <2>5. UNCHANGED queueVars \/ QueueMove(worker[w].copy)
    BY <1>1 DEF ValidateEvent, QueueMove, queueVars
  <2> QED  BY <1>0, <2>1, <2>2, <2>3, <2>4, <2>5, Budgets DEF HandlerFrame
<1>2. CASE CreateChat(w)
  <2>1. worker[w].pc # "idle" /\ UNCHANGED <<req, gen, hash, rdb>> /\ (NoFault \/ Fault)
    BY <1>2 DEF CreateChat
  <2>2. OneHandler(w)
    <3>1. PICK pc \in {"failed", "commit"} : Goto(w, pc)
      BY <1>2 DEF CreateChat
    <3> QED  BY <1>0, <1>a, <2>1, <3>1, GotoMoves
  <2>3. TablesTypeOK'
    BY <1>0, <1>2, TablesKept DEF CreateChat, dbVars
  <2>4. RedisTypeOK'
    BY <1>0, <1>2, <2>1, RedisKept DEF CreateChat
  <2>5. UNCHANGED queueVars \/ QueueMove(worker[w].copy)
    BY <1>2 DEF CreateChat, QueueMove, queueVars
  <2> QED  BY <1>0, <2>1, <2>2, <2>3, <2>4, <2>5, Budgets DEF HandlerFrame
<1>3. CASE Commit(w)
  <2>1. worker[w].pc # "idle" /\ UNCHANGED <<req, gen, hash, rdb>> /\ (NoFault \/ Fault)
    BY <1>3 DEF Commit
  <2>2. OneHandler(w)
    BY <1>0, <1>a, <2>1, <1>3, GotoMoves DEF Commit
  <2>3. TablesTypeOK'
    BY <1>3, <2>1, WriteTypes DEF Commit
  <2>4. RedisTypeOK'
    BY <1>0, <1>3, <2>1, RedisKept DEF Commit
  <2>5. UNCHANGED queueVars \/ QueueMove(worker[w].copy)
    BY <1>3 DEF Commit, QueueMove, queueVars
  <2> QED  BY <1>0, <2>1, <2>2, <2>3, <2>4, <2>5, Budgets DEF HandlerFrame
<1>4. CASE CountChat(w)
  <2>1. worker[w].pc # "idle" /\ UNCHANGED <<req, gen, hash, rdb>> /\ (NoFault \/ Fault)
    BY <1>4 DEF CountChat
  <2>2. OneHandler(w)
    BY <1>0, <1>a, <2>1, <1>4, GotoMoves DEF CountChat
  <2>3. TablesTypeOK'
    BY <1>0, <1>4, TablesKept DEF CountChat, dbVars
  <2>4. RedisTypeOK'
    BY <1>0, <1>4, <2>1, PayloadTypes, CountTypes DEF CountChat
  <2>5. UNCHANGED queueVars \/ QueueMove(worker[w].copy)
    BY <1>4 DEF CountChat, QueueMove, queueVars
  <2> QED  BY <1>0, <2>1, <2>2, <2>3, <2>4, <2>5, Budgets DEF HandlerFrame
<1>5. CASE AckDelivery(w)
  <2>1. worker[w].pc # "idle" /\ UNCHANGED <<req, gen, hash, rdb>> /\ (NoFault \/ Fault)
    BY <1>5 DEF AckDelivery
  <2>2. OneHandler(w)
    BY <1>0, <1>5, ReleaseMoves DEF AckDelivery
  <2>3. TablesTypeOK'
    BY <1>0, <1>5, TablesKept DEF AckDelivery, dbVars
  <2>4. RedisTypeOK'
    BY <1>0, <1>5, <2>1, RedisKept DEF AckDelivery
  <2>5. UNCHANGED queueVars \/ QueueMove(worker[w].copy)
    BY <1>5 DEF AckDelivery, QueueMove, queueVars, AckIfLive
  <2> QED  BY <1>0, <2>1, <2>2, <2>3, <2>4, <2>5, Budgets DEF HandlerFrame
<1>6. CASE NackDelivery(w)
  <2>1. worker[w].pc # "idle" /\ UNCHANGED <<req, gen, hash, rdb>> /\ (NoFault \/ Fault)
    BY <1>6 DEF NackDelivery
  <2>2. OneHandler(w)
    BY <1>0, <1>6, ReleaseMoves DEF NackDelivery
  <2>3. TablesTypeOK'
    BY <1>0, <1>6, TablesKept DEF NackDelivery, dbVars
  <2>4. RedisTypeOK'
    BY <1>0, <1>6, <2>1, RedisKept DEF NackDelivery
  <2>5. UNCHANGED queueVars \/ QueueMove(worker[w].copy)
    BY <1>6 DEF NackDelivery, QueueMove, queueVars, ReturnIfLive
  <2> QED  BY <1>0, <2>1, <2>2, <2>3, <2>4, <2>5, Budgets DEF HandlerFrame
<1>7. CASE HandlerError(w)
  <2>1. worker[w].pc # "idle" /\ UNCHANGED <<req, gen, hash, rdb>> /\ (NoFault \/ Fault)
    BY <1>7 DEF HandlerError
  <2>2. OneHandler(w)
    BY <1>0, <1>a, <2>1, <1>7, GotoMoves DEF HandlerError
  <2>3. TablesTypeOK'
    BY <1>0, <1>7, TablesKept DEF HandlerError, dbVars
  <2>4. RedisTypeOK'
    BY <1>0, <1>7, <2>1, RedisKept DEF HandlerError
  <2>5. UNCHANGED queueVars \/ QueueMove(worker[w].copy)
    BY <1>7 DEF HandlerError, QueueMove, queueVars
  <2> QED  BY <1>0, <2>1, <2>2, <2>3, <2>4, <2>5, Budgets DEF HandlerFrame
<1>8. CASE CommitReplyLost(w)
  <2>1. worker[w].pc # "idle" /\ UNCHANGED <<req, gen, hash, rdb>> /\ (NoFault \/ Fault)
    BY <1>8 DEF CommitReplyLost
  <2>2. OneHandler(w)
    BY <1>0, <1>a, <2>1, <1>8, GotoMoves DEF CommitReplyLost
  <2>3. TablesTypeOK'
    BY <1>8, <2>1, WriteTypes DEF CommitReplyLost
  <2>4. RedisTypeOK'
    BY <1>0, <1>8, <2>1, RedisKept DEF CommitReplyLost
  <2>5. UNCHANGED queueVars \/ QueueMove(worker[w].copy)
    BY <1>8 DEF CommitReplyLost, QueueMove, queueVars
  <2> QED  BY <1>0, <2>1, <2>2, <2>3, <2>4, <2>5, Budgets DEF HandlerFrame
<1>9. CASE CountReplyLost(w)
  <2>1. worker[w].pc # "idle" /\ UNCHANGED <<req, gen, hash, rdb>> /\ (NoFault \/ Fault)
    BY <1>9 DEF CountReplyLost
  <2>2. OneHandler(w)
    <3>1. PICK pc \in {"failed", "count"} : Goto(w, pc)
      BY <1>9 DEF CountReplyLost
    <3> QED  BY <1>0, <1>a, <2>1, <3>1, GotoMoves
  <2>3. TablesTypeOK'
    BY <1>0, <1>9, TablesKept DEF CountReplyLost, dbVars
  <2>4. RedisTypeOK'
    BY <1>0, <1>9, <2>1, PayloadTypes, CountTypes DEF CountReplyLost
  <2>5. UNCHANGED queueVars \/ QueueMove(worker[w].copy)
    BY <1>9 DEF CountReplyLost, QueueMove, queueVars
  <2> QED  BY <1>0, <2>1, <2>2, <2>3, <2>4, <2>5, Budgets DEF HandlerFrame
<1>10. CASE ConsumerCrash(w)
  <2>1. worker[w].pc # "idle" /\ UNCHANGED <<req, gen, hash, rdb>> /\ (NoFault \/ Fault)
    BY <1>10 DEF ConsumerCrash
  <2>2. OneHandler(w)
    BY <1>0, <1>10, ReleaseMoves DEF ConsumerCrash
  <2>3. TablesTypeOK'
    BY <1>0, <1>10, TablesKept DEF ConsumerCrash, dbVars
  <2>4. RedisTypeOK'
    BY <1>0, <1>10, <2>1, RedisKept DEF ConsumerCrash
  <2>5. UNCHANGED queueVars \/ QueueMove(worker[w].copy)
    BY <1>10 DEF ConsumerCrash, QueueMove, queueVars, ReturnIfLive
  <2> QED  BY <1>0, <2>1, <2>2, <2>3, <2>4, <2>5, Budgets DEF HandlerFrame
<1>11. CASE ChannelLost(w)
  <2>1. worker[w].pc # "idle" /\ UNCHANGED <<req, gen, hash, rdb>> /\ (NoFault \/ Fault)
    BY <1>11 DEF ChannelLost
  <2>2. OneHandler(w)
    BY <1>0, <1>11 DEF ChannelLost, OneHandler, WorkersTypeOK
  <2>3. TablesTypeOK'
    BY <1>0, <1>11, TablesKept DEF ChannelLost, dbVars
  <2>4. RedisTypeOK'
    BY <1>0, <1>11, <2>1, RedisKept DEF ChannelLost
  <2>5. UNCHANGED queueVars \/ QueueMove(worker[w].copy)
    BY <1>11 DEF ChannelLost, QueueMove, queueVars
  <2> QED  BY <1>0, <2>1, <2>2, <2>3, <2>4, <2>5, Budgets DEF HandlerFrame
<1> QED
  BY <1>1, <1>2, <1>3, <1>4, <1>5, <1>6, <1>7, <1>8, <1>9, <1>10, <1>11
  DEF HandlerStep, HandlerFault

\* Handler steps, faults and deliveries leave every payload alone, and a message
\* once published stays known to the broker.
LEMMA TypeWorker ==
    ASSUME TypeInv, NEW w \in Workers,
           TakeDelivery(w) \/ HandlerStep(w) \/ HandlerFault(w)
    PROVE  TypeInv'
<1>1. ASSUME HandlerStep(w) \/ HandlerFault(w)  PROVE TypeInv'
  <2>1. worker[w].pc # "idle" /\ HandlerFrame(w)
    BY <1>1, HandlerMoves
  <2>2. worker[w].copy \in Copies /\ copy[worker[w].copy] # "absent"
    BY <2>1 DEF TypeInv, WorkerInv, WorkersTypeOK
  <2>3. QueueInv' /\ \A c \in Copies : copy'[c] # "absent" <=> copy[c] # "absent"
    <3>1. CASE UNCHANGED queueVars
      BY <3>1 DEF TypeInv, QueueInv, Queue!QueueTypeOK, queueVars
    <3>2. CASE QueueMove(worker[w].copy)
      BY <2>2, <3>2, QueueMoves DEF TypeInv
    <3> QED  BY <2>1, <3>1, <3>2 DEF HandlerFrame
  <2>4. RequestInv' /\ PayloadInv'
    BY <2>1, <2>3 DEF TypeInv, RequestInv, RequestsTypeOK, PayloadInv, HandlerFrame
  <2>5. WorkerInv'
    <3> SUFFICES ASSUME NEW v \in Workers, worker'[v].pc # "idle"
                 PROVE  copy'[worker'[v].copy] # "absent"
      BY <2>1 DEF WorkerInv, HandlerFrame, OneHandler
    <3>1. CASE v = w
      BY <2>1, <2>2, <2>3, <3>1 DEF HandlerFrame, OneHandler
    <3>2. CASE v # w
      <4>1. worker'[v] = worker[v]
        BY <2>1, <3>2 DEF HandlerFrame, OneHandler
      <4>2. worker[v].copy \in Copies /\ copy[worker[v].copy] # "absent"
        BY <4>1 DEF TypeInv, WorkerInv, WorkersTypeOK
      <4> QED  BY <2>3, <4>1, <4>2
    <3> QED  BY <3>1, <3>2
  <2> QED  BY <2>1, <2>3, <2>4, <2>5 DEF TypeInv, HandlerFrame
<1>2. ASSUME TakeDelivery(w)  PROVE TypeInv'
  <2>1. PICK c \in Copies :
            /\ Queue!Deliver(c)
            /\ worker' = [worker EXCEPT ![w] =
                            [pc |-> "validate", copy |-> c, live |-> TRUE]]
    BY <1>2 DEF TakeDelivery
  <2>2. UNCHANGED <<req, gen, hash, cnt, lock, rdb, dbVars, faults, restarts>>
    BY <1>2 DEF TakeDelivery, handlerUnchanged, NoFault, dbVars
  <2>3. QueueInv' /\ \A d \in Copies : copy'[d] # "absent" <=> copy[d] # "absent"
    <3>1. copy[c] = "ready" /\ QueueMove(c)
      BY <2>1 DEF Queue!Deliver, QueueMove
    <3> QED  BY <2>1, <3>1, QueueMoves DEF TypeInv
  <2>4. RequestInv' /\ PayloadInv'
    BY <2>2, <2>3 DEF TypeInv, RequestInv, RequestsTypeOK, PayloadInv
  <2>5. WorkerInv'
    <3>1. copy'[c] # "absent"
      BY <2>1, <2>3 DEF Queue!Deliver
    <3>2. WorkersTypeOK'
      BY <2>1 DEF TypeInv, WorkerInv, WorkersTypeOK, WorkerPc
    <3> QED  BY <2>1, <2>3, <3>1, <3>2 DEF TypeInv, WorkerInv, WorkersTypeOK
  <2>6. RedisTypeOK' /\ TablesTypeOK' /\ BudgetTypeOK'
    BY <2>2, RedisKept, TablesKept DEF TypeInv, BudgetTypeOK
  <2> QED  BY <2>3, <2>4, <2>5, <2>6 DEF TypeInv
<1> QED  BY <1>1, <1>2

\* Expiries, snapshots and restarts of Redis.
LEMMA TypeRedis ==
    ASSUME TypeInv, RedisSave \/ RedisRestart \/ \E e \in EventIds : LockExpires(e)
    PROVE  TypeInv'
<1> USE DEF dbVars, redisVars, queueVars
<1>1. UNCHANGED <<req, dbVars, worker, queueVars>>
  BY DEF RedisSave, RedisRestart, LockExpires
<1>2. RedisTypeOK'
  <2>1. CASE RedisSave
    BY <2>1 DEF TypeInv, RedisSave, RedisTypeOK, Redis
  <2>2. CASE RedisRestart
    <3>1. EmptyRedis \in Redis /\ rdb \in Redis
      BY DEF EmptyRedis, Redis, TypeInv, RedisTypeOK
    <3>2. PICK image \in Redis :
            /\ gen' = image.gen /\ hash' = image.hash
            /\ cnt' = image.cnt /\ lock' = image.lock /\ rdb' = image
      BY <2>2, <3>1 DEF RedisRestart
    <3> QED  BY <3>2 DEF RedisTypeOK, Redis
  <2>3. ASSUME NEW e \in EventIds, LockExpires(e)  PROVE RedisTypeOK'
    BY <2>3 DEF TypeInv, RedisTypeOK, LockExpires
  <2> QED  BY <2>1, <2>2, <2>3
<1>3. BudgetTypeOK'
  BY BoundsAssumption
  DEF TypeInv, BudgetTypeOK, RedisSave, RedisRestart, LockExpires, NoFault
<1>4. TablesTypeOK'
  BY <1>1, TablesKept DEF TypeInv
<1>5. RequestInv' /\ PayloadInv'
  BY <1>1 DEF TypeInv, RequestInv, RequestsTypeOK, PayloadInv
<1>6. WorkerInv' /\ QueueInv'
  BY <1>1 DEF TypeInv, WorkerInv, WorkersTypeOK, QueueInv, Queue!QueueTypeOK
<1> QED  BY <1>2, <1>3, <1>4, <1>5, <1>6 DEF TypeInv

\* Every step keeps the types.
LEMMA TypeStep == TypeInv /\ [Next]_vars => TypeInv'
<1> SUFFICES ASSUME TypeInv, [Next]_vars PROVE TypeInv'
  OBVIOUS
<1>1. CASE UNCHANGED vars
  BY <1>1 DEF vars, redisVars, dbVars, queueVars, TypeInv, RequestInv,
     RequestsTypeOK, RedisTypeOK, TablesTypeOK, WorkerInv, WorkersTypeOK,
     QueueInv, Queue!QueueTypeOK, PayloadInv, BudgetTypeOK
<1> QED  BY <1>1, TypeRequest, TypeWorker, TypeRedis DEF Next

\* TypeInv holds in every state.
LEMMA TypeInvariant == Spec => []TypeInv
  BY TypeInit, TypeStep, PTL DEF Spec

\* Every variable keeps its type, for any number of requests, handlers, faults
\* and restarts.
THEOREM TypeCorrect == Spec => []TypeOK
<1>1. TypeInv => TypeOK
  BY DEF TypeInv, TypeOK, RequestInv, WorkerInv, QueueInv
<1> QED  BY <1>1, TypeInvariant, PTL

-----------------------------------------------------------------------------
(***************************************************************************)
(* No silent loss.  Under the dialect the service runs on, a handler gets  *)
(* past Phase 1 by storing its chat only, and nothing unstores a chat; so  *)
(* an acknowledged event is stored.                                        *)
(***************************************************************************)
PastPhase1 == {"count", "settle"}

KeepInv ==
    /\ \A c \in Copies : copy[c] = "acked" => Stored(c[1])
    /\ \A w \in Workers : worker[w].pc \in PastPhase1 => Stored(Request(w))
    /\ \A r \in Requests :
        req[r].pc \in {"confirm", "accepted"} => copy[<<r, 1>>] # "absent"

\* Nothing is acknowledged, stored or accepted at the start.
LEMMA KeepInit == Init => KeepInv
  BY DEF Init, KeepInv, PastPhase1, IdleWorker, Queue!QueueInit, Copies

\* Rows are only added.
LEMMA StoredStays ==
    ASSUME NEW r \in Requests, Stored(r), chats \subseteq chats'
    PROVE  Stored(r)'
BY DEF Stored

\* How a handler can get past Phase 1, and who acknowledges.
LEMMA HandlerKeeps ==
    ASSUME DriverCode # UniqueViolation, TypeInv,
           NEW w \in Workers, HandlerStep(w) \/ HandlerFault(w)
    PROVE  /\ chats \subseteq chats'
           /\ worker'[w].pc \in PastPhase1 /\ worker[w].pc \notin PastPhase1
                => Stored(Request(w))'
           /\ \A c \in Copies : copy'[c] = "acked" /\ copy[c] # "acked"
                => c = worker[w].copy /\ worker[w].pc = "settle"
<1> USE DEF PastPhase1
<1>0. /\ QueueInv /\ WorkersTypeOK /\ worker[w].pc # "idle"
      /\ worker[w].copy \in Copies
  BY HandlerMoves DEF TypeInv, WorkerInv, WorkersTypeOK
<1>a. ASSUME Queue!Return(worker[w].copy) \/ UNCHANGED queueVars
      PROVE  \A c \in Copies : copy'[c] = "acked" => copy[c] = "acked"
  <2>1. CASE Queue!Return(worker[w].copy)
    <3>1. QueueMove(worker[w].copy) /\ ~Queue!Ack(worker[w].copy)
      BY <1>0, <2>1 DEF QueueMove, Queue!Return, Queue!Ack, QueueInv, Queue!QueueTypeOK
    <3> QED  BY <1>0, <3>1, QueueMoves
  <2> QED  BY <1>a, <2>1 DEF queueVars
<1>b. ASSUME NEW pc, Goto(w, pc) PROVE worker'[w].pc = pc
  BY <1>0, <1>b DEF Goto, WorkersTypeOK
<1>c. Release(w) => worker'[w].pc = "idle"
  BY <1>0 DEF Release, WorkersTypeOK, IdleWorker
<1>1. CASE ValidateEvent(w)
  <2>1. AfterValidate[validateEvent(EventId(w))] \in {"insert", "failed"}
    BY DEF AfterValidate, validateEvent
  <2>2. worker'[w].pc \in {"insert", "failed"}
    BY <1>1, <1>b, <2>1 DEF ValidateEvent
  <2> QED  BY <1>1, <2>2 DEF ValidateEvent, dbVars, queueVars
<1>2. CASE CreateChat(w)
  <2>1. worker'[w].pc \in {"failed", "commit"}
    BY <1>2, <1>b DEF CreateChat
  <2> QED  BY <1>2, <2>1 DEF CreateChat, dbVars, queueVars
<1>3. CASE Commit(w)
  <2>1. UNCHANGED <<req, queueVars>> /\ chats' = chats \cup {NewRow(w)}
    BY <1>3 DEF Commit, WriteRows, handlerUnchanged
  <2>2. Stored(Request(w))'
    <3>1. worker'[w].copy = worker[w].copy
      BY <1>0, <1>3 DEF Commit, Goto, WorkersTypeOK
    <3>2. NewRow(w).by = Request(w) /\ Request(w)' = Request(w)
      BY <3>1 DEF NewRow, Request
    <3>3. NewRow(w) \in chats'
      BY <2>1
    <3> QED  BY <3>2, <3>3 DEF Stored
  <2> QED  BY <2>1, <2>2 DEF queueVars
<1>4. CASE CountChat(w)  BY <1>4 DEF CountChat, dbVars, queueVars
<1>5. CASE AckDelivery(w)
  <2>1. worker[w].pc = "settle" /\ UNCHANGED dbVars
    BY <1>5 DEF AckDelivery, dbVars
  <2>2. \A c \in Copies : c # worker[w].copy => copy'[c] = copy[c]
    BY <1>0, <1>5, QueueMoves DEF AckDelivery, AckIfLive, QueueMove, queueVars
  <2> QED  BY <2>1, <2>2 DEF dbVars
<1>6. CASE NackDelivery(w)
  BY <1>6, <1>a, <1>c DEF NackDelivery, ReturnIfLive, dbVars
<1>7. CASE HandlerError(w)  BY <1>7, <1>b DEF HandlerError, dbVars, queueVars
<1>8. CASE CommitReplyLost(w)
  BY <1>8, <1>b DEF CommitReplyLost, WriteRows, queueVars
<1>9. CASE CountReplyLost(w)  BY <1>9 DEF CountReplyLost, dbVars, queueVars
<1>10. CASE ConsumerCrash(w)
  BY <1>10, <1>a, <1>c DEF ConsumerCrash, ReturnIfLive, dbVars
<1>11. CASE ChannelLost(w)
  <2>1. worker'[w].pc = worker[w].pc
    BY <1>0, <1>11 DEF ChannelLost, WorkersTypeOK
  <2> QED  BY <1>11, <1>a, <2>1 DEF ChannelLost, dbVars
<1> QED
  BY <1>1, <1>2, <1>3, <1>4, <1>5, <1>6, <1>7, <1>8, <1>9, <1>10, <1>11
  DEF HandlerStep, HandlerFault

\* Requests keep KeepInv: one is accepted only after its first copy was sent.
LEMMA KeepRequest ==
    ASSUME TypeInv, KeepInv, NEW r \in Requests, RequestStep(r)
    PROVE  KeepInv'
<1>1. UNCHANGED <<chats, worker>>
  BY DEF RequestStep, FindApp, GetNextChatNumber, InitializeChat, PublishEvent,
     ConfirmPublish, RequestFails, NumberReplyLost, Republish, apiUnchanged, dbVars
<1>2. /\ \A c \in Copies : copy[c] # "absent" => copy'[c] # "absent"
      /\ \A c \in Copies : copy'[c] = "acked" => copy[c] = "acked"
  <2>1. CASE UNCHANGED queueVars
    BY <2>1 DEF queueVars
  <2>2. ASSUME NEW k \in 1 .. MaxSends, Queue!Publish(<<r, k>>)  PROVE <1>2
    <3>1. /\ <<r, k>> \in Copies /\ QueueMove(<<r, k>>) /\ QueueInv
          /\ ~Queue!Ack(<<r, k>>)
      BY <2>2, CopyIn DEF QueueMove, TypeInv, Queue!Publish, Queue!Ack
    <3> QED  BY <3>1, QueueMoves
  <2> QED  BY <2>1, <2>2, RequestPublishes
<1>3. ASSUME NEW q \in Requests, req'[q].pc \in {"confirm", "accepted"}
      PROVE  copy'[<<q, 1>>] # "absent"
  <2>1. <<q, 1>> \in Copies
    BY BoundsAssumption, CopyIn
  <2>2. CASE req[q].pc \in {"confirm", "accepted"}
    BY <1>2, <2>1, <2>2 DEF KeepInv
  <2>3. CASE req[q].pc \notin {"confirm", "accepted"}
    <3>1. q = r
      BY <1>3, <2>3, RequestMoves
    <3>2. PublishEvent(r)
      BY <1>3, <2>3, <3>1
      DEF RequestStep, FindApp, GetNextChatNumber, InitializeChat, ConfirmPublish,
          RequestFails, NumberReplyLost, Republish, TypeInv, RequestInv, RequestsTypeOK
    <3> QED  BY <2>1, <3>1, <3>2 DEF PublishEvent, Queue!Publish, TypeInv,
                QueueInv, Queue!QueueTypeOK
  <2> QED  BY <2>2, <2>3
<1>4. \A q \in Requests : Stored(q) => Stored(q)'
  BY <1>1 DEF Stored
<1>5. \A w \in Workers : worker'[w].pc \in PastPhase1 => Stored(Request(w))'
  BY <1>1 DEF KeepInv, Stored, Request
<1>6. \A c \in Copies : copy'[c] = "acked" => Stored(c[1])'
  BY <1>2, <1>4, CopyParts DEF KeepInv
<1> QED  BY <1>3, <1>5, <1>6 DEF KeepInv

\* So do handlers: one acknowledges only what it stored.
LEMMA KeepWorker ==
    ASSUME DriverCode # UniqueViolation, TypeInv, KeepInv, NEW w \in Workers,
           TakeDelivery(w) \/ HandlerStep(w) \/ HandlerFault(w)
    PROVE  KeepInv'
<1>1. ASSUME HandlerStep(w) \/ HandlerFault(w)  PROVE KeepInv'
  <2>1. /\ worker[w].pc # "idle" /\ HandlerFrame(w)
        /\ worker[w].copy \in Copies /\ Request(w) \in Requests
    BY <1>1, HandlerMoves, PayloadTypes
  <2>2. \A q \in Requests : Stored(q) => Stored(q)'
    BY <1>1, HandlerKeeps, StoredStays
  <2>3. \A c \in Copies : copy'[c] = "acked" => Stored(c[1])'
    <3> SUFFICES ASSUME NEW c \in Copies, copy'[c] = "acked" PROVE Stored(c[1])'
      OBVIOUS
    <3>1. CASE copy[c] = "acked"
      BY <2>2, <3>1, CopyParts DEF KeepInv
    <3>2. CASE copy[c] # "acked"
      <4>1. c = worker[w].copy /\ Stored(Request(w))
        BY <1>1, <3>2, HandlerKeeps DEF KeepInv, PastPhase1
      <4> QED  BY <2>1, <2>2, <4>1 DEF Request
    <3> QED  BY <3>1, <3>2
  <2>4. \A v \in Workers : worker'[v].pc \in PastPhase1 => Stored(Request(v))'
    <3> SUFFICES ASSUME NEW v \in Workers, worker'[v].pc \in PastPhase1
                 PROVE  Stored(Request(v))'
      OBVIOUS
    <3>1. CASE v = w
      <4>1. CASE worker[w].pc \in PastPhase1
        <5>1. Request(w)' = Request(w)
          BY <2>1, <3>1 DEF HandlerFrame, OneHandler, PastPhase1, Request
        <5>2. Stored(Request(w))
          BY <4>1 DEF KeepInv
        <5>3. \E row \in chats' : row.by = Request(w)
          BY <2>1, <2>2, <5>2 DEF Stored
        <5> QED  BY <3>1, <5>1, <5>3 DEF Stored
      <4> QED  BY <1>1, <3>1, <4>1, HandlerKeeps
    <3>2. CASE v # w
      <4>1. worker'[v] = worker[v]
        BY <2>1, <3>2 DEF HandlerFrame, OneHandler
      <4>2. Stored(Request(v)) /\ Request(v) \in Requests /\ Request(v)' = Request(v)
        BY <4>1, PayloadTypes DEF KeepInv, PastPhase1, Request
      <4>3. \E row \in chats' : row.by = Request(v)
        BY <2>2, <4>2 DEF Stored
      <4> QED  BY <4>2, <4>3 DEF Stored
    <3> QED  BY <3>1, <3>2
  <2>5. \A c \in Copies : copy[c] # "absent" => copy'[c] # "absent"
    BY <2>1, QueueMoves DEF HandlerFrame, TypeInv, queueVars
  <2>6. ASSUME NEW q \in Requests, req'[q].pc \in {"confirm", "accepted"}
        PROVE  copy'[<<q, 1>>] # "absent"
    BY <2>1, <2>5, <2>6, BoundsAssumption, CopyIn DEF KeepInv, HandlerFrame
  <2> QED  BY <2>3, <2>4, <2>6 DEF KeepInv
<1>2. ASSUME TakeDelivery(w)  PROVE KeepInv'
  <2>1. PICK c \in Copies :
            /\ Queue!Deliver(c)
            /\ worker' = [worker EXCEPT ![w] =
                            [pc |-> "validate", copy |-> c, live |-> TRUE]]
    BY <1>2 DEF TakeDelivery
  <2>2. UNCHANGED <<req, chats>>
    BY <1>2 DEF TakeDelivery, handlerUnchanged, dbVars
  <2>3. \A d \in Copies : /\ copy[d] # "absent" => copy'[d] # "absent"
                          /\ copy'[d] = "acked" => copy[d] = "acked"
    <3>1. QueueMove(c) /\ ~Queue!Ack(c)
      BY <2>1 DEF QueueMove, Queue!Deliver, Queue!Ack
    <3> QED  BY <3>1, QueueMoves DEF TypeInv
  <2>4. \A v \in Workers : worker'[v].pc \in PastPhase1 => worker'[v] = worker[v]
    BY <2>1 DEF PastPhase1, TypeInv, WorkerInv, WorkersTypeOK
  <2>5. \A v \in Workers : worker'[v].pc \in PastPhase1 => Stored(Request(v))'
    BY <2>2, <2>4 DEF KeepInv, Stored, Request
  <2>6. \A d \in Copies : copy'[d] = "acked" => Stored(d[1])'
    BY <2>2, <2>3 DEF KeepInv, Stored
  <2>7. \A q \in Requests : req'[q].pc \in {"confirm", "accepted"}
            => copy'[<<q, 1>>] # "absent"
    BY <2>2, <2>3, BoundsAssumption, CopyIn DEF KeepInv
  <2> QED  BY <2>5, <2>6, <2>7 DEF KeepInv
<1> QED  BY <1>1, <1>2

\* Every step keeps KeepInv.
LEMMA KeepStep ==
    ASSUME DriverCode # UniqueViolation
    PROVE  TypeInv /\ KeepInv /\ [Next]_vars => KeepInv'
<1> SUFFICES ASSUME TypeInv, KeepInv, [Next]_vars PROVE KeepInv'
  OBVIOUS
<1>1. ASSUME UNCHANGED <<req, chats, worker, copy>>  PROVE KeepInv'
  BY <1>1 DEF KeepInv, Stored, Request
<1>2. CASE UNCHANGED vars
  BY <1>1, <1>2 DEF vars, dbVars, queueVars
<1>3. CASE RedisSave \/ RedisRestart \/ \E e \in EventIds : LockExpires(e)
  BY <1>1, <1>3 DEF RedisSave, RedisRestart, LockExpires, dbVars, queueVars
<1> QED  BY <1>2, <1>3, KeepRequest, KeepWorker DEF Next

\* A promised event has a copy that was sent; if that copy is acknowledged, the row is there.
LEMMA KeepMeans ==
    ASSUME TypeInv, KeepInv
    PROVE  NoSilentLoss
<1> SUFFICES ASSUME NEW r \in Requests, Accepted(r)
             PROVE  \/ Stored(r)
                    \/ \E c \in Copies : /\ c[1] = r
                                         /\ copy[c] \in {"ready", "unacked", "dead"}
  BY DEF NoSilentLoss
<1>1. <<r, 1>> \in Copies /\ copy[<<r, 1>>] # "absent"
  BY BoundsAssumption, CopyIn DEF KeepInv, Accepted
<1>2. copy[<<r, 1>>] \in {"ready", "unacked", "acked", "dead"}
  BY <1>1 DEF TypeInv, QueueInv, Queue!QueueTypeOK, Queue!CopyState
<1>3. copy[<<r, 1>>] = "acked" => Stored(r)
  BY <1>1 DEF KeepInv
<1> QED  BY <1>1, <1>2, <1>3

\* A chat promised with a 202 is stored or still with the broker, for any
\* number of requests, faults, restarts of Redis and colliding event ids.
THEOREM NothingLostSilently ==
    ASSUME DriverCode # UniqueViolation
    PROVE  Spec => []NoSilentLoss
  BY KeepMeans, TypeInvariant, KeepInit, TypeStep, KeepStep, PTL DEF Spec

-----------------------------------------------------------------------------
(***************************************************************************)
(* Phase 1 is all or nothing, under any dialect, with restarts of Redis    *)
(* and colliding event ids.  Between the two inserts and the commit the    *)
(* tables show nothing, so the invariant speaks of the keys the open       *)
(* transactions hold: no two hold one key, and none holds a stored one.    *)
(***************************************************************************)
Sent == {"confirm", "accepted", "failed"}
Open == {"insert", "commit"}

SentInv == \A c \in Copies : copy[c] # "absent" => req[c[1]].pc \in Sent

\* Rows say what their requests said, and those have sent their event.
RowInv ==
    \A row \in chats :
        /\ req[row.by].pc \in Sent
        /\ row.app = req[row.by].app /\ row.num = req[row.by].num

\* The inbox has the event of every row, and each of them stored one row.
RowsInInbox ==
    /\ \A row \in chats : req[row.by].eid \in inbox
    /\ \A x, y \in chats : req[x.by].eid = req[y.by].eid => x = y

\* No two open transactions hold one event id, and none holds one of the inbox.
EventKeyInv ==
    /\ \A w \in Workers : worker[w].pc \in Open => EventId(w) \notin inbox
    /\ \A v, w \in Workers :
        worker[v].pc \in Open /\ worker[w].pc \in Open /\ EventId(v) = EventId(w)
            => v = w

ChatKeyInv ==
    /\ \A w \in Workers : worker[w].pc = "commit" =>
        \A row \in chats : ~SameKey(row, NewRow(w))
    /\ \A v, w \in Workers :
        worker[v].pc = "commit" /\ worker[w].pc = "commit" /\ SameKey(NewRow(v), NewRow(w))
            => v = w

AtomInv ==
    /\ SentInv /\ RowInv
    /\ RowsInInbox /\ EventKeyInv
    /\ StoredNumbersUnique /\ ChatKeyInv

\* No row, no key and no event at the start.
LEMMA AtomInit == Init => AtomInv
<1> SUFFICES ASSUME Init PROVE AtomInv
  OBVIOUS
<1>1. inbox = {} /\ chats = {} /\ \A w \in Workers : worker[w].pc = "idle"
  BY DEF Init, IdleWorker
<1>2. SentInv
  BY DEF Init, SentInv, Queue!QueueInit
<1>3. RowInv /\ RowsInInbox /\ StoredNumbersUnique
  BY <1>1 DEF RowInv, RowsInInbox, StoredNumbersUnique
<1>4. EventKeyInv
  BY <1>1 DEF EventKeyInv, Open
<1>5. ChatKeyInv
  BY <1>1 DEF ChatKeyInv, SameKey
<1> QED  BY <1>2, <1>3, <1>4, <1>5 DEF AtomInv

\* A request that has sent its event changes its pc only.
LEMMA SentFrozen ==
    ASSUME TypeInv, NEW r \in Requests, RequestStep(r), req[r].pc \in Sent
    PROVE  /\ req'[r].pc \in Sent
           /\ req'[r].app = req[r].app
           /\ req'[r].num = req[r].num
           /\ req'[r].eid = req[r].eid
<1> USE DEF TypeInv, RequestInv, RequestsTypeOK, Sent
<1>1. ConfirmPublish(r) \/ RequestFails(r) \/ Republish(r)
  BY DEF RequestStep, FindApp, GetNextChatNumber, InitializeChat, PublishEvent,
     NumberReplyLost
<1> QED  BY <1>1 DEF ConfirmPublish, RequestFails, Republish

\* A request changes nothing a copy, a row or a transaction depends on once it has sent its event.
LEMMA AtomRequest ==
    ASSUME TypeInv, AtomInv, NEW r \in Requests, RequestStep(r)
    PROVE  AtomInv'
<1>1. UNCHANGED <<inbox, chats, worker>>
  BY DEF RequestStep, FindApp, GetNextChatNumber, InitializeChat, PublishEvent,
     ConfirmPublish, RequestFails, NumberReplyLost, Republish, apiUnchanged, dbVars
<1>2. \A q \in Requests : req[q].pc \in Sent =>
        /\ req'[q].pc \in Sent /\ req'[q].app = req[q].app
        /\ req'[q].num = req[q].num /\ req'[q].eid = req[q].eid
  BY SentFrozen, RequestMoves
<1>3. SentInv'
  <2> SUFFICES ASSUME NEW c \in Copies, copy'[c] # "absent"
               PROVE  req'[c[1]].pc \in Sent
    BY DEF SentInv
  <2>1. CASE copy[c] # "absent"
    BY <1>2, <2>1, CopyParts DEF AtomInv, SentInv
  <2>2. CASE copy[c] = "absent"
    <3>1. PICK k \in 1 .. MaxSends : Queue!Publish(<<r, k>>)
      BY <2>2, RequestPublishes DEF queueVars
    <3>2. c = <<r, k>>
      BY <2>2, <3>1, CopyIn, QueueMoves DEF TypeInv, QueueMove
    <3>3. PublishEvent(r) \/ Republish(r)
      BY <2>2 DEF RequestStep, FindApp, GetNextChatNumber, InitializeChat,
         ConfirmPublish, RequestFails, NumberReplyLost, queueVars
    <3>4. req'[r].pc = "confirm"
      BY <3>3 DEF PublishEvent, Republish, TypeInv, RequestInv, RequestsTypeOK
    <3> QED  BY <3>2, <3>4 DEF Sent
  <2> QED  BY <2>1, <2>2
<1>4. \A row \in chats : row.by \in Requests
  BY DEF TypeInv, TablesTypeOK, Row
<1>5. RowInv'
  BY <1>1, <1>2, <1>4 DEF AtomInv, RowInv
<1>6. \A row \in chats : req'[row.by].eid = req[row.by].eid
  BY <1>2, <1>4 DEF AtomInv, RowInv
<1>7. RowsInInbox'
  BY <1>1, <1>6 DEF AtomInv, RowsInInbox
<1>8. \A w \in Workers : worker[w].pc # "idle" =>
        EventId(w)' = EventId(w) /\ NewRow(w)' = NewRow(w)
  <2> SUFFICES ASSUME NEW w \in Workers, worker[w].pc # "idle"
               PROVE  EventId(w)' = EventId(w) /\ NewRow(w)' = NewRow(w)
    OBVIOUS
  <2>1. worker[w].copy \in Copies /\ copy[worker[w].copy] # "absent"
        /\ Request(w) \in Requests
    BY PayloadTypes DEF TypeInv, WorkerInv
  <2>2. req[Request(w)].pc \in Sent
    BY <2>1 DEF AtomInv, SentInv, Request
  <2>3. Request(w)' = Request(w)
    BY <1>1 DEF Request
  <2> QED  BY <1>2, <2>1, <2>2, <2>3 DEF EventId, NewRow, App
<1>9. EventKeyInv'
  BY <1>1, <1>8 DEF AtomInv, EventKeyInv, Open
<1>10. StoredNumbersUnique' /\ ChatKeyInv'
  BY <1>1, <1>8 DEF AtomInv, StoredNumbersUnique, ChatKeyInv, SameKey
<1> QED  BY <1>3, <1>5, <1>7, <1>9, <1>10 DEF AtomInv

\* What the steps of a handler mean for the keys: it takes the event's key, then
\* the chat's, and writes the rows and lets go of both, or lets go of both.
TakesEventKey(w) ==
    /\ worker'[w].pc = "insert" /\ UNCHANGED dbVars
    /\ EventId(w) \notin inbox /\ ~InboxLocked(w)

TakesChatKey(w) ==
    /\ worker[w].pc = "insert" /\ worker'[w].pc = "commit" /\ UNCHANGED dbVars
    /\ ~ChatKeyLocked(w)
    /\ \A row \in chats : ~SameKey(row, NewRow(w))

WritesRows(w) ==
    worker[w].pc = "commit" /\ worker'[w].pc \notin Open /\ WriteRows(w)

HoldsNone(w) == worker'[w].pc \notin Open /\ UNCHANGED dbVars

KeepsKeys(w) == worker'[w].pc = worker[w].pc /\ UNCHANGED dbVars

\* A handler's step, by what it does to the keys: take one, write its rows, or let go.
LEMMA HandlerKeys ==
    ASSUME TypeInv, NEW w \in Workers, HandlerStep(w) \/ HandlerFault(w)
    PROVE  \/ TakesEventKey(w) \/ TakesChatKey(w) \/ WritesRows(w)
           \/ HoldsNone(w) \/ KeepsKeys(w)
<1> USE DEF Open, HoldsNone
<1>0. worker[w].pc # "idle" /\ WorkersTypeOK
  BY HandlerMoves DEF TypeInv, WorkerInv
<1>a. ASSUME NEW pc, Goto(w, pc) PROVE worker'[w].pc = pc
  BY <1>0, <1>a DEF Goto, WorkersTypeOK
<1>b. Release(w) => worker'[w].pc = "idle"
  BY <1>0 DEF Release, WorkersTypeOK, IdleWorker
<1>1. CASE ValidateEvent(w)
  <2>1. CASE EventId(w) \notin inbox
    BY <1>1, <1>a, <2>1 DEF ValidateEvent, AfterValidate, validateEvent,
       TakesEventKey, dbVars
  <2>2. CASE EventId(w) \in inbox
    <3>1. AfterValidate[validateEvent(EventId(w))] \in {"count", "failed"}
      BY <2>2 DEF AfterValidate, validateEvent
    <3> QED  BY <1>1, <1>a, <3>1 DEF ValidateEvent, dbVars
  <2> QED  BY <2>1, <2>2
<1>2. CASE CreateChat(w)
  <2>1. CASE \E row \in chats : SameKey(row, NewRow(w))
    BY <1>2, <1>a, <2>1 DEF CreateChat, dbVars
  <2>2. CASE \A row \in chats : ~SameKey(row, NewRow(w))
    BY <1>2, <1>a, <2>2 DEF CreateChat, TakesChatKey, dbVars
  <2> QED  BY <2>1, <2>2
<1>3. CASE Commit(w)  BY <1>3, <1>a DEF Commit, WritesRows
<1>4. CASE CountChat(w)  BY <1>4, <1>a DEF CountChat, dbVars
<1>5. CASE AckDelivery(w)  BY <1>5, <1>b DEF AckDelivery, dbVars
<1>6. CASE NackDelivery(w)  BY <1>6, <1>b DEF NackDelivery, dbVars
<1>7. CASE HandlerError(w)  BY <1>7, <1>a DEF HandlerError, dbVars
<1>8. CASE CommitReplyLost(w)  BY <1>8, <1>a DEF CommitReplyLost, WritesRows
<1>9. CASE CountReplyLost(w)  BY <1>9, <1>a DEF CountReplyLost, dbVars
<1>10. CASE ConsumerCrash(w)  BY <1>10, <1>b DEF ConsumerCrash, dbVars
<1>11. CASE ChannelLost(w)
  BY <1>0, <1>11 DEF ChannelLost, WorkersTypeOK, KeepsKeys, dbVars
<1> QED
  BY <1>1, <1>2, <1>3, <1>4, <1>5, <1>6, <1>7, <1>8, <1>9, <1>10, <1>11
  DEF HandlerStep, HandlerFault

\* The same for a step of any worker, as AtomInv needs it.
LEMMA AtomKeys ==
    ASSUME TypeInv, AtomInv, NEW w \in Workers, UNCHANGED req,
           \A v \in Workers : v # w => worker'[v] = worker[v],
           worker'[w].pc \in Open => worker[w].pc # "idle" /\ worker'[w].copy = worker[w].copy,
           TakesEventKey(w) \/ TakesChatKey(w) \/ HoldsNone(w) \/ KeepsKeys(w)
    PROVE  EventKeyInv' /\ ChatKeyInv'
<1>1. UNCHANGED <<inbox, chats>>
  BY DEF TakesEventKey, TakesChatKey, HoldsNone, KeepsKeys, dbVars
<1>2. \A v \in Workers : worker'[v].pc \in Open =>
        EventId(v)' = EventId(v) /\ NewRow(v)' = NewRow(v)
  BY DEF EventId, NewRow, App, Request
<1>3. \A v \in Workers : v # w /\ worker'[v].pc \in Open => worker[v].pc = worker'[v].pc
  OBVIOUS
<1>4. EventKeyInv'
  <2>1. CASE TakesEventKey(w)
    <3>1. \A v \in Workers : worker'[v].pc \in Open => EventId(v) \notin inbox
      BY <1>3, <2>1 DEF TakesEventKey, AtomInv, EventKeyInv
    <3>2. \A v \in Workers : v # w /\ worker'[v].pc \in Open => EventId(v) # EventId(w)
      BY <1>3, <2>1 DEF TakesEventKey, InboxLocked, Open
    <3>3. \A u, v \in Workers : worker'[u].pc \in Open /\ worker'[v].pc \in Open
            /\ EventId(u) = EventId(v) => u = v
      BY <1>3, <3>2 DEF AtomInv, EventKeyInv
    <3> QED  BY <1>1, <1>2, <3>1, <3>3 DEF EventKeyInv
  <2>2. CASE TakesChatKey(w) \/ HoldsNone(w) \/ KeepsKeys(w)
    <3>1. \A v \in Workers : worker'[v].pc \in Open => worker[v].pc \in Open
      BY <1>3, <2>2 DEF TakesChatKey, HoldsNone, KeepsKeys, Open
    <3> QED  BY <1>1, <1>2, <3>1 DEF AtomInv, EventKeyInv
  <2> QED  BY <2>1, <2>2
<1>5. ChatKeyInv'
  <2> USE DEF Open
  <2>1. CASE TakesChatKey(w)
    <3>1. \A v \in Workers : worker'[v].pc = "commit" =>
            \A row \in chats : ~SameKey(row, NewRow(v))
      BY <1>3, <2>1 DEF TakesChatKey, AtomInv, ChatKeyInv
    <3>2. \A v \in Workers : v # w /\ worker'[v].pc = "commit" =>
            ~SameKey(NewRow(v), NewRow(w)) /\ ~SameKey(NewRow(w), NewRow(v))
      BY <1>3, <2>1 DEF TakesChatKey, ChatKeyLocked, SameKey
    <3>3. \A u, v \in Workers : worker'[u].pc = "commit" /\ worker'[v].pc = "commit"
            /\ SameKey(NewRow(u), NewRow(v)) => u = v
      BY <1>3, <3>2 DEF AtomInv, ChatKeyInv
    <3>4. \A v \in Workers : worker'[v].pc = "commit" => NewRow(v)' = NewRow(v)
      BY <1>2
    <3> QED  BY <1>1, <3>1, <3>3, <3>4 DEF ChatKeyInv, SameKey
  <2>2. CASE TakesEventKey(w) \/ HoldsNone(w) \/ KeepsKeys(w)
    <3>1. \A v \in Workers : worker'[v].pc = "commit" => worker[v].pc = "commit"
      BY <1>3, <2>2 DEF TakesEventKey, HoldsNone, KeepsKeys
    <3>2. \A v \in Workers : worker'[v].pc = "commit" => NewRow(v)' = NewRow(v)
      BY <1>2
    <3> QED  BY <1>1, <3>1, <3>2 DEF AtomInv, ChatKeyInv, SameKey
  <2> QED  BY <2>1, <2>2
<1> QED  BY <1>4, <1>5

\* The commit: the rows appear under keys nobody else stored or holds.
LEMMA AtomWrite ==
    ASSUME TypeInv, AtomInv, NEW w \in Workers, UNCHANGED req,
           \A v \in Workers : v # w => worker'[v] = worker[v],
           WritesRows(w)
    PROVE  /\ RowInv' /\ RowsInInbox' /\ StoredNumbersUnique'
           /\ EventKeyInv' /\ ChatKeyInv'
<1>1. /\ worker[w].pc = "commit" /\ worker'[w].pc \notin Open
      /\ inbox' = inbox \cup {EventId(w)}
      /\ chats' = chats \cup {NewRow(w)}
  BY DEF WritesRows, WriteRows
<1>2. /\ worker[w].copy \in Copies /\ copy[worker[w].copy] # "absent"
      /\ NewRow(w).by = Request(w)
      /\ NewRow(w).app = req[Request(w)].app
      /\ NewRow(w).num = req[Request(w)].num
      /\ EventId(w) = req[NewRow(w).by].eid
  BY <1>1, PayloadTypes DEF TypeInv, WorkerInv, NewRow, App, EventId
<1>3. RowInv'
  <2>1. req[Request(w)].pc \in Sent
    BY <1>2 DEF AtomInv, SentInv, Request
  <2> QED  BY <1>1, <1>2, <2>1 DEF AtomInv, RowInv
<1>4. EventId(w) \notin inbox
  BY <1>1 DEF AtomInv, EventKeyInv, Open
<1>5. RowsInInbox'
  <2>1. \A row \in chats' : req[row.by].eid \in inbox'
    BY <1>1, <1>2 DEF AtomInv, RowsInInbox
  <2>2. \A row \in chats : req[row.by].eid # EventId(w)
    BY <1>4 DEF AtomInv, RowsInInbox
  <2>3. \A x, y \in chats' : req[x.by].eid = req[y.by].eid => x = y
    BY <1>1, <1>2, <2>2 DEF AtomInv, RowsInInbox
  <2> QED  BY <2>1, <2>3 DEF RowsInInbox
<1>6. StoredNumbersUnique'
  BY <1>1 DEF AtomInv, StoredNumbersUnique, ChatKeyInv, SameKey
<1>7. \A v \in Workers : worker'[v].pc \in Open =>
        /\ v # w /\ worker[v] = worker'[v]
        /\ EventId(v)' = EventId(v) /\ NewRow(v)' = NewRow(v)
  BY <1>1 DEF EventId, NewRow, App, Request
<1>8. EventKeyInv'
  <2>1. \A v \in Workers : worker'[v].pc \in Open =>
            EventId(v) \notin inbox /\ EventId(v) # EventId(w)
    BY <1>1, <1>7 DEF AtomInv, EventKeyInv, Open
  <2> QED  BY <1>1, <1>7, <2>1 DEF AtomInv, EventKeyInv
<1>9. ChatKeyInv'
  <2>1. \A v \in Workers : worker'[v].pc = "commit" =>
            /\ v # w /\ worker[v].pc = "commit" /\ NewRow(v)' = NewRow(v)
    BY <1>7 DEF Open
  <2>2. \A v \in Workers : worker'[v].pc = "commit" => ~SameKey(NewRow(w), NewRow(v))
    BY <1>1, <2>1 DEF AtomInv, ChatKeyInv
  <2> QED  BY <1>1, <2>1, <2>2 DEF AtomInv, ChatKeyInv, SameKey
<1> QED  BY <1>3, <1>5, <1>6, <1>8, <1>9

\* Handlers keep AtomInv, one kind of step at a time.
LEMMA AtomWorker ==
    ASSUME TypeInv, AtomInv, NEW w \in Workers,
           TakeDelivery(w) \/ HandlerStep(w) \/ HandlerFault(w)
    PROVE  AtomInv'
<1>1. ASSUME HandlerStep(w) \/ HandlerFault(w)  PROVE AtomInv'
  <2>1. worker[w].pc # "idle" /\ HandlerFrame(w)
    BY <1>1, HandlerMoves
  <2>2. /\ UNCHANGED req
        /\ \A v \in Workers : v # w => worker'[v] = worker[v]
        /\ worker'[w].pc \in Open => worker'[w].copy = worker[w].copy
    BY <2>1 DEF HandlerFrame, OneHandler, Open
  <2>3. SentInv'
    <3>1. \A c \in Copies : copy'[c] # "absent" => copy[c] # "absent"
      BY <2>1, QueueMoves DEF HandlerFrame, TypeInv, WorkerInv, WorkersTypeOK, queueVars
    <3> QED  BY <2>2, <3>1 DEF AtomInv, SentInv
  <2>4. CASE WritesRows(w)
    BY <2>2, <2>3, <2>4, AtomWrite DEF AtomInv
  <2>5. CASE TakesEventKey(w) \/ TakesChatKey(w) \/ HoldsNone(w) \/ KeepsKeys(w)
    <3>1. UNCHANGED <<inbox, chats>>
      BY <2>5 DEF TakesEventKey, TakesChatKey, HoldsNone, KeepsKeys, dbVars
    <3>2. RowInv' /\ RowsInInbox' /\ StoredNumbersUnique'
      BY <2>2, <3>1 DEF AtomInv, RowInv, RowsInInbox, StoredNumbersUnique, SameKey
    <3>3. EventKeyInv' /\ ChatKeyInv'
      BY <2>1, <2>2, <2>5, AtomKeys
    <3> QED  BY <2>3, <3>2, <3>3 DEF AtomInv
  <2> QED  BY <1>1, <2>4, <2>5, HandlerKeys
<1>2. ASSUME TakeDelivery(w)  PROVE AtomInv'
  <2>1. PICK c \in Copies :
            /\ Queue!Deliver(c)
            /\ worker' = [worker EXCEPT ![w] =
                            [pc |-> "validate", copy |-> c, live |-> TRUE]]
    BY <1>2 DEF TakeDelivery
  <2>2. UNCHANGED <<req, inbox, chats>>
    BY <1>2 DEF TakeDelivery, handlerUnchanged, dbVars
  <2>3. SentInv'
    <3>1. copy[c] = "ready" /\ QueueMove(c)
      BY <2>1 DEF Queue!Deliver, QueueMove
    <3>2. \A d \in Copies : copy'[d] # "absent" => copy[d] # "absent"
      BY <3>1, QueueMoves DEF TypeInv
    <3> QED  BY <2>2, <3>2 DEF AtomInv, SentInv
  <2>4. /\ \A v \in Workers : v # w => worker'[v] = worker[v]
        /\ worker'[w].pc = "validate"
    BY <2>1 DEF TypeInv, WorkerInv, WorkersTypeOK
  <2>5. HoldsNone(w)
    BY <2>2, <2>4 DEF HoldsNone, Open, dbVars
  <2>6. EventKeyInv' /\ ChatKeyInv'
    BY <2>2, <2>4, <2>5, AtomKeys DEF Open
  <2>7. RowInv' /\ RowsInInbox' /\ StoredNumbersUnique'
    BY <2>2 DEF AtomInv, RowInv, RowsInInbox, StoredNumbersUnique, SameKey
  <2> QED  BY <2>3, <2>6, <2>7 DEF AtomInv
<1> QED  BY <1>1, <1>2

\* Every step keeps AtomInv.
LEMMA AtomStep == TypeInv /\ AtomInv /\ [Next]_vars => AtomInv'
<1> SUFFICES ASSUME TypeInv, AtomInv, [Next]_vars PROVE AtomInv'
  OBVIOUS
<1>1. ASSUME UNCHANGED <<req, inbox, chats, worker, copy>>  PROVE AtomInv'
  <2>1. SentInv' /\ RowInv'
    BY <1>1 DEF AtomInv, SentInv, RowInv
  <2>2. RowsInInbox' /\ EventKeyInv'
    BY <1>1 DEF AtomInv, RowsInInbox, EventKeyInv, EventId, Request
  <2>3. StoredNumbersUnique' /\ ChatKeyInv'
    BY <1>1 DEF AtomInv, StoredNumbersUnique, ChatKeyInv, SameKey, NewRow, App, Request
  <2> QED  BY <2>1, <2>2, <2>3 DEF AtomInv
<1>2. CASE UNCHANGED vars
  BY <1>1, <1>2 DEF vars, dbVars, queueVars
<1>3. CASE RedisSave \/ RedisRestart \/ \E e \in EventIds : LockExpires(e)
  BY <1>1, <1>3 DEF RedisSave, RedisRestart, LockExpires, dbVars, queueVars
<1> QED  BY <1>2, <1>3, AtomRequest, AtomWorker DEF Next

\* AtomInv holds in every state.
LEMMA AtomInvariant == Spec => [](TypeInv /\ AtomInv)
  BY TypeInit, TypeStep, AtomInit, AtomStep, PTL DEF Spec

\* Nothing but the events of rows is in the inbox.
InboxInRows == inbox \subseteq {req[row.by].eid : row \in chats}

\* A commit adds an event and its row together, and a row's event does not change.
LEMMA InboxInRowsStep ==
    ASSUME TypeInv, AtomInv, InboxInRows, [Next]_vars
    PROVE  InboxInRows'
<1>0. \A row \in chats : row.by \in Requests /\ req[row.by].pc \in Sent
  BY DEF TypeInv, TablesTypeOK, Row, AtomInv, RowInv
<1>1. ASSUME NEW r \in Requests, RequestStep(r)  PROVE InboxInRows'
  <2>1. UNCHANGED <<inbox, chats>>
    BY <1>1 DEF RequestStep, FindApp, GetNextChatNumber, InitializeChat, PublishEvent,
       ConfirmPublish, RequestFails, NumberReplyLost, Republish, apiUnchanged, dbVars
  <2>2. \A row \in chats : req'[row.by].eid = req[row.by].eid
    BY <1>0, <1>1, SentFrozen, RequestMoves
  <2> QED  BY <2>1, <2>2 DEF InboxInRows
<1>2. ASSUME NEW w \in Workers, HandlerStep(w) \/ HandlerFault(w)  PROVE InboxInRows'
  <2>1. UNCHANGED req
    BY <1>2, HandlerMoves DEF HandlerFrame
  <2>2. CASE UNCHANGED dbVars
    BY <2>1, <2>2 DEF InboxInRows, dbVars
  <2>3. CASE WritesRows(w)
    BY ZenonT(30), <2>1, <2>3 DEF InboxInRows, WritesRows, WriteRows, NewRow, EventId
  <2> QED
    BY <1>2, <2>2, <2>3, HandlerKeys DEF TakesEventKey, TakesChatKey, HoldsNone, KeepsKeys
<1>3. CASE UNCHANGED <<req, inbox, chats>>
  BY <1>3 DEF InboxInRows
<1> QED
  BY <1>1, <1>2, <1>3 DEF Next, TakeDelivery, handlerUnchanged, LockExpires, RedisSave,
     RedisRestart, vars, dbVars

\* The inbox holds exactly the event ids of the stored chats, one chat each, for
\* any number of handlers, faults, restarts and colliding event ids.
THEOREM Phase1Atomic == Spec => []InboxMatchesRows
<1>1. Init => InboxInRows
  BY DEF Init, InboxInRows
<1>2. AtomInv /\ InboxInRows => InboxMatchesRows
  BY DEF AtomInv, RowsInInbox, InboxInRows, InboxMatchesRows
<1> QED  BY <1>1, <1>2, InboxInRowsStep, AtomInvariant, PTL DEF Spec

\* No number is stored twice in an app, whatever Redis hands out.
THEOREM OneChatPerNumber == Spec => []StoredNumbersUnique
<1>1. AtomInv => StoredNumbersUnique
  BY DEF AtomInv
<1> QED  BY <1>1, AtomInvariant, PTL

-----------------------------------------------------------------------------
(***************************************************************************)
(* While Redis keeps its data, INCR hands out every number of an app once.  *)
(* The generator is at or above every number in use, so the next is new;    *)
(* a lost reply only skips numbers.  The fault that breaks it is a restart  *)
(* of Redis (chat_number_reuse), which the theorem excludes.                *)
(***************************************************************************)
Numbered == {"init", "publish", "confirm", "accepted"}

NumberInv ==
    /\ \A r \in Requests :
        req[r].pc \in Numbered => req[r].num <= gen[req[r].app]
    /\ \A r, q \in Requests :
        /\ req[r].pc \in Numbered
        /\ req[q].pc \in Numbered
        /\ r # q
        /\ req[r].app = req[q].app
        => req[r].num # req[q].num

\* No numbers are in use at the start.
LEMMA NumberInit == Init => NumberInv
BY DEF Init, NumberInv, Numbered

\* A number drawn is above all those in use.
LEMMA NumberDrawn ==
    ASSUME TypeInv, NumberInv, NEW r \in Requests, req[r].app \in Apps, gen \in [Apps -> Nat],
           gen' = [gen EXCEPT ![req[r].app] = @ + 1],
           req'[r].app = req[r].app, req'[r].num = gen[req[r].app] + 1,
           \A q \in Requests : q # r => req'[q] = req[q]
    PROVE  NumberInv'
<1> USE DEF TypeInv, RequestInv, RequestsTypeOK, Serving, Numbered
<1> DEFINE a == req[r].app
<1>1. \A q \in Requests : q # r /\ req[q].pc \in Numbered =>
        /\ req[q].app \in Apps
        /\ req[q].num \in Nat
        /\ req[q].num <= gen[req[q].app]
  BY DEF NumberInv
<1>2. gen'[a] = gen[a] + 1 /\ \A b \in Apps : b # a => gen'[b] = gen[b]
  OBVIOUS
<1>3. gen[a] \in Nat /\ \A b \in Apps : gen[b] \in Nat
  OBVIOUS
<1>4. \A q \in Requests : req'[q].pc \in Numbered => req'[q].num <= gen'[req'[q].app]
  <2> SUFFICES ASSUME NEW q \in Requests, req'[q].pc \in Numbered
               PROVE  req'[q].num <= gen'[req'[q].app]
    OBVIOUS
  <2>1. CASE q = r  BY <1>2, <1>3, <2>1
  <2>2. CASE q # r /\ req[q].app = a  BY <1>1, <1>2, <1>3, <2>2
  <2>3. CASE q # r /\ req[q].app # a  BY <1>1, <1>2, <1>3, <2>3
  <2> QED  BY <2>1, <2>2, <2>3
<1>5. \A q \in Requests :
        q # r /\ req'[q].pc \in Numbered /\ req'[q].app = a => req'[q].num # gen[a] + 1
  BY <1>1, <1>3
<1> QED  BY <1>4, <1>5 DEF NumberInv

\* Of a request's steps only the INCR gives out a number.
LEMMA NumberRequest ==
    ASSUME TypeInv, NumberInv, NEW r \in Requests, RequestStep(r)
    PROVE  NumberInv'
<1> USE DEF TypeInv, RequestInv, RequestsTypeOK, RedisTypeOK, Serving, Numbered
<1>0. \A q \in Requests : q # r => req'[q] = req[q]
  BY RequestMoves
<1>1. CASE GetNextChatNumber(r)
  <2>1. /\ req[r].app \in Apps
        /\ gen' = [gen EXCEPT ![req[r].app] = @ + 1]
        /\ req'[r].app = req[r].app
        /\ req'[r].num = gen[req[r].app] + 1
    BY <1>1 DEF GetNextChatNumber
  <2> QED  BY <1>0, <2>1, NumberDrawn
<1>2. CASE NumberReplyLost(r)
  <2>1. /\ UNCHANGED req
        /\ \A a \in Apps : gen[a] \in Nat /\ gen'[a] \in Nat /\ gen[a] <= gen'[a]
    BY <1>2 DEF NumberReplyLost
  <2>2. \A q \in Requests : req[q].pc \in Numbered =>
          req[q].app \in Apps /\ req[q].num \in Nat
    OBVIOUS
  <2> QED  BY <2>1, <2>2 DEF NumberInv
<1>3. ASSUME UNCHANGED gen,
             req'[r].pc \in Numbered =>
                /\ req[r].pc \in Numbered
                /\ req'[r].app = req[r].app
                /\ req'[r].num = req[r].num
      PROVE  NumberInv'
  BY <1>0, <1>3 DEF NumberInv
<1>4. CASE InitializeChat(r)  BY <1>3, <1>4 DEF InitializeChat
<1>5. CASE PublishEvent(r)  BY <1>3, <1>5 DEF PublishEvent, redisVars
<1>6. CASE ConfirmPublish(r)  BY <1>3, <1>6 DEF ConfirmPublish, redisVars
<1>7. CASE FindApp(r)  BY <1>3, <1>7 DEF FindApp, redisVars
<1>8. CASE RequestFails(r)  BY <1>3, <1>8 DEF RequestFails, redisVars
<1>9. CASE Republish(r)  BY <1>3, <1>9 DEF Republish, redisVars
<1> QED  BY <1>1, <1>2, <1>4, <1>5, <1>6, <1>7, <1>8, <1>9 DEF RequestStep

\* Without restarts of Redis no step takes the generator back.
LEMMA NumberStep ==
    ASSUME MaxRestarts = 0, TypeInv, NumberInv, [Next]_vars
    PROVE  NumberInv'
<1>1. ASSUME UNCHANGED <<req, gen>>  PROVE NumberInv'
  BY <1>1 DEF NumberInv
<1>2. ~RedisRestart
  BY DEF RedisRestart, TypeInv, BudgetTypeOK
<1>3. CASE UNCHANGED vars
  BY <1>1, <1>3 DEF vars, redisVars
<1>4. CASE RedisSave \/ \E e \in EventIds : LockExpires(e)
  BY <1>1, <1>4 DEF RedisSave, LockExpires, redisVars
<1>5. CASE \E w \in Workers : HandlerStep(w) \/ HandlerFault(w)
  BY <1>1, <1>5, HandlerMoves DEF HandlerFrame
<1>6. CASE \E w \in Workers : TakeDelivery(w)
  BY <1>1, <1>6 DEF TakeDelivery, handlerUnchanged
<1> QED  BY <1>2, <1>3, <1>4, <1>5, <1>6, NumberRequest DEF Next

\* What was answered was numbered.
LEMMA NumberMeans == NumberInv => AcceptedNumbersUnique
  BY DEF NumberInv, AcceptedNumbersUnique, Accepted, Numbered

\* Any two clients answered 202 for one app hold different numbers, for any
\* number of concurrent requests and lost replies, as long as Redis keeps its
\* data.
THEOREM NumbersNeverShared ==
    ASSUME MaxRestarts = 0
    PROVE  Spec => []AcceptedNumbersUnique
<1>1. TypeInv /\ NumberInv /\ [Next]_vars => TypeInv' /\ NumberInv'
  BY TypeStep, NumberStep
<1>2. Init => TypeInv /\ NumberInv
  BY TypeInit, NumberInit
<1> QED  BY <1>1, <1>2, NumberMeans, PTL DEF Spec

-----------------------------------------------------------------------------
(***************************************************************************)
(* The refinement: ChatCreation implements EventStore, under the dialect   *)
(* the service runs on.  Every step moves one request's event as           *)
(* EventStore allows, answers one client, or is none of the client's       *)
(* business.                                                               *)
(***************************************************************************)
\* What the refinement rests on.
StoreInv == TypeInv /\ KeepInv /\ AtomInv

\* Keeping an acknowledged event stored and Phase 1 atomic, together.
LEMMA StoreInvariant ==
    ASSUME DriverCode # UniqueViolation
    PROVE  Spec => []StoreInv
<1>1. Init => StoreInv
  BY TypeInit, KeepInit, AtomInit DEF StoreInv
<1>2. StoreInv /\ [Next]_vars => StoreInv'
  BY TypeStep, KeepStep, AtomStep DEF StoreInv
<1> QED  BY <1>1, <1>2, PTL DEF Spec

-----------------------------------------------------------------------------
(***************************************************************************)
(* The refinement mapping.                                                 *)
(***************************************************************************)
Place == [r \in Requests |-> PlaceOf(r)]
Answered == {r \in Requests : Accepted(r)}

\* The event of a request nothing was done to stays where it is.
LEMMA Elsewhere ==
    ASSUME NEW r \in Requests, Stored(r)' <=> Stored(r),
           \A c \in Copies : c[1] = r => copy'[c] = copy[c]
    PROVE  PlaceOf(r)' = PlaceOf(r)
<1>1. \A states : (CopiesIn(r, states)' = CopiesIn(r, states))
  BY DEF CopiesIn
<1> QED  BY <1>1 DEF PlaceOf

\* One event moves.
LEMMA PlaceMoves ==
    ASSUME NEW r \in Requests, NEW from, NEW to, PlaceOf(r) \in from, PlaceOf(r)' = to,
           \A q \in Requests : q # r => PlaceOf(q)' = PlaceOf(q),
           \A q \in Requests : Accepted(q)' <=> Accepted(q)
    PROVE  Promise!Move(r, from, to)
<1>1. Place[r] \in from
  BY DEF Place
<1>2. Place' = [Place EXCEPT ![r] = to]
  BY DEF Place
<1>3. Answered' = Answered
  BY DEF Answered
<1> QED  BY <1>1, <1>2, <1>3 DEF Promise!Move, Place, Answered

\* No event moves and no client is answered.
LEMMA PlacesStand ==
    ASSUME \A q \in Requests : PlaceOf(q)' = PlaceOf(q),
           \A q \in Requests : Accepted(q)' <=> Accepted(q)
    PROVE  UNCHANGED Promise!vars
<1>1. Place' = Place /\ Answered' = Answered
  BY DEF Place, Answered
<1> QED  BY <1>1 DEF Promise!vars, Place, Answered

\* A published event is somewhere: the last to handle it stored its chat.
LEMMA PublishedIsSomewhere ==
    ASSUME StoreInv, NEW c \in Copies, copy[c] # "absent"
    PROVE  PlaceOf(c[1]) # "none"
<1>1. copy[c] \in {"ready", "unacked", "acked", "dead"}
  BY DEF StoreInv, TypeInv, QueueInv, Queue!QueueTypeOK, Queue!CopyState
<1>2. copy[c] = "acked" => Stored(c[1])
  BY DEF StoreInv, KeepInv
<1>3. CASE copy[c] \in {"ready", "unacked"}
  <2>1. c \in CopiesIn(c[1], {"ready", "unacked"})
    BY <1>3 DEF CopiesIn
  <2> QED  BY <2>1 DEF PlaceOf
<1>4. CASE copy[c] = "dead"
  <2>1. c \in CopiesIn(c[1], {"dead"})
    BY <1>4 DEF CopiesIn
  <2> QED  BY <2>1 DEF PlaceOf
<1> QED  BY <1>1, <1>2, <1>3, <1>4 DEF PlaceOf

StoreStep == Promise!Next \/ UNCHANGED Promise!vars

-----------------------------------------------------------------------------
(***************************************************************************)
(* The API side.                                                           *)
(***************************************************************************)

\* A copy of r's event enters the queue: r is published, or sent again.
LEMMA PublishRefines ==
    ASSUME StoreInv, NEW r \in Requests, NEW k \in 1 .. MaxSends, Queue!Publish(<<r, k>>),
           UNCHANGED chats, \A q \in Requests : Accepted(q)' <=> Accepted(q), ~Accepted(r)
    PROVE  StoreStep
<1>1. <<r, k>> \in Copies /\ copy'[<<r, k>>] = "ready"
      /\ \A c \in Copies : c # <<r, k>> => copy'[c] = copy[c]
  BY CopyIn DEF StoreInv, TypeInv, QueueInv, Queue!QueueTypeOK, Queue!Publish
<1>2. \A q \in Requests : Stored(q)' <=> Stored(q)
  BY DEF Stored
<1>3. \A q \in Requests : q # r => PlaceOf(q)' = PlaceOf(q)
  BY <1>1, <1>2, Elsewhere
<1>4. CASE Stored(r)
  <2>1. PlaceOf(r)' = PlaceOf(r)
    BY <1>2, <1>4 DEF PlaceOf
  <2> QED  BY <1>3, <2>1, PlacesStand DEF StoreStep
<1>5. CASE ~Stored(r)
  <2>1. <<r, k>> \in CopiesIn(r, {"ready", "unacked"})'
    BY <1>1 DEF CopiesIn
  <2>2. PlaceOf(r)' = "queued"
    BY <1>2, <1>5, <2>1 DEF PlaceOf
  <2>3. PlaceOf(r) \in {"queued", "parked", "none"}
    BY <1>5 DEF PlaceOf
  <2>4. CASE PlaceOf(r) = "none"
    BY <1>3, <2>2, <2>4, PlaceMoves DEF StoreStep, Promise!Next, Promise!Publish
  <2>5. CASE PlaceOf(r) = "parked"
    <3>1. Promise!Move(r, {"parked"}, "queued")
      BY <1>3, <2>2, <2>5, PlaceMoves
    <3> QED  BY <3>1 DEF StoreStep, Promise!Next, Promise!Resend
  <2>6. CASE PlaceOf(r) = "queued"
    BY <1>3, <2>2, <2>6, PlacesStand DEF StoreStep
  <2> QED  BY <2>3, <2>4, <2>5, <2>6
<1> QED  BY <1>4, <1>5

\* The confirm: the broker had the event, and the client is answered.
LEMMA AnswerRefines ==
    ASSUME StoreInv, NEW r \in Requests, ConfirmPublish(r)
    PROVE  StoreStep
<1>1. UNCHANGED <<chats, copy>> /\ req' = [req EXCEPT ![r].pc = "accepted"]
      /\ req[r].pc = "confirm"
  BY DEF ConfirmPublish, apiUnchanged, dbVars, queueVars
<1>2. \A q \in Requests : PlaceOf(q)' = PlaceOf(q)
  BY <1>1, Elsewhere DEF Stored
<1>3. Place' = Place
  BY <1>2 DEF Place
<1>4. Answered' = Answered \cup {r}
  BY <1>1 DEF Answered, Accepted, StoreInv, TypeInv, RequestInv, RequestsTypeOK
<1>5. PlaceOf(r) # "none"
  <2>1. <<r, 1>> \in Copies /\ copy[<<r, 1>>] # "absent"
    BY <1>1, BoundsAssumption, CopyIn DEF StoreInv, KeepInv
  <2> QED  BY <2>1, PublishedIsSomewhere
<1>6. Promise!Answer(r)
  BY <1>3, <1>4, <1>5 DEF Promise!Answer, Place, Answered
<1> QED  BY <1>6 DEF StoreStep, Promise!Next

\* Steps of the API side.
LEMMA RequestRefines ==
    ASSUME StoreInv, NEW r \in Requests, RequestStep(r)
    PROVE  StoreStep
<1>0. UNCHANGED chats
  BY DEF RequestStep, FindApp, GetNextChatNumber, InitializeChat, PublishEvent,
     ConfirmPublish, RequestFails, NumberReplyLost, Republish, apiUnchanged, dbVars
<1>1. CASE ConfirmPublish(r)
  BY <1>1, AnswerRefines
<1>2. CASE ~ConfirmPublish(r)
  <2>1. \A q \in Requests : Accepted(q)' <=> Accepted(q)
    <3>1. req \in [Requests -> [pc : RequestPc, app : Apps \cup {None},
                                num : Nat, eid : EventIds \cup {None}]]
      BY DEF StoreInv, TypeInv, RequestInv, RequestsTypeOK
    <3>2. Accepted(r)' <=> Accepted(r)
      BY <1>2, <3>1 DEF Accepted, RequestStep, FindApp, GetNextChatNumber, InitializeChat,
         PublishEvent, RequestFails, NumberReplyLost, Republish
    <3> QED  BY <3>2, RequestMoves DEF Accepted, StoreInv
  <2>2. CASE UNCHANGED queueVars
    <3>1. \A q \in Requests : PlaceOf(q)' = PlaceOf(q)
      BY <1>0, <2>2, Elsewhere DEF Stored, queueVars
    <3> QED  BY <2>1, <3>1, PlacesStand DEF StoreStep
  <2>3. CASE PublishEvent(r) \/ Republish(r)
    <3>1. PICK k \in 1 .. MaxSends : Queue!Publish(<<r, k>>)
      <4>1. 1 \in 1 .. MaxSends /\ 2 .. MaxSends \subseteq 1 .. MaxSends
        BY BoundsAssumption
      <4> QED  BY <2>3, <4>1 DEF PublishEvent, Republish
    <3>2. ~Accepted(r)
      BY <2>3 DEF PublishEvent, Republish, Accepted
    <3> QED  BY <1>0, <2>1, <3>1, <3>2, PublishRefines
  <2> QED
    BY <1>2, <2>2, <2>3 DEF RequestStep, FindApp, GetNextChatNumber, InitializeChat,
       RequestFails, NumberReplyLost
<1> QED  BY <1>1, <1>2

-----------------------------------------------------------------------------
(***************************************************************************)
(* The consumer side.                                                      *)
(***************************************************************************)

\* A commit stores the row of an event that was with the broker, or is dead-lettered.
LEMMA CommitRefines ==
    ASSUME StoreInv, NEW w \in Workers, worker[w].pc = "commit", WriteRows(w),
           UNCHANGED <<req, copy>>
    PROVE  StoreStep
<1>0. Request(w) \in Requests /\ worker[w].copy \in Copies /\ copy[worker[w].copy] # "absent"
  BY PayloadTypes DEF StoreInv, TypeInv, WorkerInv
<1>1. PICK r \in Requests : r = Request(w)
  BY <1>0
<1>2. chats' = chats \cup {NewRow(w)} /\ NewRow(w).by = r
  BY <1>1 DEF WriteRows, NewRow
<1>3. ~Stored(r)
  <2>1. EventId(w) \notin inbox
    BY DEF StoreInv, AtomInv, EventKeyInv, Open
  <2> QED  BY <1>1, <2>1 DEF StoreInv, AtomInv, RowsInInbox, Stored, EventId
<1>4. PlaceOf(r) \in {"queued", "parked"}
  <2>1. PlaceOf(r) # "none"
    BY <1>0, <1>1, PublishedIsSomewhere DEF Request
  <2> QED  BY <1>3, <2>1 DEF PlaceOf
<1>5. PlaceOf(r)' = "stored"
  <2>1. NewRow(w) \in chats'
    BY <1>2
  <2>2. Stored(r)'
    BY <1>2, <2>1 DEF Stored
  <2> QED  BY <2>2 DEF PlaceOf
<1>6. \A q \in Requests : q # r => PlaceOf(q)' = PlaceOf(q)
  <2>1. \A q \in Requests : q # r => (Stored(q)' <=> Stored(q))
    BY <1>2 DEF Stored
  <2> QED  BY <2>1, Elsewhere
<1>7. \A q \in Requests : Accepted(q)' <=> Accepted(q)
  BY DEF Accepted
<1>8. Promise!Store(r)
  BY <1>1, <1>4, <1>5, <1>6, <1>7, PlaceMoves DEF Promise!Store
<1> QED  BY <1>1, <1>8 DEF StoreStep, Promise!Next

\* A message that comes back is ready again, or parked.
LEMMA ReturnRefines ==
    ASSUME StoreInv, NEW c \in Copies, Queue!Return(c), UNCHANGED <<req, chats>>
    PROVE  StoreStep
<1> DEFINE r == c[1]
<1>1. /\ r \in Requests /\ copy[c] = "unacked" /\ copy'[c] \in {"ready", "dead"}
      /\ \A d \in Copies : d # c => copy'[d] = copy[d]
  BY CopyParts DEF Queue!Return, StoreInv, TypeInv, QueueInv, Queue!QueueTypeOK
<1>2. \A q \in Requests : Stored(q)' <=> Stored(q)
  BY DEF Stored
<1>3. \A q \in Requests : q # r => PlaceOf(q)' = PlaceOf(q)
  BY <1>1, <1>2, Elsewhere
<1>4. \A q \in Requests : Accepted(q)' <=> Accepted(q)
  BY DEF Accepted
<1>5. CASE Stored(r)
  <2>1. PlaceOf(r)' = PlaceOf(r)
    BY <1>1, <1>2, <1>5 DEF PlaceOf
  <2> QED  BY <1>3, <1>4, <2>1, PlacesStand DEF StoreStep
<1>6. CASE ~Stored(r)
  <2>1. c \in CopiesIn(r, {"ready", "unacked"})
    BY <1>1 DEF CopiesIn
  <2>2. PlaceOf(r) = "queued"
    BY <1>6, <2>1 DEF PlaceOf
  <2>3. c \in CopiesIn(r, {"ready", "unacked"})' \/ c \in CopiesIn(r, {"dead"})'
    BY <1>1 DEF CopiesIn
  <2>4. PlaceOf(r)' \in {"queued", "parked"}
    BY <1>1, <1>2, <1>6, <2>3 DEF PlaceOf
  <2> HIDE DEF r
  <2>5. CASE PlaceOf(r)' = "queued"
    BY <1>3, <1>4, <2>2, <2>5, PlacesStand DEF StoreStep
  <2>6. CASE PlaceOf(r)' = "parked"
    <3>1. Promise!Park(r)
      BY <1>1, <1>3, <1>4, <2>2, <2>6, PlaceMoves DEF Promise!Park
    <3> QED  BY <1>1, <3>1 DEF StoreStep, Promise!Next
  <2> QED  BY <2>4, <2>5, <2>6
<1> QED  BY <1>5, <1>6

\* A message that is taken, or acknowledged once its chat is stored, is where it was.
LEMMA SettleRefines ==
    ASSUME StoreInv, NEW c \in Copies, UNCHANGED <<req, chats>>,
           Queue!Deliver(c) \/ (Queue!Ack(c) /\ Stored(c[1]))
    PROVE  StoreStep
<1>1. c[1] \in Requests /\ \A d \in Copies : d # c => copy'[d] = copy[d]
  BY CopyParts DEF Queue!Deliver, Queue!Ack, StoreInv, TypeInv, QueueInv, Queue!QueueTypeOK
<1>2. \A q \in Requests : Stored(q)' <=> Stored(q)
  BY DEF Stored
<1>3. \A q \in Requests : q # c[1] => PlaceOf(q)' = PlaceOf(q)
  BY <1>1, <1>2, Elsewhere
<1>4. PlaceOf(c[1])' = PlaceOf(c[1])
  <2>1. CASE Stored(c[1])
    BY <1>1, <1>2, <2>1 DEF PlaceOf
  <2>2. CASE Queue!Deliver(c) /\ ~Stored(c[1])
    <3>1. copy[c] = "ready" /\ copy'[c] = "unacked"
      BY <2>2 DEF Queue!Deliver, StoreInv, TypeInv, QueueInv, Queue!QueueTypeOK
    <3>2. c \in CopiesIn(c[1], {"ready", "unacked"})
          /\ c \in CopiesIn(c[1], {"ready", "unacked"})'
      BY <3>1 DEF CopiesIn
    <3>3. PlaceOf(c[1]) = "queued"
      BY <2>2, <3>2 DEF PlaceOf
    <3>4. ~Stored(c[1])'
      BY <1>1, <1>2, <2>2
    <3>5. PlaceOf(c[1])' = "queued"
      BY <3>2, <3>4 DEF PlaceOf
    <3> QED  BY <3>3, <3>5
  <2> QED  BY <2>1, <2>2
<1>5. \A q \in Requests : Accepted(q)' <=> Accepted(q)
  BY DEF Accepted
<1> QED  BY <1>3, <1>4, <1>5, PlacesStand DEF StoreStep

\* What touches neither the queue, the table nor a client.
LEMMA IdleRefines ==
    ASSUME UNCHANGED <<req, chats, copy>>
    PROVE  StoreStep
<1>1. \A q \in Requests : PlaceOf(q)' = PlaceOf(q)
  BY Elsewhere DEF Stored
<1>2. \A q \in Requests : Accepted(q)' <=> Accepted(q)
  BY DEF Accepted
<1> QED  BY <1>1, <1>2, PlacesStand DEF StoreStep

\* Steps of a handler, and what happens to it.
LEMMA WorkerRefines ==
    ASSUME DriverCode # UniqueViolation, StoreInv, NEW w \in Workers,
           TakeDelivery(w) \/ HandlerStep(w) \/ HandlerFault(w)
    PROVE  StoreStep
<1> USE DEF handlerUnchanged, dbVars, queueVars
<1>1. CASE TakeDelivery(w)
  BY <1>1, SettleRefines DEF TakeDelivery
<1>2. ASSUME HandlerStep(w) \/ HandlerFault(w)
      PROVE  worker[w].copy \in Copies /\ UNCHANGED req
  BY <1>2, HandlerMoves, PayloadTypes DEF HandlerFrame, StoreInv
<1>3. CASE Commit(w) \/ CommitReplyLost(w)
  BY <1>3, CommitRefines DEF Commit, CommitReplyLost
<1>4. CASE AckDelivery(w)
  <2>1. Stored(worker[w].copy[1]) /\ UNCHANGED <<req, chats>>
    BY <1>4 DEF AckDelivery, StoreInv, KeepInv, PastPhase1, Request
  <2>2. Queue!Ack(worker[w].copy) \/ UNCHANGED copy
    BY <1>4 DEF AckDelivery, AckIfLive
  <2> QED  BY <1>2, <1>4, <2>1, <2>2, SettleRefines, IdleRefines DEF HandlerStep
<1>5. CASE NackDelivery(w) \/ ConsumerCrash(w) \/ ChannelLost(w)
  <2>1. (Queue!Return(worker[w].copy) \/ UNCHANGED copy) /\ UNCHANGED <<req, chats>>
    BY <1>5 DEF NackDelivery, ConsumerCrash, ChannelLost, ReturnIfLive
  <2> QED  BY <1>2, <1>5, <2>1, ReturnRefines, IdleRefines DEF HandlerStep, HandlerFault
<1>6. CASE \/ ValidateEvent(w) \/ CreateChat(w) \/ CountChat(w)
           \/ HandlerError(w) \/ CountReplyLost(w)
  BY <1>6, IdleRefines
  DEF ValidateEvent, CreateChat, CountChat, HandlerError, CountReplyLost
<1> QED  BY <1>1, <1>3, <1>4, <1>5, <1>6 DEF HandlerStep, HandlerFault

\* At first no event was published and no client answered.
LEMMA PlacesInit ==
    ASSUME Init
    PROVE  \A r \in Requests : PlaceOf(r) = "none" /\ ~Accepted(r)
<1>1. \A r \in Requests : ~Stored(r) /\ ~Accepted(r)
  BY DEF Init, Stored, Accepted
<1>2. \A r \in Requests : CopiesIn(r, {"ready", "unacked"}) = {} /\ CopiesIn(r, {"dead"}) = {}
  BY DEF Init, Queue!QueueInit, CopiesIn
<1> QED  BY <1>1, <1>2 DEF PlaceOf

\* A client of POST .../chats sees an EventStore, whatever handlers, broker, MySQL and
\* Redis do: its event never just disappears between queue and table, a stored chat stays,
\* and no answer is given for an event the broker never had.
THEOREM ChatsAreAnEventStore ==
    ASSUME DriverCode # UniqueViolation
    PROVE  Spec => ImplementsEventStore
<1>1. Init => Promise!Init
  <2> SUFFICES ASSUME Init PROVE Promise!Init
    OBVIOUS
  <2>1. \A r \in Requests : PlaceOf(r) = "none" /\ ~Accepted(r)
    BY PlacesInit
  <2>2. Place = [r \in Requests |-> "none"] /\ Answered = {}
    BY <2>1 DEF Place, Answered
  <2> QED  BY <2>2 DEF Promise!Init, Place, Answered
<1>2. StoreInv /\ [Next]_vars => [Promise!Next]_(Promise!vars)
  <2> SUFFICES ASSUME StoreInv, [Next]_vars PROVE StoreStep
    BY DEF StoreStep
  <2>1. CASE RedisSave \/ RedisRestart \/ \E e \in EventIds : LockExpires(e)
    BY <2>1, IdleRefines DEF RedisSave, RedisRestart, LockExpires, dbVars, queueVars
  <2>2. CASE UNCHANGED vars
    BY <2>2, IdleRefines DEF vars, dbVars, queueVars
  <2> QED  BY <2>1, <2>2, RequestRefines, WorkerRefines DEF Next
<1> QED  BY <1>1, <1>2, StoreInvariant, PTL DEF Spec, ImplementsEventStore, Promise!Spec
==============================================================================
