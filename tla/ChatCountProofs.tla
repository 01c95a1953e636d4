--------------------------- MODULE ChatCountProofs ---------------------------
(***************************************************************************)
(* Theorems about ChatCreation that compare the Redis counter of an app    *)
(* with the number of its chats, under the dialect the service runs on: a  *)
(* unique violation is not recognised, so a handler gets to Phase 2 by its *)
(* own commit only.                                                        *)
(***************************************************************************)
EXTENDS ChatCreationProofs, FiniteSetTheorems, FunctionTheorems

\* Handlers between the phases whose event has no lock in lk yet.
Uncounted(lk, a) == {w \in Counting(a) : EventId(w) \notin lk}

\* Only stored events are ever locked, in Redis or in its snapshot; a handler past
\* Phase 1 stored its own row, and no two count one event.
CountKeyInv ==
    /\ lock \subseteq inbox /\ rdb.lock \subseteq inbox
    /\ \A w \in Workers : worker[w].pc \in PastPhase1 => NewRow(w) \in chats
    /\ \A v, w \in Workers :
        worker[v].pc = "count" /\ worker[w].pc = "count" /\ EventId(v) = EventId(w)
            => v = w
    /\ IsFiniteSet(chats)

\* The counter, with the handlers that are about to add to it, does not exceed the
\* table; nor would it if Redis came back from its snapshot, or empty.
AheadInv == \A a \in Apps :
    LET rows == Cardinality(RowsOf(a)) IN
    /\ cnt[a] + Cardinality(Uncounted(lock, a)) <= rows
    /\ rdb.cnt[a] + Cardinality(Uncounted(rdb.lock, a)) <= rows
    /\ Cardinality(Uncounted({}, a)) <= rows

\* The rows whose count is safe: acknowledged, about to be, or counted already
\* by a script that is sent again.
Safe(row) ==
    \/ \E c \in Copies : c[1] = row.by /\ copy[c] = "acked"
    \/ \E w \in Workers :
        /\ \/ worker[w].pc = "settle"
           \/ worker[w].pc = "count" /\ EventId(w) \in lock
        /\ Request(w) = row.by

SafeRows(a) == {row \in RowsOf(a) : Safe(row)}

CoverInv == \A a \in Apps : Cardinality(SafeRows(a)) <= cnt[a]

\* A row is counted, about to be counted, or has cost a fault.
Lost(a) == Cardinality(RowsOf(a)) - cnt[a] - Cardinality(Uncounted(lock, a))

DriftInv == \A a \in Apps : Lost(a) <= faults

-----------------------------------------------------------------------------
(***************************************************************************)
(* The steps of a handler, by what they mean for the counter.              *)
(***************************************************************************)
Commits(w) ==
    /\ worker[w].pc = "commit" /\ WriteRows(w)
    /\ UNCHANGED <<cnt, lock>>
    /\ \/ worker'[w].pc = "count" /\ faults' = faults
       \/ worker'[w].pc = "failed" /\ faults' = faults + 1

Counts(w) ==
    /\ worker[w].pc = "count" /\ LockAndIncrement(EventId(w), App(w))
    /\ UNCHANGED <<inbox, chats>>
    /\ worker'[w].pc \in {"settle", "count", "failed"}
    /\ faults' \in {faults, faults + 1}

\* Anything else leaves the counter and the tables alone, brings no handler to
\* Phase 2, and takes one out of it for a fault only.
Quiet(w) ==
    /\ UNCHANGED <<cnt, lock, inbox, chats>>
    /\ worker'[w].pc \in PastPhase1 => worker'[w].pc = worker[w].pc
    /\ \/ faults' = faults /\ (worker[w].pc = "count" => worker'[w].pc = "count")
       \/ faults' = faults + 1

OnlyWorker(w) ==
    /\ UNCHANGED <<req, rdb>>
    /\ \A v \in Workers : v # w => worker'[v] = worker[v]
    /\ worker'[w].pc \in PastPhase1 => worker'[w].copy = worker[w].copy

\* Every step of a handler commits, counts, or leaves counter and tables alone.
LEMMA CountKinds ==
    ASSUME DriverCode # UniqueViolation, TypeInv, NEW w \in Workers,
           TakeDelivery(w) \/ HandlerStep(w) \/ HandlerFault(w)
    PROVE  OnlyWorker(w) /\ (Commits(w) \/ Counts(w) \/ Quiet(w))
<1> USE DEF PastPhase1, handlerUnchanged, dbVars, NoFault, Fault
<1>0. WorkersTypeOK
  BY DEF TypeInv, WorkerInv
<1>a. ASSUME NEW pc, Goto(w, pc) PROVE worker'[w].pc = pc
  BY <1>0, <1>a DEF Goto, WorkersTypeOK
<1>b. Release(w) => worker'[w].pc = "idle"
  BY <1>0 DEF Release, WorkersTypeOK, IdleWorker
<1>c. HandlerStep(w) \/ HandlerFault(w) => OnlyWorker(w)
  BY HandlerMoves DEF HandlerFrame, OneHandler, OnlyWorker
<1>0a. CASE TakeDelivery(w)
  <2>1. PICK c \in Copies :
            worker' = [worker EXCEPT ![w] = [pc |-> "validate", copy |-> c, live |-> TRUE]]
    BY <1>0a DEF TakeDelivery
  <2>2. worker'[w].pc = "validate" /\ \A v \in Workers : v # w => worker'[v] = worker[v]
    BY <1>0, <2>1 DEF WorkersTypeOK
  <2> QED  BY <1>0a, <2>2 DEF TakeDelivery, OnlyWorker, Quiet
<1>1. CASE ValidateEvent(w)
  <2>1. AfterValidate[validateEvent(EventId(w))] \in {"insert", "failed"}
    BY DEF AfterValidate, validateEvent
  <2> QED  BY <1>1, <1>a, <1>c, <2>1 DEF ValidateEvent, Quiet, HandlerStep
<1>2. CASE CreateChat(w)
  <2>1. worker'[w].pc \in {"failed", "commit"}
    BY <1>2, <1>a DEF CreateChat
  <2> QED  BY <1>2, <1>c, <2>1 DEF CreateChat, Quiet, HandlerStep
<1>3. CASE Commit(w)  BY <1>3, <1>a, <1>c DEF Commit, Commits, HandlerStep
<1>4. CASE CountChat(w)  BY <1>4, <1>a, <1>c DEF CountChat, Counts, HandlerStep
<1>5. CASE AckDelivery(w)  BY <1>5, <1>b, <1>c DEF AckDelivery, Quiet, HandlerStep
<1>6. CASE NackDelivery(w)  BY <1>6, <1>b, <1>c DEF NackDelivery, Quiet, HandlerStep
<1>7. CASE HandlerError(w)  BY <1>7, <1>a, <1>c DEF HandlerError, Quiet, HandlerFault
<1>8. CASE CommitReplyLost(w)
  BY <1>8, <1>a, <1>c DEF CommitReplyLost, Commits, HandlerFault
<1>9. CASE CountReplyLost(w)
  <2>1. worker'[w].pc \in {"failed", "count"}
    BY <1>9, <1>a DEF CountReplyLost
  <2> QED  BY <1>9, <1>c, <2>1 DEF CountReplyLost, Counts, HandlerFault
<1>10. CASE ConsumerCrash(w)
  BY <1>10, <1>b, <1>c DEF ConsumerCrash, Quiet, HandlerFault
<1>11. CASE ChannelLost(w)
  <2>1. worker'[w].pc = worker[w].pc
    BY <1>0, <1>11 DEF ChannelLost, WorkersTypeOK
  <2> QED  BY <1>11, <1>c, <2>1 DEF ChannelLost, Quiet, HandlerFault
<1> QED
  BY <1>0a, <1>1, <1>2, <1>3, <1>4, <1>5, <1>6, <1>7, <1>8, <1>9, <1>10, <1>11
  DEF HandlerStep, HandlerFault

\* What a busy handler works on does not change under it.
LEMMA PayloadFrozen ==
    ASSUME TypeInv, AtomInv, NEW r \in Requests, RequestStep(r),
           NEW w \in Workers, worker[w].pc # "idle"
    PROVE  App(w)' = App(w) /\ EventId(w)' = EventId(w) /\ NewRow(w)' = NewRow(w)
<1>1. UNCHANGED worker
  BY DEF RequestStep, FindApp, GetNextChatNumber, InitializeChat, PublishEvent,
     ConfirmPublish, RequestFails, NumberReplyLost, Republish, apiUnchanged
<1>2. /\ worker[w].copy \in Copies /\ copy[worker[w].copy] # "absent"
      /\ Request(w) \in Requests
  BY PayloadTypes DEF TypeInv, WorkerInv
<1>3. req[Request(w)].pc \in Sent
  BY <1>2 DEF AtomInv, SentInv, Request
<1>4. /\ req'[Request(w)].app = req[Request(w)].app
      /\ req'[Request(w)].num = req[Request(w)].num
      /\ req'[Request(w)].eid = req[Request(w)].eid
  <2>1. CASE Request(w) = r
    BY <1>3, <2>1, SentFrozen
  <2>2. CASE Request(w) # r
    BY <1>2, <2>2, RequestMoves
  <2> QED  BY <2>1, <2>2
<1>5. Request(w)' = Request(w)
  BY <1>1 DEF Request
<1> QED  BY <1>4, <1>5 DEF App, EventId, NewRow

\* A request leaves the counter, its locks and the tables alone.
LEMMA RequestQuiet ==
    ASSUME NEW r \in Requests, RequestStep(r)
    PROVE  /\ UNCHANGED <<cnt, lock, rdb, inbox, chats, worker>>
           /\ faults' \in {faults, faults + 1}
BY DEF RequestStep, FindApp, GetNextChatNumber, InitializeChat, PublishEvent,
   ConfirmPublish, RequestFails, NumberReplyLost, Republish, apiUnchanged,
   redisVars, dbVars, NoFault, Fault

\* What the other handlers work on does not move, nor what a handler in Phase 2 does.
LEMMA OthersStand ==
    ASSUME NEW w \in Workers, OnlyWorker(w), NEW v \in Workers,
           v # w \/ worker'[w].pc \in PastPhase1
    PROVE  /\ EventId(v)' = EventId(v) /\ App(v)' = App(v)
           /\ NewRow(v)' = NewRow(v) /\ Request(v)' = Request(v)
BY DEF OnlyWorker, EventId, App, NewRow, Request

-----------------------------------------------------------------------------
(***************************************************************************)
(* Locks, rows and handlers.                                               *)
(***************************************************************************)
\* Nothing is locked, stored or handled to begin with.
LEMMA CountKeyInit == Init => CountKeyInv
BY FS_EmptySet DEF Init, CountKeyInv, EmptyRedis, IdleWorker, PastPhase1

\* The inbox knows every event that is past Phase 1, and none that is before it.
LEMMA InboxSides ==
    ASSUME TypeInv, AtomInv, CountKeyInv, NEW w \in Workers
    PROVE  /\ worker[w].pc \in PastPhase1 => EventId(w) \in inbox
           /\ worker[w].pc = "commit" => EventId(w) \notin inbox
<1>1. ASSUME worker[w].pc \in PastPhase1  PROVE EventId(w) \in inbox
  <2>1. NewRow(w) \in chats /\ NewRow(w).by = Request(w)
    BY <1>1 DEF CountKeyInv, NewRow
  <2> QED  BY <2>1 DEF AtomInv, RowsInInbox, EventId
<1>2. worker[w].pc = "commit" => EventId(w) \notin inbox
  BY DEF AtomInv, EventKeyInv, Open
<1> QED  BY <1>1, <1>2

\* A handler stores its row before it locks its event, and the inbox lets one of them in.
LEMMA CountKeyWorker ==
    ASSUME DriverCode # UniqueViolation, TypeInv, AtomInv, CountKeyInv, NEW w \in Workers,
           TakeDelivery(w) \/ HandlerStep(w) \/ HandlerFault(w)
    PROVE  CountKeyInv'
<1>1. OnlyWorker(w) /\ (Commits(w) \/ Counts(w) \/ Quiet(w))
  BY CountKinds
<1>2. inbox \subseteq inbox' /\ chats \subseteq chats' /\ IsFiniteSet(chats')
  BY <1>1, FS_AddElement DEF Commits, Counts, Quiet, WriteRows, CountKeyInv
<1>3. lock' \subseteq inbox'
  <2>1. CASE Counts(w)
    <3>1. EventId(w) \in inbox
      BY <2>1, InboxSides DEF Counts, PastPhase1
    <3> QED  BY <1>2, <2>1, <3>1 DEF Counts, LockAndIncrement, CountKeyInv
  <2>2. CASE Commits(w) \/ Quiet(w)
    BY <1>2, <2>2 DEF Commits, Quiet, CountKeyInv
  <2> QED  BY <1>1, <2>1, <2>2
<1>4. rdb'.lock \subseteq inbox'
  BY <1>1, <1>2 DEF OnlyWorker, CountKeyInv
<1>5. ASSUME NEW v \in Workers, worker'[v].pc \in PastPhase1
      PROVE  NewRow(v)' = NewRow(v) /\ NewRow(v) \in chats'
  <2>1. NewRow(v)' = NewRow(v)
    BY <1>1, <1>5, OthersStand
  <2>2. CASE worker[v].pc \in PastPhase1
    BY <1>2, <2>1, <2>2 DEF CountKeyInv
  <2>3. CASE worker[v].pc \notin PastPhase1
    <3>1. v = w /\ Commits(w)
      BY <1>1, <1>5, <2>3 DEF OnlyWorker, Counts, Quiet, PastPhase1
    <3> QED  BY <2>1, <3>1 DEF Commits, WriteRows
  <2> QED  BY <2>1, <2>2, <2>3
<1>6. ASSUME NEW v \in Workers, NEW u \in Workers, worker'[v].pc = "count",
             worker'[u].pc = "count", EventId(v)' = EventId(u)'
      PROVE  v = u
  <2>1. EventId(v) = EventId(u)
    BY <1>1, <1>6, OthersStand DEF PastPhase1
  <2>2. CASE Commits(w)
    <3>1. EventId(w) \notin inbox
      BY <2>2, InboxSides DEF Commits
    <3>2. \A x \in Workers : x # w /\ worker'[x].pc = "count" =>
            worker[x].pc = "count" /\ EventId(x) \in inbox
      BY <1>1, InboxSides DEF OnlyWorker, PastPhase1
    <3> QED  BY <1>6, <2>1, <3>1, <3>2 DEF CountKeyInv
  <2>3. CASE Counts(w) \/ Quiet(w)
    <3>1. \A x \in Workers : worker'[x].pc = "count" => worker[x].pc = "count"
      BY <1>1, <2>3 DEF OnlyWorker, Counts, Quiet, PastPhase1
    <3> QED  BY <1>6, <2>1, <3>1 DEF CountKeyInv
  <2> QED  BY <1>1, <2>2, <2>3
<1> QED  BY <1>2, <1>3, <1>4, <1>5, <1>6 DEF CountKeyInv

\* Every step keeps the locks within the inbox: a snapshot's locks were locks once.
LEMMA CountKeyStep ==
    ASSUME DriverCode # UniqueViolation, TypeInv, AtomInv, CountKeyInv, [Next]_vars
    PROVE  CountKeyInv'
<1> USE DEF PastPhase1
<1>1. ASSUME NEW r \in Requests, RequestStep(r)  PROVE CountKeyInv'
  <2>1. UNCHANGED <<lock, rdb, inbox, chats, worker>>
    BY <1>1, RequestQuiet
  <2>2. \A w \in Workers : worker[w].pc # "idle" =>
          EventId(w)' = EventId(w) /\ NewRow(w)' = NewRow(w)
    BY <1>1, PayloadFrozen
  <2> QED  BY <2>1, <2>2 DEF CountKeyInv
<1>2. ASSUME UNCHANGED <<req, inbox, chats, worker>>,
             lock' \subseteq inbox, rdb'.lock \subseteq inbox
      PROVE  CountKeyInv'
  BY <1>2 DEF CountKeyInv, EventId, NewRow, App, Request
<1>3. CASE UNCHANGED vars
  BY <1>2, <1>3 DEF vars, redisVars, dbVars, CountKeyInv
<1>4. CASE RedisSave
  BY <1>2, <1>4 DEF RedisSave, redisVars, dbVars, CountKeyInv
<1>5. CASE RedisRestart
  <2>1. PICK image \in {rdb, EmptyRedis} : lock' = image.lock /\ rdb' = image
    BY <1>5 DEF RedisRestart
  <2>2. image.lock \subseteq inbox
    BY <2>1 DEF EmptyRedis, CountKeyInv
  <2> QED  BY <1>2, <1>5, <2>1, <2>2 DEF RedisRestart, dbVars
<1>6. ASSUME NEW e \in EventIds, LockExpires(e)  PROVE CountKeyInv'
  BY <1>2, <1>6 DEF LockExpires, dbVars, CountKeyInv
<1> QED  BY <1>1, <1>3, <1>4, <1>5, <1>6, CountKeyWorker DEF Next

\* The invariants that the three theorems share.
BaseInv == TypeInv /\ KeepInv /\ AtomInv /\ CountKeyInv

\* The shared invariants hold at the start ...
LEMMA BaseInit == Init => BaseInv
  BY TypeInit, KeepInit, AtomInit, CountKeyInit DEF BaseInv

\* ... and every step keeps them.
LEMMA BaseStep ==
    ASSUME DriverCode # UniqueViolation
    PROVE  BaseInv /\ [Next]_vars => BaseInv'
  BY TypeStep, KeepStep, AtomStep, CountKeyStep DEF BaseInv

-----------------------------------------------------------------------------
(***************************************************************************)
(* Cardinalities.                                                          *)
(***************************************************************************)
\* A part of a finite set is finite, and no larger.
LEMMA CardSubset ==
    ASSUME NEW S, NEW T, IsFiniteSet(T), S \subseteq T
    PROVE  /\ IsFiniteSet(S) /\ Cardinality(S) \in Nat /\ Cardinality(T) \in Nat
           /\ Cardinality(S) <= Cardinality(T)
BY FS_Subset, FS_CardinalityType

\* One element more, at most.
LEMMA CardOneMore ==
    ASSUME NEW S, NEW T, NEW x, IsFiniteSet(T), S \subseteq T \cup {x}
    PROVE  /\ IsFiniteSet(S) /\ Cardinality(S) \in Nat /\ Cardinality(T) \in Nat
           /\ Cardinality(S) <= Cardinality(T) + 1
<1>1. IsFiniteSet(T \cup {x}) /\ Cardinality(T) \in Nat
      /\ Cardinality(T \cup {x}) <= Cardinality(T) + 1
  BY FS_AddElement, FS_CardinalityType
<1>2. IsFiniteSet(S) /\ Cardinality(S) <= Cardinality(T \cup {x}) /\ Cardinality(S) \in Nat
  BY <1>1, CardSubset
<1>3. Cardinality(T \cup {x}) \in Nat
  BY <1>1, FS_CardinalityType
<1> QED  BY <1>1, <1>2, <1>3

\* A new element counts one.
LEMMA CardNew ==
    ASSUME NEW T, NEW x, IsFiniteSet(T), x \notin T
    PROVE  Cardinality(T) \in Nat /\ Cardinality(T \cup {x}) = Cardinality(T) + 1
BY FS_AddElement, FS_CardinalityType

\* The sets that are counted here are finite.
LEMMA Finite ==
    ASSUME BaseInv, NEW a, NEW lk
    PROVE  /\ IsFiniteSet(Counting(a)) /\ IsFiniteSet(Uncounted(lk, a))
           /\ IsFiniteSet(RowsOf(a))
<1>1. Uncounted(lk, a) \subseteq Workers /\ Counting(a) \subseteq Workers
  BY DEF Counting, Uncounted
<1>2. RowsOf(a) \subseteq chats /\ IsFiniteSet(chats)
  BY DEF RowsOf, BaseInv, CountKeyInv
<1> QED  BY <1>1, <1>2, WorkersAssumption, CardSubset

\* The handlers about to count, after a step; lk is what was locked before it.
After(lk, a) == {v \in Counting(a)' : EventId(v)' \notin lk}

\* A commit adds a row, and its handler to those about to count, if it goes on ...
LEMMA CommitMoves ==
    ASSUME BaseInv, NEW w \in Workers, OnlyWorker(w), Commits(w), NEW a, NEW lk
    PROVE  /\ App(w) # a => After(lk, a) = Uncounted(lk, a) /\ RowsOf(a)' = RowsOf(a)
           /\ App(w) = a => /\ RowsOf(a)' = RowsOf(a) \cup {NewRow(w)}
                            /\ NewRow(w) \notin RowsOf(a)
                            /\ w \notin Uncounted(lk, a)
                            /\ IF worker'[w].pc = "count" /\ EventId(w) \notin lk
                               THEN After(lk, a) = Uncounted(lk, a) \cup {w}
                               ELSE After(lk, a) = Uncounted(lk, a)
<1>1. /\ worker[w].pc = "commit" /\ chats' = chats \cup {NewRow(w)}
      /\ NewRow(w).app = App(w) /\ worker'[w].pc \in {"count", "failed"}
  BY DEF Commits, WriteRows, NewRow
<1>2. NewRow(w) \notin chats
  BY <1>1 DEF BaseInv, AtomInv, ChatKeyInv, SameKey
<1>3. w \notin Counting(a)
  BY <1>1 DEF Counting
<1>4. \A v \in Workers : v # w =>
        /\ v \in Counting(a)' <=> v \in Counting(a)
        /\ EventId(v)' = EventId(v)
  BY OthersStand DEF OnlyWorker, Counting
<1>5. worker'[w].pc = "count" => EventId(w)' = EventId(w) /\ App(w)' = App(w)
  BY OthersStand DEF PastPhase1
<1>6. w \in Counting(a)' <=> worker'[w].pc = "count" /\ App(w) = a
  BY <1>5 DEF Counting
<1>7. Counting(a) \subseteq Workers /\ Counting(a)' \subseteq Workers
  BY DEF Counting
<1>8. App(w) # a => After(lk, a) = Uncounted(lk, a)
  BY <1>3, <1>4, <1>6, <1>7 DEF After, Uncounted
<1>9. w \notin Uncounted(lk, a)
  BY <1>3 DEF Uncounted
<1>10. App(w) = a => IF worker'[w].pc = "count" /\ EventId(w) \notin lk
                     THEN After(lk, a) = Uncounted(lk, a) \cup {w}
                     ELSE After(lk, a) = Uncounted(lk, a)
  BY <1>3, <1>4, <1>5, <1>6, <1>7 DEF After, Uncounted
<1>11. IF App(w) = a THEN RowsOf(a)' = RowsOf(a) \cup {NewRow(w)} ELSE RowsOf(a)' = RowsOf(a)
  BY <1>1 DEF RowsOf
<1> QED  BY <1>2, <1>8, <1>9, <1>10, <1>11 DEF RowsOf

\* ... and no other step does: the handler itself may leave Phase 2.
LEMMA OtherMoves ==
    ASSUME BaseInv, NEW w \in Workers, OnlyWorker(w), Counts(w) \/ Quiet(w), NEW a, NEW lk
    PROVE  /\ RowsOf(a)' = RowsOf(a)
           /\ After(lk, a) = Uncounted(lk, a)
                \/ /\ worker[w].pc = "count" /\ worker'[w].pc # "count"
                   /\ w \in Uncounted(lk, a) /\ After(lk, a) = Uncounted(lk, a) \ {w}
<1>1. chats' = chats /\ (worker'[w].pc = "count" => worker[w].pc = "count")
  BY DEF Counts, Quiet, PastPhase1
<1>2. \A v \in Workers : v # w =>
        /\ v \in Counting(a)' <=> v \in Counting(a)
        /\ EventId(v)' = EventId(v)
  BY OthersStand DEF OnlyWorker, Counting
<1>3. worker'[w].pc = "count" =>
        /\ w \in Counting(a)' <=> w \in Counting(a)
        /\ EventId(w)' = EventId(w)
  BY <1>1, OthersStand DEF Counting, PastPhase1
<1>4. worker'[w].pc # "count" => w \notin Counting(a)'
  BY DEF Counting
<1>5. Counting(a) \subseteq Workers /\ Counting(a)' \subseteq Workers
  BY DEF Counting
<1>6. CASE worker'[w].pc = "count" \/ w \notin Uncounted(lk, a)
  BY <1>2, <1>3, <1>4, <1>5, <1>6, <1>1 DEF After, Uncounted, RowsOf
<1>7. CASE worker'[w].pc # "count" /\ w \in Uncounted(lk, a)
  <2>1. worker[w].pc = "count"
    BY <1>7 DEF Uncounted, Counting
  <2>2. After(lk, a) = Uncounted(lk, a) \ {w}
    BY <1>2, <1>4, <1>5, <1>7 DEF After, Uncounted
  <2> QED  BY <1>1, <1>7, <2>1, <2>2 DEF RowsOf
<1> QED  BY <1>6, <1>7

-----------------------------------------------------------------------------
(***************************************************************************)
(* The counter is never ahead of the table.                                *)
(***************************************************************************)

\* A handler's step keeps a count n, with what the locks lk still let be added
\* to it, under the number of rows.
LEMMA AheadImage ==
    ASSUME BaseInv, NEW w \in Workers, OnlyWorker(w), Commits(w) \/ Counts(w) \/ Quiet(w),
           NEW a, NEW lk, NEW n \in Nat,
           n + Cardinality(Uncounted(lk, a)) <= Cardinality(RowsOf(a))
    PROVE  n + Cardinality(After(lk, a)) <= Cardinality(RowsOf(a)')
<1>1. /\ IsFiniteSet(Uncounted(lk, a)) /\ IsFiniteSet(RowsOf(a))
      /\ Cardinality(Uncounted(lk, a)) \in Nat /\ Cardinality(RowsOf(a)) \in Nat
  BY Finite, FS_CardinalityType
<1>2. CASE Commits(w)
  <2>1. CASE App(w) # a
    BY <1>2, <2>1, CommitMoves
  <2>2. CASE App(w) = a
    <3>1. Cardinality(RowsOf(a)') = Cardinality(RowsOf(a)) + 1
      BY <1>1, <1>2, <2>2, CommitMoves, CardNew
    <3>2. After(lk, a) \subseteq Uncounted(lk, a) \cup {w}
      BY <1>2, <2>2, CommitMoves
    <3>3. /\ Cardinality(After(lk, a)) \in Nat
          /\ Cardinality(After(lk, a)) <= Cardinality(Uncounted(lk, a)) + 1
      BY <1>1, <3>2, CardOneMore
    <3> QED  BY <1>1, <3>1, <3>3
  <2> QED  BY <2>1, <2>2
<1>3. CASE Counts(w) \/ Quiet(w)
  <2>1. After(lk, a) \subseteq Uncounted(lk, a) /\ RowsOf(a)' = RowsOf(a)
    BY <1>3, OtherMoves
  <2>2. /\ Cardinality(After(lk, a)) \in Nat
        /\ Cardinality(After(lk, a)) <= Cardinality(Uncounted(lk, a))
    BY <1>1, <2>1, CardSubset
  <2> QED  BY <1>1, <2>1, <2>2
<1> QED  BY <1>2, <1>3

\* The script takes its handler off those that are about to count.
LEMMA CountMoves ==
    ASSUME BaseInv, NEW w \in Workers, OnlyWorker(w), Counts(w), NEW a \in Apps
    PROVE  /\ RowsOf(a)' = RowsOf(a)
           /\ \/ /\ cnt'[a] = cnt[a]
                 /\ Uncounted(lock, a)' = Uncounted(lock, a)
              \/ /\ cnt'[a] = cnt[a] + 1
                 /\ w \in Uncounted(lock, a)
                 /\ Uncounted(lock, a)' = Uncounted(lock, a) \ {w}
                 /\ App(w) = a /\ EventId(w) \notin lock
<1>0. cnt \in [Apps -> Nat] /\ App(w) \in Apps /\ worker[w].pc = "count"
  BY PayloadTypes DEF BaseInv, TypeInv, RedisTypeOK, Counts
<1>1. RowsOf(a)' = RowsOf(a)
  BY OtherMoves
<1>2. \A v \in Workers : worker'[v].pc = "count" =>
        worker[v].pc = "count" /\ EventId(v)' = EventId(v) /\ App(v)' = App(v)
  <2>1. \A v \in Workers : worker'[v].pc = "count" => v # w \/ worker'[w].pc \in PastPhase1
    BY DEF PastPhase1
  <2> QED  BY <1>0, <2>1, OthersStand DEF OnlyWorker
<1>3. \A v \in Workers : v # w /\ worker[v].pc = "count" => worker'[v].pc = "count"
  BY DEF OnlyWorker
<1>4. CASE EventId(w) \in lock
  <2>1. cnt' = cnt /\ lock' = lock
    BY <1>4 DEF Counts, LockAndIncrement
  <2>2. Uncounted(lock, a)' = Uncounted(lock, a)
    BY <1>2, <1>3, <1>4, <2>1, OthersStand DEF Uncounted, Counting
  <2> QED  BY <1>1, <2>1, <2>2
<1>5. CASE EventId(w) \notin lock
  <2>1. lock' = lock \cup {EventId(w)} /\ cnt' = [cnt EXCEPT ![App(w)] = @ + 1]
    BY <1>5 DEF Counts, LockAndIncrement
  <2>2. \A v \in Workers : v # w /\ worker[v].pc = "count" =>
          /\ EventId(v) # EventId(w)
          /\ EventId(v)' = EventId(v) /\ App(v)' = App(v)
    BY <1>0, OthersStand DEF BaseInv, CountKeyInv
  <2>3. Uncounted(lock, a)' = Uncounted(lock, a) \ {w}
    BY <1>2, <1>3, <2>1, <2>2 DEF Uncounted, Counting
  <2>4. CASE App(w) = a
    BY <1>0, <1>1, <1>5, <2>1, <2>3, <2>4 DEF Uncounted, Counting
  <2>5. CASE App(w) # a
    BY <1>0, <1>1, <2>1, <2>3, <2>5 DEF Uncounted, Counting
  <2> QED  BY <2>4, <2>5
<1> QED  BY <1>4, <1>5

\* Nothing is counted, stored or on its way to begin with.
LEMMA Empty ==
    ASSUME Init, NEW a \in Apps, NEW lk
    PROVE  /\ cnt[a] = 0 /\ rdb.cnt[a] = 0
           /\ Uncounted(lk, a) = {} /\ RowsOf(a) = {} /\ faults = 0
BY DEF Init, EmptyRedis, IdleWorker, Uncounted, Counting, RowsOf

\* An empty counter is ahead of nothing.
LEMMA AheadInit == Init => AheadInv
<1> SUFFICES ASSUME Init, NEW a \in Apps
             PROVE  /\ cnt[a] + Cardinality(Uncounted(lock, a)) <= Cardinality(RowsOf(a))
                    /\ rdb.cnt[a] + Cardinality(Uncounted(rdb.lock, a))
                            <= Cardinality(RowsOf(a))
                    /\ Cardinality(Uncounted({}, a)) <= Cardinality(RowsOf(a))
  BY DEF AheadInv
<1>1. Cardinality({}) = 0
  BY FS_EmptySet
<1> QED  BY <1>1, Empty

\* A handler's step keeps the live counter and both images within the table.
LEMMA AheadWorker ==
    ASSUME BaseInv, AheadInv, NEW w \in Workers,
           OnlyWorker(w), Commits(w) \/ Counts(w) \/ Quiet(w)
    PROVE  AheadInv'
<1> SUFFICES ASSUME NEW a \in Apps
             PROVE  /\ cnt'[a] + Cardinality(Uncounted(lock, a)') <= Cardinality(RowsOf(a)')
                    /\ rdb'.cnt[a] + Cardinality(Uncounted(rdb.lock, a)')
                            <= Cardinality(RowsOf(a)')
                    /\ Cardinality(Uncounted({}, a)') <= Cardinality(RowsOf(a)')
  BY DEF AheadInv
<1>0. cnt[a] \in Nat /\ rdb.cnt[a] \in Nat
  BY DEF BaseInv, TypeInv, RedisTypeOK, Redis
<1>1. /\ cnt[a] + Cardinality(Uncounted(lock, a)) <= Cardinality(RowsOf(a))
      /\ rdb.cnt[a] + Cardinality(Uncounted(rdb.lock, a)) <= Cardinality(RowsOf(a))
      /\ Cardinality(Uncounted({}, a)) <= Cardinality(RowsOf(a))
  BY DEF AheadInv
<1>2. rdb'.cnt[a] + Cardinality(Uncounted(rdb.lock, a)') <= Cardinality(RowsOf(a)')
  <2>1. Uncounted(rdb.lock, a)' = After(rdb.lock, a) /\ rdb' = rdb
    BY DEF OnlyWorker, Uncounted, After
  <2> QED  BY <1>0, <1>1, <2>1, AheadImage
<1>3. Cardinality(Uncounted({}, a)') <= Cardinality(RowsOf(a)')
  <2>1. Uncounted({}, a)' = After({}, a)
    BY DEF Uncounted, After
  <2>2. /\ Cardinality(Uncounted({}, a)) \in Nat
        /\ IsFiniteSet(Uncounted({}, a)) /\ IsFiniteSet(Uncounted({}, a) \cup {w})
    BY Finite, FS_CardinalityType, FS_AddElement
  <2>3. After({}, a) \subseteq Uncounted({}, a) \cup {w}
    BY CommitMoves, OtherMoves
  <2>4. Cardinality(After({}, a)) \in Nat
    BY <2>2, <2>3, CardSubset
  <2>5. 0 + Cardinality(Uncounted({}, a)) <= Cardinality(RowsOf(a))
    BY <1>1, <2>2
  <2>6. 0 + Cardinality(After({}, a)) <= Cardinality(RowsOf(a)')
    BY <2>5, AheadImage
  <2> QED  BY <2>1, <2>4, <2>6
<1>4. cnt'[a] + Cardinality(Uncounted(lock, a)') <= Cardinality(RowsOf(a)')
  <2>1. CASE Commits(w) \/ Quiet(w)
    <3>1. Uncounted(lock, a)' = After(lock, a) /\ cnt' = cnt
      BY <2>1 DEF Commits, Quiet, Uncounted, After
    <3> QED  BY <1>0, <1>1, <3>1, AheadImage
  <2>2. CASE Counts(w)
    <3>1. IsFiniteSet(Uncounted(lock, a)) /\ Cardinality(Uncounted(lock, a)) \in Nat
      BY Finite, FS_CardinalityType
    <3>2. w \in Uncounted(lock, a) =>
            Cardinality(Uncounted(lock, a) \ {w}) = Cardinality(Uncounted(lock, a)) - 1
      BY <3>1, FS_RemoveElement
    <3>3. CASE /\ cnt'[a] = cnt[a]
               /\ Uncounted(lock, a)' = Uncounted(lock, a)
      BY <1>1, <2>2, <3>3, CountMoves
    <3>4. CASE /\ cnt'[a] = cnt[a] + 1
               /\ w \in Uncounted(lock, a)
               /\ Uncounted(lock, a)' = Uncounted(lock, a) \ {w}
      <4>1. Cardinality(Uncounted(lock, a)') = Cardinality(Uncounted(lock, a)) - 1
        BY <3>2, <3>4
      <4>2. RowsOf(a)' = RowsOf(a)
        BY <2>2, CountMoves
      <4> QED  BY <1>0, <1>1, <3>1, <3>4, <4>1, <4>2
    <3> QED  BY <2>2, <3>3, <3>4, CountMoves
  <2> QED  BY <2>1, <2>2
<1> QED  BY <1>2, <1>3, <1>4

\* Steps that move no handler and no row.
LEMMA StillHandlers ==
    ASSUME BaseInv, [Next]_vars,
           ~\E w \in Workers : TakeDelivery(w) \/ HandlerStep(w) \/ HandlerFault(w),
           NEW a, NEW lk
    PROVE  /\ UNCHANGED <<worker, chats>> /\ RowsOf(a)' = RowsOf(a)
           /\ Counting(a)' = Counting(a) /\ After(lk, a) = Uncounted(lk, a)
<1>1. UNCHANGED <<worker, chats>>
  BY RequestQuiet DEF Next, vars, dbVars, LockExpires, RedisSave, RedisRestart
<1>2. \A w \in Workers : worker[w].pc = "count" =>
        App(w)' = App(w) /\ EventId(w)' = EventId(w)
  <2>1. CASE \E r \in Requests : RequestStep(r)
    BY <2>1, PayloadFrozen DEF BaseInv
  <2>2. CASE UNCHANGED req
    BY <1>1, <2>2 DEF App, EventId, Request
  <2> QED  BY <2>1, <2>2 DEF Next, vars, LockExpires, RedisSave, RedisRestart
<1> QED  BY <1>1, <1>2 DEF RowsOf, Counting, After, Uncounted

\* An expired lock is nobody's who still has to count.
LEMMA ExpiryFrees ==
    ASSUME BaseInv, NEW e \in EventIds, LockExpires(e), NEW a
    PROVE  Uncounted(lock, a)' = Uncounted(lock, a)
<1>1. /\ lock' = lock \ {e} /\ UNCHANGED <<req, worker>>
      /\ \A w \in Counting(a) : EventId(w) # e
  BY DEF LockExpires, Counting
<1> QED  BY <1>1 DEF Uncounted, Counting, EventId, App, Request

\* So does every step: an image Redis may come back from is within the table already.
LEMMA AheadStep ==
    ASSUME DriverCode # UniqueViolation, BaseInv, AheadInv, [Next]_vars
    PROVE  AheadInv'
<1>1. CASE \E w \in Workers : TakeDelivery(w) \/ HandlerStep(w) \/ HandlerFault(w)
  BY <1>1, CountKinds, AheadWorker DEF BaseInv
<1>2. CASE ~\E w \in Workers : TakeDelivery(w) \/ HandlerStep(w) \/ HandlerFault(w)
  <2> SUFFICES ASSUME NEW a \in Apps
               PROVE  /\ cnt'[a] + Cardinality(Uncounted(lock, a)') <= Cardinality(RowsOf(a)')
                      /\ rdb'.cnt[a] + Cardinality(Uncounted(rdb.lock, a)')
                              <= Cardinality(RowsOf(a)')
                      /\ Cardinality(Uncounted({}, a)') <= Cardinality(RowsOf(a)')
    BY DEF AheadInv
  <2>1. /\ cnt[a] + Cardinality(Uncounted(lock, a)) <= Cardinality(RowsOf(a))
        /\ rdb.cnt[a] + Cardinality(Uncounted(rdb.lock, a)) <= Cardinality(RowsOf(a))
        /\ Cardinality(Uncounted({}, a)) <= Cardinality(RowsOf(a))
    BY DEF AheadInv
  <2>2. RowsOf(a)' = RowsOf(a) /\ UNCHANGED worker /\ Counting(a)' = Counting(a)
    BY <1>2, StillHandlers
  <2>3. \A lk : After(lk, a) = Uncounted(lk, a)
    BY <1>2, StillHandlers
  <2>4. Uncounted({}, a)' = Uncounted({}, a)
    <3>1. Uncounted({}, a)' = After({}, a)
      BY DEF Uncounted, After
    <3> QED  BY <2>3, <3>1
  <2>5. \A image \in Redis : image.lock = lock' => Uncounted(lock, a)' = Uncounted(image.lock, a)
    BY <2>3 DEF Uncounted, After
  <2>6. \A image \in Redis : image = rdb' => Uncounted(rdb.lock, a)' = Uncounted(image.lock, a)
    BY <2>3 DEF Uncounted, After
  <2>7. rdb \in Redis /\ EmptyRedis \in Redis /\ EmptyRedis.cnt[a] = 0 /\ EmptyRedis.lock = {}
    BY DEF BaseInv, TypeInv, RedisTypeOK, EmptyRedis, Redis
  <2>8. Cardinality(Uncounted({}, a)) \in Nat
    BY Finite, FS_CardinalityType
  <2>9. CASE UNCHANGED <<cnt, lock, rdb>>
    <3>1. /\ Uncounted(lock, a)' = Uncounted(lock, a)
          /\ Uncounted(rdb.lock, a)' = Uncounted(rdb.lock, a)
      BY <2>3, <2>9 DEF Uncounted, After
    <3> QED  BY <2>1, <2>2, <2>4, <2>9, <3>1
  <2>10. CASE RedisSave
    <3>1. /\ UNCHANGED <<cnt, lock>> /\ rdb'.cnt = cnt /\ rdb'.lock = lock
      BY <2>10 DEF RedisSave, redisVars
    <3>2. /\ Uncounted(lock, a)' = Uncounted(lock, a)
          /\ Uncounted(rdb.lock, a)' = Uncounted(lock, a)
      BY <2>3, <3>1 DEF Uncounted, After
    <3> QED  BY <2>1, <2>2, <2>4, <3>1, <3>2
  <2>11. CASE RedisRestart
    <3>1. PICK image \in {rdb, EmptyRedis} :
              cnt' = image.cnt /\ lock' = image.lock /\ rdb' = image
      BY <2>11 DEF RedisRestart
    <3>2. /\ Uncounted(lock, a)' = Uncounted(image.lock, a)
          /\ Uncounted(rdb.lock, a)' = Uncounted(image.lock, a)
      BY <2>5, <2>6, <2>7, <3>1
    <3>3. image.cnt[a] + Cardinality(Uncounted(image.lock, a)) <= Cardinality(RowsOf(a))
      <4>1. CASE image = rdb
        BY <2>1, <4>1
      <4>2. CASE image = EmptyRedis
        <5>1. Uncounted(image.lock, a) = Uncounted({}, a) /\ image.cnt[a] = 0
          BY <2>7, <4>2
        <5> QED  BY <2>1, <2>8, <5>1
      <4> QED  BY <3>1, <4>1, <4>2
    <3> QED  BY <2>1, <2>2, <2>4, <3>1, <3>2, <3>3
  <2>12. ASSUME NEW e \in EventIds, LockExpires(e)
         PROVE  UNCHANGED <<cnt, rdb>> /\ Uncounted(lock, a)' = Uncounted(lock, a)
    BY <2>12, ExpiryFrees DEF LockExpires
  <2>13. CASE UNCHANGED <<cnt, rdb>> /\ Uncounted(lock, a)' = Uncounted(lock, a)
    <3>1. Uncounted(rdb.lock, a)' = After(rdb.lock, a)
      BY <2>13 DEF Uncounted, After
    <3>2. After(rdb.lock, a) = Uncounted(rdb.lock, a)
      BY <2>3
    <3> QED  BY <2>1, <2>2, <2>4, <2>13, <3>1, <3>2
  <2>14. (\E e \in EventIds : LockExpires(e)) \/ RedisSave \/ RedisRestart
            \/ UNCHANGED <<cnt, lock, rdb>>
    BY <1>2, RequestQuiet DEF Next, vars, redisVars
  <2> QED  BY <2>9, <2>10, <2>11, <2>12, <2>13, <2>14
<1> QED  BY <1>1, <1>2

\* The counter itself is within the table.
LEMMA AheadMeans ==
    ASSUME BaseInv, AheadInv
    PROVE  CountNeverAhead
<1> SUFFICES ASSUME NEW a \in Apps
             PROVE  cnt[a] <= Cardinality(RowsOf(a))
  BY DEF CountNeverAhead
<1>1. /\ Cardinality(Uncounted(lock, a)) \in Nat /\ Cardinality(RowsOf(a)) \in Nat
      /\ cnt[a] \in Nat
  BY Finite, FS_CardinalityType DEF BaseInv, TypeInv, RedisTypeOK
<1> QED  BY <1>1 DEF AheadInv

\* Redis never counts a chat that is not stored, nor one chat twice: for any number
\* of redeliveries, scripts sent twice, expired locks and restarts of Redis.
THEOREM NeverAhead ==
    ASSUME DriverCode # UniqueViolation
    PROVE  Spec => []CountNeverAhead
<1>1. Init => BaseInv /\ AheadInv
  BY BaseInit, AheadInit
<1>2. BaseInv /\ AheadInv /\ [Next]_vars => BaseInv' /\ AheadInv'
  BY BaseStep, AheadStep
<1> QED  BY <1>1, <1>2, AheadMeans, PTL DEF Spec

-----------------------------------------------------------------------------
(***************************************************************************)
(* What is acknowledged was counted, while Redis keeps its data.           *)
(***************************************************************************)
\* A delivery acknowledges nothing; a handler its own event only, and only when it is done.
LEMMA WhoAcks ==
    ASSUME DriverCode # UniqueViolation, TypeInv, NEW w \in Workers,
           TakeDelivery(w) \/ HandlerStep(w) \/ HandlerFault(w),
           NEW c \in Copies, copy'[c] = "acked", copy[c] # "acked"
    PROVE  c = worker[w].copy /\ worker[w].pc = "settle"
<1>1. CASE HandlerStep(w) \/ HandlerFault(w)
  BY <1>1, HandlerKeeps
<1>2. CASE TakeDelivery(w)
  <2>1. PICK d \in Copies : Queue!Deliver(d)
    BY <1>2 DEF TakeDelivery
  <2>2. QueueMove(d) /\ ~Queue!Ack(d)
    BY <2>1 DEF QueueMove, Queue!Deliver, Queue!Ack
  <2> QED  BY <2>1, <2>2, QueueMoves DEF TypeInv
<1> QED  BY <1>1, <1>2

\* A handler past Phase 1 answers for the one row of its request.
LEMMA RowOfHandler ==
    ASSUME BaseInv, NEW w \in Workers, worker[w].pc \in PastPhase1,
           NEW row \in chats, row.by = Request(w)
    PROVE  row = NewRow(w)
<1>1. NewRow(w) \in chats /\ NewRow(w).by = Request(w)
  BY DEF BaseInv, CountKeyInv, NewRow
<1> QED  BY <1>1 DEF BaseInv, AtomInv, RowsInInbox

\* The request of a handler that is about to commit has no row, no acknowledged
\* event and no handler past Phase 1.
LEMMA CommitIsFirst ==
    ASSUME BaseInv, NEW w \in Workers, worker[w].pc = "commit"
    PROVE  /\ ~Stored(Request(w)) /\ EventId(w) \notin lock
           /\ \A c \in Copies : c[1] = Request(w) => copy[c] # "acked"
           /\ \A v \in Workers : worker[v].pc \in PastPhase1 => Request(v) # Request(w)
<1>1. EventId(w) \notin inbox
  BY InboxSides DEF BaseInv
<1>2. ~Stored(Request(w))
  BY <1>1 DEF BaseInv, AtomInv, RowsInInbox, Stored, EventId
<1> QED  BY <1>1, <1>2 DEF BaseInv, CountKeyInv, KeepInv

\* A row becomes safe when the script counts it, not otherwise.
LEMMA SafeWorker ==
    ASSUME DriverCode # UniqueViolation, BaseInv, NEW w \in Workers,
           TakeDelivery(w) \/ HandlerStep(w) \/ HandlerFault(w),
           NEW row \in chats', Safe(row)'
    PROVE  /\ row \in chats
           /\ Safe(row) \/ (Counts(w) /\ EventId(w) \notin lock /\ row = NewRow(w))
<1>1. OnlyWorker(w) /\ (Commits(w) \/ Counts(w) \/ Quiet(w))
  BY CountKinds DEF BaseInv
<1>2. ASSUME NEW v \in Workers, worker'[v].pc \in PastPhase1
      PROVE  Request(v)' = Request(v) /\ EventId(v)' = EventId(v)
  BY <1>1, <1>2, OthersStand
<1>3. CASE \E c \in Copies : c[1] = row.by /\ copy'[c] = "acked"
  <2>1. PICK c \in Copies : c[1] = row.by /\ copy'[c] = "acked"
    BY <1>3
  <2>2. Safe(row) /\ (worker[w].pc # "commit" \/ row.by # Request(w))
    BY <2>1, WhoAcks, CommitIsFirst DEF BaseInv, Safe, Request
  <2>3. row \in chats
    BY <1>1, <2>2 DEF Commits, Counts, Quiet, WriteRows, NewRow
  <2> QED  BY <2>2, <2>3
<1>4. ASSUME NEW v \in Workers, worker'[v].pc \in PastPhase1, Request(v)' = row.by,
             worker'[v].pc = "settle" \/ EventId(v)' \in lock'
      PROVE  /\ row \in chats
             /\ Safe(row) \/ (Counts(w) /\ EventId(w) \notin lock /\ row = NewRow(w))
  <2>1. Request(v) = row.by /\ (worker'[v].pc = "settle" \/ EventId(v) \in lock')
    BY <1>2, <1>4
  <2>2. CASE Commits(w)
    <3>1. v # w \/ worker'[w].pc = "count"
      BY <1>4, <2>2 DEF Commits, PastPhase1
    <3>2. v # w
      BY <2>1, <2>2, <3>1, CommitIsFirst DEF Commits
    <3>3. worker[v] = worker'[v] /\ lock' = lock
      BY <1>1, <2>2, <3>2 DEF OnlyWorker, Commits
    <3>4. Request(v) # Request(w)
      BY <1>4, <2>2, <3>3, CommitIsFirst DEF Commits
    <3> QED  BY <1>4, <2>1, <2>2, <3>3, <3>4 DEF Safe, Commits, WriteRows, NewRow, PastPhase1
  <2>3. CASE Quiet(w)
    <3>1. worker[v].pc = worker'[v].pc /\ lock' = lock /\ chats' = chats
      BY <1>1, <1>4, <2>3 DEF OnlyWorker, Quiet
    <3> QED  BY <1>4, <2>1, <3>1 DEF Safe, PastPhase1
  <2>4. CASE Counts(w)
    <3>1. worker[w].pc = "count" /\ chats' = chats
      BY <2>4 DEF Counts
    <3>2. CASE v = w
      <4>1. row = NewRow(w)
        BY <2>1, <3>1, <3>2, RowOfHandler DEF PastPhase1
      <4> QED  BY <2>1, <2>4, <3>1, <3>2, <4>1 DEF Safe
    <3>3. CASE v # w
      <4>1. worker[v].pc = worker'[v].pc
        BY <1>1, <3>3 DEF OnlyWorker
      <4>2. worker[v].pc = "count" => EventId(v) # EventId(w)
        BY <3>1, <3>3 DEF BaseInv, CountKeyInv
      <4>3. worker[v].pc = "settle" \/ (worker[v].pc = "count" /\ EventId(v) \in lock)
        BY <1>4, <2>1, <2>4, <4>1, <4>2 DEF Counts, LockAndIncrement, PastPhase1
      <4> QED  BY <2>1, <3>1, <4>3 DEF Safe
    <3> QED  BY <3>2, <3>3
  <2> QED  BY <1>1, <2>2, <2>3, <2>4
<1> QED  BY <1>3, <1>4 DEF Safe, PastPhase1

\* No row is safe to begin with.
LEMMA CoverInit == Init => CoverInv
<1> SUFFICES ASSUME Init, NEW a \in Apps PROVE Cardinality(SafeRows(a)) <= cnt[a]
  BY DEF CoverInv
<1>1. SafeRows(a) = {}
  BY Empty DEF SafeRows
<1> QED  BY <1>1, Empty, FS_EmptySet

\* The one row a handler's step makes safe is the one it counts.
LEMMA CoverWorker ==
    ASSUME DriverCode # UniqueViolation, BaseInv, CoverInv, NEW w \in Workers,
           TakeDelivery(w) \/ HandlerStep(w) \/ HandlerFault(w)
    PROVE  CoverInv'
<1> SUFFICES ASSUME NEW a \in Apps PROVE Cardinality(SafeRows(a)') <= cnt'[a]
  BY DEF CoverInv
<1>1. OnlyWorker(w) /\ (Commits(w) \/ Counts(w) \/ Quiet(w))
  BY CountKinds DEF BaseInv
<1>2. IsFiniteSet(SafeRows(a))
  <2>1. SafeRows(a) \subseteq RowsOf(a)
    BY DEF SafeRows
  <2> QED  BY <2>1, Finite, CardSubset
<1>3. cnt[a] \in Nat /\ Cardinality(SafeRows(a)) \in Nat /\ Cardinality(SafeRows(a)) <= cnt[a]
  BY <1>2, FS_CardinalityType DEF CoverInv, BaseInv, TypeInv, RedisTypeOK
<1>4. ASSUME NEW row \in SafeRows(a)', row \notin SafeRows(a)
      PROVE  Counts(w) /\ EventId(w) \notin lock /\ App(w) = a /\ row = NewRow(w)
  <2>1. row \in chats' /\ row.app = a /\ Safe(row)'
    BY <1>4 DEF SafeRows, RowsOf
  <2>2. row \in chats /\ (Safe(row) \/ (Counts(w) /\ EventId(w) \notin lock /\ row = NewRow(w)))
    BY <2>1, SafeWorker
  <2> QED  BY <1>4, <2>1, <2>2 DEF SafeRows, RowsOf, NewRow
<1>5. CASE Counts(w) /\ EventId(w) \notin lock /\ App(w) = a
  <2>1. cnt'[a] = cnt[a] + 1
    BY <1>3, <1>5 DEF Counts, LockAndIncrement, BaseInv, TypeInv, RedisTypeOK
  <2>2. SafeRows(a)' \subseteq SafeRows(a) \cup {NewRow(w)}
    BY <1>4
  <2>3. /\ Cardinality(SafeRows(a)') \in Nat
        /\ Cardinality(SafeRows(a)') <= Cardinality(SafeRows(a)) + 1
    BY <1>2, <2>2, CardOneMore
  <2> QED  BY <1>3, <2>1, <2>3
<1>6. CASE ~(Counts(w) /\ EventId(w) \notin lock /\ App(w) = a)
  <2>1. SafeRows(a)' \subseteq SafeRows(a)
    BY <1>4, <1>6
  <2>2. /\ Cardinality(SafeRows(a)') \in Nat
        /\ Cardinality(SafeRows(a)') <= Cardinality(SafeRows(a))
    BY <1>2, <2>1, CardSubset
  <2>3. cnt'[a] \in {cnt[a], cnt[a] + 1}
    BY <1>1, CountMoves DEF Commits, Quiet
  <2> QED  BY <1>3, <2>2, <2>3
<1> QED  BY <1>5, <1>6

\* Neither requests nor the upkeep of Redis acknowledge, lock or count, unless Redis restarts.
LEMMA CoverStep ==
    ASSUME DriverCode # UniqueViolation, MaxRestarts = 0, BaseInv, CoverInv, [Next]_vars
    PROVE  CoverInv'
<1>1. CASE \E w \in Workers : TakeDelivery(w) \/ HandlerStep(w) \/ HandlerFault(w)
  BY <1>1, CoverWorker
<1>2. CASE ~\E w \in Workers : TakeDelivery(w) \/ HandlerStep(w) \/ HandlerFault(w)
  <2>0. ~RedisRestart
    BY DEF RedisRestart, BaseInv, TypeInv, BudgetTypeOK
  <2>1. UNCHANGED <<worker, chats, cnt>> /\ lock' \subseteq lock
    BY <1>2, <2>0, RequestQuiet DEF Next, vars, dbVars, redisVars, LockExpires, RedisSave
  <2>2. \A w \in Workers : worker[w].pc # "idle" =>
          Request(w)' = Request(w) /\ EventId(w)' = EventId(w)
    <3>1. CASE \E r \in Requests : RequestStep(r)
      BY <2>1, <3>1, PayloadFrozen DEF BaseInv, Request
    <3>2. CASE UNCHANGED req
      BY <2>1, <3>2 DEF EventId, Request
    <3> QED  BY <1>2, <2>0, <3>1, <3>2 DEF Next, vars, LockExpires, RedisSave
  <2>3. \A c \in Copies : copy'[c] = "acked" => copy[c] = "acked"
    <3>1. ASSUME NEW r \in Requests, RequestStep(r)  PROVE <2>3
      <4>1. CASE UNCHANGED queueVars
        BY <4>1 DEF queueVars
      <4>2. ASSUME NEW k \in 1 .. MaxSends, Queue!Publish(<<r, k>>)  PROVE <2>3
        <5>1. /\ <<r, k>> \in Copies /\ QueueMove(<<r, k>>) /\ QueueInv
              /\ ~Queue!Ack(<<r, k>>)
          BY <4>2, CopyIn DEF QueueMove, BaseInv, TypeInv, Queue!Publish, Queue!Ack
        <5> QED  BY <5>1, QueueMoves
      <4> QED  BY <3>1, <4>1, <4>2, RequestPublishes DEF BaseInv
    <3>2. CASE UNCHANGED copy
      BY <3>2
    <3> QED  BY <1>2, <2>0, <3>1, <3>2 DEF Next, vars, queueVars, LockExpires, RedisSave
  <2>4. \A a \in Apps : SafeRows(a)' \subseteq SafeRows(a)
    BY <2>1, <2>2, <2>3 DEF SafeRows, RowsOf, Safe
  <2> SUFFICES ASSUME NEW a \in Apps PROVE Cardinality(SafeRows(a)') <= cnt'[a]
    BY DEF CoverInv
  <2>5. IsFiniteSet(SafeRows(a))
    <3>1. SafeRows(a) \subseteq RowsOf(a)
      BY DEF SafeRows
    <3> QED  BY <3>1, Finite, CardSubset
  <2>6. /\ Cardinality(SafeRows(a)') \in Nat /\ Cardinality(SafeRows(a)) \in Nat
        /\ Cardinality(SafeRows(a)') <= Cardinality(SafeRows(a))
    BY <2>4, <2>5, CardSubset
  <2> QED  BY <2>1, <2>6 DEF CoverInv, BaseInv, TypeInv, RedisTypeOK
<1> QED  BY <1>1, <1>2

\* The acknowledged rows of an app are among its safe ones.
LEMMA CoverMeans ==
    ASSUME BaseInv, CoverInv
    PROVE  CountCoversAcked
<1> SUFFICES ASSUME NEW a \in Apps
             PROVE  Cardinality({row \in RowsOf(a) :
                        \E c \in Copies : c[1] = row.by /\ copy[c] = "acked"}) <= cnt[a]
  BY DEF CountCoversAcked
<1> DEFINE acked == {row \in RowsOf(a) :
                        \E c \in Copies : c[1] = row.by /\ copy[c] = "acked"}
<1>1. acked \subseteq SafeRows(a) /\ SafeRows(a) \subseteq RowsOf(a)
  BY DEF SafeRows, Safe
<1>2. IsFiniteSet(SafeRows(a))
  BY <1>1, Finite, CardSubset
<1> HIDE DEF acked
<1>3. /\ Cardinality(acked) \in Nat /\ Cardinality(SafeRows(a)) \in Nat
      /\ Cardinality(acked) <= Cardinality(SafeRows(a))
  BY <1>1, <1>2, CardSubset
<1>4. cnt[a] \in Nat /\ Cardinality(SafeRows(a)) <= cnt[a]
  BY DEF CoverInv, BaseInv, TypeInv, RedisTypeOK
<1>5. Cardinality(acked) <= cnt[a]
  BY <1>3, <1>4
<1> QED  BY <1>5 DEF acked

\* An acknowledged event has been counted, whatever faults hit handlers and requests, as long
\* as Redis keeps its data: only an event that ends in the dead-letter queue can be missing.
THEOREM AckedIsCounted ==
    ASSUME DriverCode # UniqueViolation, MaxRestarts = 0
    PROVE  Spec => []CountCoversAcked
<1>1. Init => BaseInv /\ CoverInv
  BY BaseInit, CoverInit
<1>2. BaseInv /\ CoverInv /\ [Next]_vars => BaseInv' /\ CoverInv'
  BY BaseStep, CoverStep
<1> QED  BY <1>1, <1>2, CoverMeans, PTL DEF Spec

-----------------------------------------------------------------------------
(***************************************************************************)
(* The counter trails the table by what is under way, and by the faults.   *)
(***************************************************************************)
\* Nothing is lost to begin with.
LEMMA LostInit ==
    ASSUME Init, NEW a \in Apps
    PROVE  Lost(a) = 0
  BY Empty, FS_EmptySet DEF Lost

\* So the faults, of which there were none, are not exceeded.
LEMMA DriftInit == Init => DriftInv
<1> SUFFICES ASSUME Init, NEW a \in Apps  PROVE Lost(a) <= faults
  BY DEF DriftInv
<1>1. Lost(a) = 0 /\ faults = 0
  BY LostInit, Empty
<1> QED  BY <1>1

\* What an app's counter has lost is an integer.
LEMMA LostType == BaseInv => \A a \in Apps : Lost(a) \in Int
<1> SUFFICES ASSUME BaseInv, NEW a \in Apps  PROVE Lost(a) \in Int
  OBVIOUS
<1>1. /\ Cardinality(Uncounted(lock, a)) \in Nat /\ Cardinality(RowsOf(a)) \in Nat
      /\ cnt[a] \in Nat
  BY Finite, FS_CardinalityType DEF BaseInv, TypeInv, RedisTypeOK
<1> QED  BY <1>1 DEF Lost

\* It is one in the next state, too.
LEMMA LostTypeNext == (BaseInv => \A a \in Apps : Lost(a) \in Int)'
  BY LostType, PTL

\* Faults are counted, never forgotten.
LEMMA FaultsGrow ==
    ASSUME BaseInv, [Next]_vars
    PROVE  faults <= faults'
<1>1. faults \in Nat
  BY DEF BaseInv, TypeInv, BudgetTypeOK
<1> USE DEF NoFault, Fault
<1>2. CASE \E r \in Requests : RequestStep(r)
  BY <1>1, <1>2 DEF RequestStep, FindApp, GetNextChatNumber, InitializeChat, PublishEvent,
     ConfirmPublish, RequestFails, NumberReplyLost, Republish
<1>3. CASE \E w \in Workers : TakeDelivery(w) \/ HandlerStep(w)
  BY <1>1, <1>3 DEF TakeDelivery, HandlerStep, ValidateEvent, CreateChat, Commit, CountChat,
     AckDelivery, NackDelivery
<1>4. CASE \E w \in Workers : HandlerFault(w)
  BY <1>1, <1>4 DEF HandlerFault, HandlerError, CommitReplyLost, CountReplyLost,
     ConsumerCrash, ChannelLost
<1>5. CASE RedisSave \/ RedisRestart \/ \E e \in EventIds : LockExpires(e)
  BY <1>1, <1>5 DEF RedisSave, RedisRestart, LockExpires
<1> QED  BY <1>1, <1>2, <1>3, <1>4, <1>5 DEF Next, vars

\* A commit that goes on adds its handler to those about to count; one that fails,
\* and a handler that drops out, cost a fault.
LEMMA LostWorker ==
    ASSUME BaseInv, NEW w \in Workers, OnlyWorker(w), Commits(w) \/ Counts(w) \/ Quiet(w),
           NEW a \in Apps
    PROVE  Lost(a)' + faults <= Lost(a) + faults'
<1> USE DEF Lost
<1> DEFINE U == Cardinality(Uncounted(lock, a))
           R == Cardinality(RowsOf(a))
<1>0. IsFiniteSet(Uncounted(lock, a)) /\ IsFiniteSet(RowsOf(a))
  BY Finite
<1>1. /\ IsFiniteSet(Uncounted(lock, a)) /\ IsFiniteSet(RowsOf(a)) /\ U \in Nat /\ R \in Nat
      /\ cnt[a] \in Nat /\ faults \in Nat
  <2>1. U \in Nat /\ R \in Nat
    BY <1>0, FS_CardinalityType
  <2>2. cnt[a] \in Nat /\ faults \in Nat
    BY DEF BaseInv, TypeInv, RedisTypeOK, BudgetTypeOK
  <2> QED  BY <1>0, <2>1, <2>2
<1>2. CASE Commits(w)
  <2>1. Uncounted(lock, a)' = After(lock, a) /\ cnt' = cnt /\ worker[w].pc = "commit"
    BY <1>2 DEF Commits, Uncounted, After
  <2>2. faults' \in {faults, faults + 1}
    BY <1>2 DEF Commits
  <2>3. CASE App(w) # a
    BY <1>1, <1>2, <2>1, <2>2, <2>3, CommitMoves
  <2>4. CASE App(w) = a
    <3>1. Cardinality(RowsOf(a)') = R + 1
      BY <1>1, <1>2, <2>4, CommitMoves, CardNew
    <3>2. CASE worker'[w].pc = "count"
      <4>1. /\ w \notin Uncounted(lock, a)
            /\ After(lock, a) = Uncounted(lock, a) \cup {w}
        BY <1>2, <2>1, <2>4, <3>2, CommitMoves, CommitIsFirst
      <4>2. Cardinality(After(lock, a)) = U + 1
        BY <1>1, <4>1, CardNew
      <4> QED  BY <1>1, <2>1, <2>2, <3>1, <4>2
    <3>3. CASE worker'[w].pc # "count"
      <4>1. After(lock, a) = Uncounted(lock, a) /\ faults' = faults + 1
        BY <1>2, <2>4, <3>3, CommitMoves DEF Commits
      <4> QED  BY <1>1, <2>1, <3>1, <4>1
    <3> QED  BY <3>2, <3>3
  <2> QED  BY <2>3, <2>4
<1>3. CASE Counts(w)
  <2>1. RowsOf(a)' = RowsOf(a) /\ faults' \in {faults, faults + 1}
    BY <1>3, CountMoves DEF Counts
  <2>2. CASE /\ cnt'[a] = cnt[a]
             /\ Uncounted(lock, a)' = Uncounted(lock, a)
    BY <1>1, <2>1, <2>2
  <2>3. CASE /\ cnt'[a] = cnt[a] + 1
             /\ w \in Uncounted(lock, a)
             /\ Uncounted(lock, a)' = Uncounted(lock, a) \ {w}
    <3>1. Cardinality(Uncounted(lock, a)') = U - 1
      BY <1>1, <2>3, FS_RemoveElement
    <3> QED  BY <1>1, <2>1, <2>3, <3>1
  <2> QED  BY <1>3, <2>2, <2>3, CountMoves
<1>4. CASE Quiet(w)
  <2>1. /\ Uncounted(lock, a)' = After(lock, a) /\ cnt' = cnt
        /\ RowsOf(a)' = RowsOf(a) /\ faults' \in {faults, faults + 1}
    BY <1>4, OtherMoves DEF Quiet, Uncounted, After
  <2>2. CASE After(lock, a) = Uncounted(lock, a)
    BY <1>1, <2>1, <2>2
  <2>3. CASE /\ worker[w].pc = "count" /\ worker'[w].pc # "count"
             /\ w \in Uncounted(lock, a) /\ After(lock, a) = Uncounted(lock, a) \ {w}
    <3>1. Cardinality(After(lock, a)) = U - 1
      BY <1>1, <2>3, FS_RemoveElement
    <3>2. faults' = faults + 1
      BY <1>4, <2>3 DEF Quiet
    <3> QED  BY <1>1, <2>1, <3>1, <3>2
  <2> QED  BY <1>4, <2>2, <2>3, OtherMoves
<1> QED  BY <1>2, <1>3, <1>4

\* An expired lock takes nothing with it.
LEMMA LostExpiry ==
    ASSUME BaseInv, NEW e \in EventIds, LockExpires(e), NEW a
    PROVE  Lost(a)' = Lost(a)
<1>1. Uncounted(lock, a)' = Uncounted(lock, a)
  BY ExpiryFrees
<1> QED  BY <1>1 DEF LockExpires, dbVars, Lost, RowsOf

\* Nor does a step of nobody's.
LEMMA LostStutter ==
    ASSUME UNCHANGED vars, NEW a
    PROVE  Lost(a)' = Lost(a)
<1>1. Uncounted(lock, a)' = Uncounted(lock, a) /\ RowsOf(a)' = RowsOf(a) /\ cnt' = cnt
  BY DEF vars, redisVars, dbVars, Uncounted, Counting, RowsOf, EventId, App, Request
<1> QED  BY <1>1 DEF Lost

\* No other step loses a count, unless Redis restarts.
LEMMA LostStep ==
    ASSUME DriverCode # UniqueViolation, MaxRestarts = 0, BaseInv, [Next]_vars, NEW a \in Apps
    PROVE  Lost(a) \in Int /\ Lost(a)' \in Int /\ Lost(a)' + faults <= Lost(a) + faults'
<1>1. BaseInv'
  BY BaseStep
<1>2. Lost(a) \in Int /\ Lost(a)' \in Int
  BY <1>1, LostType, LostTypeNext
<1>3. CASE \E w \in Workers : TakeDelivery(w) \/ HandlerStep(w) \/ HandlerFault(w)
  BY <1>2, <1>3, CountKinds, LostWorker DEF BaseInv
<1>4. CASE ~\E w \in Workers : TakeDelivery(w) \/ HandlerStep(w) \/ HandlerFault(w)
  <2>0. ~RedisRestart
    BY DEF RedisRestart, BaseInv, TypeInv, BudgetTypeOK
  <2>1. RowsOf(a)' = RowsOf(a) /\ cnt' = cnt
    BY <1>4, <2>0, StillHandlers, RequestQuiet
    DEF Next, vars, redisVars, LockExpires, RedisSave
  <2>2. Uncounted(lock, a)' = Uncounted(lock, a)
    <3>1. CASE \E e \in EventIds : LockExpires(e)
      BY <3>1, ExpiryFrees
    <3>2. CASE UNCHANGED lock
      <4>1. Uncounted(lock, a)' = After(lock, a)
        BY <3>2 DEF Uncounted, After
      <4> QED  BY <1>4, <4>1, StillHandlers
    <3> QED  BY <1>4, <2>0, <3>1, <3>2, RequestQuiet DEF Next, vars, redisVars, RedisSave
  <2>3. Lost(a)' = Lost(a)
    BY <2>1, <2>2 DEF Lost
  <2>4. faults \in Nat /\ faults' \in Nat /\ faults <= faults'
    BY <1>1, FaultsGrow DEF BaseInv, TypeInv, BudgetTypeOK
  <2> QED  BY <1>2, <2>3, <2>4
<1> QED  BY <1>2, <1>3, <1>4

\* So the faults bound what an app's counter has lost.
LEMMA DriftStep ==
    ASSUME DriverCode # UniqueViolation, MaxRestarts = 0, BaseInv, DriftInv, [Next]_vars
    PROVE  DriftInv'
<1> SUFFICES ASSUME NEW a \in Apps  PROVE Lost(a)' <= faults'
  BY DEF DriftInv
<1>1. Lost(a) \in Int /\ Lost(a)' \in Int /\ Lost(a)' + faults <= Lost(a) + faults'
  BY LostStep
<1>2. faults \in Nat /\ faults' \in Nat /\ Lost(a) <= faults
  BY BaseStep DEF DriftInv, BaseInv, TypeInv, BudgetTypeOK
<1> QED  BY <1>1, <1>2

\* A handler that still has to count is between the phases.
LEMMA LostCovers ==
    ASSUME BaseInv, NEW a \in Apps
    PROVE  /\ Cardinality(RowsOf(a)) \in Nat /\ Cardinality(Counting(a)) \in Nat
           /\ cnt[a] \in Nat /\ Lost(a) \in Int
           /\ Cardinality(RowsOf(a)) <= Lost(a) + cnt[a] + Cardinality(Counting(a))
<1>1. Uncounted(lock, a) \subseteq Counting(a) /\ IsFiniteSet(Counting(a))
  BY Finite DEF Uncounted
<1>2. /\ Cardinality(Uncounted(lock, a)) <= Cardinality(Counting(a))
      /\ Cardinality(Uncounted(lock, a)) \in Nat /\ Cardinality(Counting(a)) \in Nat
  BY <1>1, CardSubset
<1>3. Cardinality(RowsOf(a)) \in Nat /\ cnt[a] \in Nat
  BY Finite, FS_CardinalityType DEF BaseInv, TypeInv, RedisTypeOK
<1> QED  BY <1>2, <1>3 DEF Lost

\* So the counter trails the table by what was lost and what is under way.
LEMMA DriftMeans ==
    ASSUME BaseInv, DriftInv
    PROVE  DriftBoundedByFaults
<1> SUFFICES ASSUME NEW a \in Apps
             PROVE  Cardinality(RowsOf(a)) <= cnt[a] + Cardinality(Counting(a)) + faults
  BY DEF DriftBoundedByFaults
<1>1. /\ Cardinality(RowsOf(a)) \in Nat /\ Cardinality(Counting(a)) \in Nat
      /\ cnt[a] \in Nat /\ Lost(a) \in Int
      /\ Cardinality(RowsOf(a)) <= Lost(a) + cnt[a] + Cardinality(Counting(a))
  BY LostCovers
<1>2. Lost(a) <= faults /\ faults \in Nat
  BY DEF DriftInv, BaseInv, TypeInv, BudgetTypeOK
<1> QED  BY <1>1, <1>2

\* Losing a count takes a fault, one for each chat: the counter trails the table by the
\* handlers between the phases and by the faults so far, as long as Redis keeps its data.
THEOREM DriftTakesFaults ==
    ASSUME DriverCode # UniqueViolation, MaxRestarts = 0
    PROVE  Spec => []DriftBoundedByFaults
<1>1. Init => BaseInv /\ DriftInv
  BY BaseInit, DriftInit
<1>2. BaseInv /\ DriftInv /\ [Next]_vars => BaseInv' /\ DriftInv'
  BY BaseStep, DriftStep
<1> QED  BY <1>1, <1>2, DriftMeans, PTL DEF Spec

-----------------------------------------------------------------------------
(***************************************************************************)
(* In company: chats and messages are two such programs with one inbox and *)
(* one space of locks (ChatSystem).  What one of them does there, and what *)
(* the other one must not have done to it.                                 *)
(***************************************************************************)
\* What the theorems say of counters and numbers, with MaxRestarts = 0.
SideInv == CoverInv /\ AheadInv /\ DriftInv /\ NumberInv

\* It holds at the start ...
LEMMA SideInit == Init => SideInv
  BY CoverInit, AheadInit, DriftInit, NumberInit DEF SideInv

\* ... and every step keeps it.
LEMMA SideStep ==
    ASSUME DriverCode # UniqueViolation, MaxRestarts = 0, BaseInv, SideInv, [Next]_vars
    PROVE  SideInv'
  BY CoverStep, AheadStep, DriftStep, NumberStep DEF SideInv, BaseInv

\* What an observer of both programs may rely on.
LEMMA SideMeans ==
    ASSUME BaseInv, SideInv
    PROVE  CountCoversAcked /\ CountNeverAhead /\ DriftBoundedByFaults /\ AcceptedNumbersUnique
  BY CoverMeans, AheadMeans, DriftMeans, NumberMeans DEF SideInv

Events == {req[row.by].eid : row \in chats}
Held == {EventId(w) : w \in {v \in Workers : worker[v].pc \in Open}}
CountedNow == {EventId(w) : w \in {v \in Workers : worker[v].pc = "count"}}

\* The other program stored events nobody holds here, and counted events nobody counts here.
Company ==
    /\ UNCHANGED <<req, gen, hash, cnt, rdb, chats, worker, copy, tries, restarts>>
    /\ inbox \subseteq inbox' /\ inbox' \subseteq EventIds /\ (inbox' \ inbox) \cap Held = {}
    /\ lock \subseteq lock' /\ lock' \subseteq inbox' /\ (lock' \ lock) \cap CountedNow = {}
    /\ rdb.lock \subseteq inbox
    /\ faults' \in faults .. MaxFaults

\* It moves neither handlers nor rows here, and leaves the locks alone that are waited for here.
LEMMA CompanyCounts ==
    ASSUME Company, NEW a
    PROVE  /\ RowsOf(a)' = RowsOf(a)
           /\ Uncounted(lock, a)' = Uncounted(lock, a)
           /\ Uncounted(rdb.lock, a)' = Uncounted(rdb.lock, a)
           /\ Uncounted({}, a)' = Uncounted({}, a)
           /\ Lost(a)' = Lost(a)
<1>1. UNCHANGED <<req, cnt, rdb, chats, worker>>
  BY DEF Company
<1>2. Counting(a)' = Counting(a) /\ RowsOf(a)' = RowsOf(a)
  BY <1>1 DEF Counting, RowsOf, App, Request
<1>3. \A w \in Counting(a) : EventId(w)' = EventId(w) /\ EventId(w) \in CountedNow
  BY <1>1 DEF Counting, CountedNow, EventId, Request
<1>4. \A w \in Counting(a) : EventId(w) \in lock' <=> EventId(w) \in lock
  BY <1>3 DEF Company
<1>5. /\ Uncounted(lock, a)' = Uncounted(lock, a)
      /\ Uncounted(rdb.lock, a)' = Uncounted(rdb.lock, a)
      /\ Uncounted({}, a)' = Uncounted({}, a)
  BY <1>1, <1>2, <1>3, <1>4 DEF Uncounted
<1> QED  BY <1>1, <1>2, <1>5 DEF Lost

\* Such company breaks nothing.
LEMMA CompanyKeeps ==
    ASSUME BaseInv, Company
    PROVE  BaseInv' /\ (SideInv => SideInv')
<1>1. UNCHANGED <<req, gen, hash, cnt, rdb, chats, worker, copy, tries, restarts>>
  BY DEF Company
<1>2. \A w \in Workers : /\ EventId(w)' = EventId(w) /\ Request(w)' = Request(w)
                         /\ App(w)' = App(w) /\ NewRow(w)' = NewRow(w)
  BY <1>1 DEF EventId, App, NewRow, Request
<1>3. TypeInv'
  <2>1. RequestInv' /\ PayloadInv'
    BY <1>1 DEF BaseInv, TypeInv, RequestInv, RequestsTypeOK, PayloadInv
  <2>2. RedisTypeOK'
    BY <1>1 DEF BaseInv, TypeInv, RedisTypeOK, Company
  <2>3. TablesTypeOK' /\ BudgetTypeOK'
    BY <1>1 DEF BaseInv, TypeInv, TablesTypeOK, BudgetTypeOK, Company
  <2>4. WorkerInv' /\ QueueInv'
    BY <1>1 DEF BaseInv, TypeInv, WorkerInv, WorkersTypeOK, QueueInv, Queue!QueueTypeOK
  <2> QED  BY <2>1, <2>2, <2>3, <2>4 DEF TypeInv
<1>4. KeepInv'
  BY <1>1, <1>2 DEF BaseInv, KeepInv, Stored
<1>5. AtomInv'
  <2>1. SentInv' /\ RowInv' /\ StoredNumbersUnique'
    BY <1>1 DEF BaseInv, AtomInv, SentInv, RowInv, StoredNumbersUnique, SameKey
  <2>2. RowsInInbox'
    BY <1>1 DEF BaseInv, AtomInv, RowsInInbox, Company
  <2>3. EventKeyInv'
    <3>1. \A w \in Workers : worker[w].pc \in Open => EventId(w) \in Held
      BY DEF Held
    <3> QED  BY <1>1, <1>2, <3>1 DEF BaseInv, AtomInv, EventKeyInv, Company
  <2>4. ChatKeyInv'
    BY <1>1, <1>2 DEF BaseInv, AtomInv, ChatKeyInv, SameKey
  <2> QED  BY <2>1, <2>2, <2>3, <2>4 DEF AtomInv
<1>6. CountKeyInv'
  BY <1>1, <1>2 DEF BaseInv, CountKeyInv, Company
<1>7. ASSUME CoverInv  PROVE CoverInv'
  <2>1. \A row : Safe(row)' => Safe(row)
    <3>1. \A w \in Workers : worker[w].pc = "count" => EventId(w) \in CountedNow
      BY DEF CountedNow
    <3> QED  BY <1>1, <1>2, <3>1 DEF Safe, Company
  <2>2. \A row : Safe(row) => Safe(row)'
    BY <1>1, <1>2 DEF Safe, Company
  <2>3. \A a \in Apps : SafeRows(a)' = SafeRows(a)
    BY <1>1, <2>1, <2>2 DEF SafeRows, RowsOf
  <2> QED  BY <1>1, <1>7, <2>3 DEF CoverInv
<1>8. \A a : /\ RowsOf(a)' = RowsOf(a)
            /\ Uncounted(lock, a)' = Uncounted(lock, a)
            /\ Uncounted(rdb.lock, a)' = Uncounted(rdb.lock, a)
            /\ Uncounted({}, a)' = Uncounted({}, a)
            /\ Lost(a)' = Lost(a)
  BY CompanyCounts
<1>9. AheadInv => AheadInv'
  BY <1>1, <1>8 DEF AheadInv
<1>10. DriftInv => DriftInv'
  <2> SUFFICES ASSUME DriftInv, NEW a \in Apps  PROVE Lost(a)' <= faults'
    BY DEF DriftInv
  <2>1. Lost(a) \in Int /\ faults \in Nat /\ faults' \in Nat /\ faults <= faults'
    BY LostType, BoundsAssumption DEF BaseInv, TypeInv, BudgetTypeOK, Company
  <2>2. Lost(a) <= faults
    BY DEF DriftInv
  <2> QED  BY <1>8, <2>1, <2>2
<1>11. NumberInv => NumberInv'
  BY <1>1 DEF NumberInv
<1> QED
  BY <1>3, <1>4, <1>5, <1>6, <1>7, <1>9, <1>10, <1>11 DEF BaseInv, SideInv

\* What a request does is its own business.
LEMMA RequestAlone ==
    ASSUME BaseInv, NEW r \in Requests, RequestStep(r)
    PROVE  UNCHANGED <<inbox, lock>> /\ Events' = Events /\ Held' = Held
<1>1. UNCHANGED <<inbox, lock, chats, worker>>
  BY RequestQuiet
<1>2. \A w \in Workers : worker[w].pc # "idle" => EventId(w)' = EventId(w)
  BY PayloadFrozen DEF BaseInv
<1>3. \A row \in chats : req'[row.by].eid = req[row.by].eid
  <2>1. \A row \in chats : row.by \in Requests /\ req[row.by].pc \in Sent
    BY DEF BaseInv, TypeInv, TablesTypeOK, Row, AtomInv, RowInv
  <2> QED  BY <2>1, SentFrozen, RequestMoves DEF BaseInv
<1> QED  BY <1>1, <1>2, <1>3 DEF Events, Held, Open

\* A handler stores an event it held and counts one it stored.
LEMMA WorkerGives ==
    ASSUME DriverCode # UniqueViolation, BaseInv, NEW w \in Workers,
           TakeDelivery(w) \/ HandlerStep(w) \/ HandlerFault(w)
    PROVE  /\ \E new \in SUBSET Held : inbox' = inbox \cup new /\ Events' = Events \cup new
           /\ lock \subseteq lock' /\ lock' \ lock \subseteq CountedNow
<1>1. OnlyWorker(w) /\ (Commits(w) \/ Counts(w) \/ Quiet(w))
  BY CountKinds DEF BaseInv
<1>2. CASE Commits(w)
  <2>1. /\ inbox' = inbox \cup {EventId(w)} /\ lock' = lock /\ EventId(w) \in Held
        /\ chats' = chats \cup {NewRow(w)} /\ NewRow(w).by = Request(w) /\ req' = req
    BY <1>1, <1>2 DEF Commits, WriteRows, Held, Open, NewRow, OnlyWorker
  <2>2. Events' = Events \cup {EventId(w)}
    BY <2>1 DEF Events, EventId
  <2> QED  BY <2>1, <2>2
<1>3. CASE Counts(w) \/ Quiet(w)
  <2>1. inbox' = inbox \cup {} /\ Events' = Events \cup {}
    BY <1>1, <1>3 DEF Counts, Quiet, OnlyWorker, Events
  <2>2. lock \subseteq lock' /\ lock' \ lock \subseteq CountedNow
    BY <1>3 DEF Counts, Quiet, LockAndIncrement, CountedNow
  <2> QED  BY <2>1, <2>2
<1> QED  BY <1>1, <1>2, <1>3

\* What is being counted is stored.
LEMMA CountedAreStored == BaseInv => CountedNow \subseteq Events
<1> SUFFICES ASSUME BaseInv, NEW w \in Workers, worker[w].pc = "count"
             PROVE  EventId(w) \in Events
  BY DEF CountedNow
<1>1. NewRow(w) \in chats /\ NewRow(w).by = Request(w)
  BY DEF BaseInv, CountKeyInv, PastPhase1, NewRow
<1>2. req[NewRow(w).by].eid \in Events
  BY <1>1 DEF Events
<1> QED  BY <1>1, <1>2 DEF EventId

\* It takes hold of an event when it inserts it into the inbox, not otherwise.
LEMMA WorkerHolds ==
    ASSUME BaseInv, NEW w \in Workers,
           TakeDelivery(w) \/ HandlerStep(w) \/ HandlerFault(w)
    PROVE  \/ Held' \subseteq Held
           \/ /\ ValidateEvent(w) /\ ~HandlerFault(w) /\ ~TakeDelivery(w)
              /\ Held' \subseteq Held \cup {EventId(w)}
<1>0. WorkersTypeOK
  BY DEF BaseInv, TypeInv, WorkerInv
<1>1. UNCHANGED req /\ \A v \in Workers : v # w => worker'[v] = worker[v]
  <2>1. CASE TakeDelivery(w)
    BY <1>0, <2>1 DEF TakeDelivery, WorkersTypeOK, handlerUnchanged
  <2>2. CASE HandlerStep(w) \/ HandlerFault(w)
    BY <2>2, HandlerMoves DEF HandlerFrame, OneHandler, BaseInv
  <2> QED  BY <2>1, <2>2
<1>2. \A v \in Workers : v # w => EventId(v)' = EventId(v)
  BY <1>1 DEF EventId, Request
<1>3. ASSUME worker'[w].pc \notin Open  PROVE Held' \subseteq Held
  BY <1>1, <1>2, <1>3 DEF Held
<1>4. ASSUME worker'[w].pc \in Open, ~TakeDelivery(w)
      PROVE  EventId(w)' = EventId(w) /\ Held' \subseteq Held \cup {EventId(w)}
  <2>1. worker'[w].copy = worker[w].copy
    BY <1>4, HandlerMoves DEF HandlerFrame, OneHandler, BaseInv, Open
  <2>2. EventId(w)' = EventId(w)
    BY <1>1, <2>1 DEF EventId, Request
  <2> QED  BY <1>1, <1>2, <2>2 DEF Held
<1>5. ASSUME worker'[w].pc \in Open, worker[w].pc \in Open, ~TakeDelivery(w)
      PROVE  Held' \subseteq Held
  BY <1>4, <1>5 DEF Held
<1>6. ASSUME worker'[w].pc \in Open, worker[w].pc \notin Open, ~TakeDelivery(w)
      PROVE  ValidateEvent(w) /\ ~HandlerFault(w)
  <2>1. \A pc : Goto(w, pc) => worker'[w].pc = pc
    BY <1>0 DEF Goto, WorkersTypeOK
  <2>2. Release(w) => worker'[w].pc = "idle"
    BY <1>0 DEF Release, WorkersTypeOK, IdleWorker
  <2>3. ChannelLost(w) => worker'[w].pc = worker[w].pc
    BY <1>0 DEF ChannelLost, WorkersTypeOK
  <2>4. ~HandlerFault(w)
    BY <1>6, <2>1, <2>2, <2>3 DEF Open, HandlerFault, HandlerError, CommitReplyLost,
       CountReplyLost, ConsumerCrash
  <2>5. HandlerStep(w) => ValidateEvent(w)
    BY <1>6, <2>1, <2>2 DEF Open, HandlerStep, CreateChat, Commit, CountChat,
       AckDelivery, NackDelivery
  <2> QED  BY <1>6, <2>4, <2>5
<1>7. TakeDelivery(w) => worker'[w].pc \notin Open
  BY <1>0 DEF TakeDelivery, WorkersTypeOK, Open
<1> QED  BY <1>3, <1>4, <1>5, <1>6, <1>7

\* A number and no hash field: how a message gets its number.
NumberOnly(r) ==
    LET a == req[r].app IN
    /\ req[r].pc = "number"
    /\ gen' = [gen EXCEPT ![a] = @ + 1]
    /\ req' = [req EXCEPT ![r].pc = "publish", ![r].num = gen[a] + 1]
    /\ UNCHANGED <<hash, cnt, lock, rdb, inbox, chats, worker, copy, tries, faults, restarts>>

\* It is as harmless as the two steps a chat takes: nothing of r was published yet.
LEMMA NumberOnlyKeeps ==
    ASSUME BaseInv, NEW r \in Requests, NumberOnly(r)
    PROVE  /\ BaseInv' /\ (SideInv => SideInv')
           /\ Events' = Events /\ Held' = Held
           /\ \A a \in Apps : Lost(a)' = Lost(a)
<1>1. UNCHANGED <<hash, cnt, lock, rdb, inbox, chats, worker, copy, tries, faults, restarts>>
  BY DEF NumberOnly
<1>2. req[r].app \in Apps /\ gen \in [Apps -> Nat] /\ req[r].pc = "number" /\ RequestsTypeOK
  BY DEF NumberOnly, BaseInv, TypeInv, RequestInv, RedisTypeOK, Serving
<1>3. /\ gen' \in [Apps -> Nat]
      /\ req' = [req EXCEPT ![r].pc = "publish", ![r].num = gen[req[r].app] + 1]
      /\ gen[req[r].app] + 1 \in Nat
  BY <1>2 DEF NumberOnly
<1>4. /\ RequestsTypeOK' /\ req'[r].pc = "publish" /\ req'[r].app = req[r].app
      /\ req'[r].eid = req[r].eid
      /\ \A q \in Requests : q # r => req'[q] = req[q]
  BY <1>2, <1>3 DEF RequestsTypeOK, RequestPc
<1>5. \A c \in Copies : copy[c] # "absent" => c[1] \in Requests /\ c[1] # r
  BY <1>2, CopyParts DEF BaseInv, AtomInv, SentInv, Sent
<1>6. \A row \in chats : row.by \in Requests /\ row.by # r
  BY <1>2 DEF BaseInv, TypeInv, TablesTypeOK, Row, AtomInv, RowInv, Sent
<1>7. \A w \in Workers : worker[w].pc # "idle" =>
        /\ Request(w) \in Requests /\ Request(w) # r
        /\ Request(w)' = Request(w) /\ EventId(w)' = EventId(w)
        /\ App(w)' = App(w) /\ NewRow(w)' = NewRow(w)
  <2> SUFFICES ASSUME NEW w \in Workers, worker[w].pc # "idle"
               PROVE  /\ Request(w) \in Requests /\ Request(w) # r
                      /\ Request(w)' = Request(w) /\ EventId(w)' = EventId(w)
                      /\ App(w)' = App(w) /\ NewRow(w)' = NewRow(w)
    OBVIOUS
  <2>1. Request(w) \in Requests /\ Request(w) # r
    BY <1>5, PayloadTypes DEF BaseInv, TypeInv, WorkerInv, Request
  <2> QED  BY <1>1, <1>4, <2>1 DEF Request, EventId, App, NewRow
<1>8. TypeInv'
  <2>1. RequestInv'
    BY <1>2, <1>4 DEF RequestInv, BaseInv, TypeInv
  <2>2. PayloadInv'
    BY <1>1, <1>4, <1>5 DEF BaseInv, TypeInv, PayloadInv
  <2>3. RedisTypeOK' /\ TablesTypeOK' /\ BudgetTypeOK'
    BY <1>1, <1>3 DEF BaseInv, TypeInv, RedisTypeOK, TablesTypeOK, BudgetTypeOK
  <2>4. WorkerInv' /\ QueueInv'
    BY <1>1 DEF BaseInv, TypeInv, WorkerInv, WorkersTypeOK, QueueInv, Queue!QueueTypeOK
  <2> QED  BY <2>1, <2>2, <2>3, <2>4 DEF TypeInv
<1>9. KeepInv'
  <2>1. \A q \in Requests : req'[q].pc \in {"confirm", "accepted"} => q # r
    BY <1>4
  <2>2. \A w \in Workers : worker[w].pc \in PastPhase1 => Stored(Request(w))'
    BY <1>1, <1>7 DEF BaseInv, KeepInv, Stored, PastPhase1
  <2> QED  BY <1>1, <1>4, <2>1, <2>2 DEF BaseInv, KeepInv, Stored
<1>10. AtomInv'
  <2>1. SentInv'
    BY <1>1, <1>4, <1>5 DEF BaseInv, AtomInv, SentInv
  <2>2. RowInv' /\ RowsInInbox' /\ StoredNumbersUnique'
    BY <1>1, <1>4, <1>6 DEF BaseInv, AtomInv, RowInv, RowsInInbox, StoredNumbersUnique, SameKey
  <2>3. EventKeyInv' /\ ChatKeyInv'
    BY <1>1, <1>7 DEF BaseInv, AtomInv, EventKeyInv, ChatKeyInv, Open, SameKey
  <2> QED  BY <2>1, <2>2, <2>3 DEF AtomInv
<1>11. CountKeyInv'
  BY <1>1, <1>7 DEF BaseInv, CountKeyInv, PastPhase1
<1>12. CoverInv => CoverInv'
  <2>1. \A a \in Apps : SafeRows(a)' = SafeRows(a)
    <3>1. \A row : Safe(row)' <=> Safe(row)
      BY <1>1, <1>7 DEF Safe
    <3> QED  BY <1>1, <3>1 DEF SafeRows, RowsOf
  <2> QED  BY <1>1, <2>1 DEF CoverInv
<1>13. Events' = Events /\ Held' = Held
  BY <1>1, <1>4, <1>6, <1>7 DEF Events, Held, Open
<1>14. \A a \in Apps : /\ RowsOf(a)' = RowsOf(a)
                      /\ Uncounted(lock, a)' = Uncounted(lock, a)
                      /\ Uncounted(rdb.lock, a)' = Uncounted(rdb.lock, a)
                      /\ Uncounted({}, a)' = Uncounted({}, a)
  BY <1>1, <1>7 DEF RowsOf, Uncounted, Counting
<1>15. \A a \in Apps : Lost(a)' = Lost(a)
  BY <1>1, <1>14 DEF Lost
<1>16. (AheadInv => AheadInv') /\ (DriftInv => DriftInv')
  BY <1>1, <1>14, <1>15 DEF AheadInv, DriftInv
<1>17. NumberInv => NumberInv'
  <2>1. gen' = [gen EXCEPT ![req[r].app] = @ + 1]
    BY DEF NumberOnly
  <2>2. req'[r].num = gen[req[r].app] + 1
    BY <1>2, <1>3 DEF RequestsTypeOK
  <2>3. TypeInv
    BY DEF BaseInv
  <2> QED  BY <1>2, <1>4, <2>1, <2>2, <2>3, NumberDrawn
<1> QED
  BY <1>8, <1>9, <1>10, <1>11, <1>12, <1>13, <1>15, <1>16, <1>17 DEF BaseInv, SideInv

\* Nor does a client see it: nothing is published, stored or answered.
LEMMA NumberOnlyRefines ==
    ASSUME BaseInv, NEW r \in Requests, NumberOnly(r)
    PROVE  StoreStep
<1>1. UNCHANGED <<chats, copy>>
  BY DEF NumberOnly
<1>2. \A q \in Requests : PlaceOf(q)' = PlaceOf(q)
  BY <1>1, Elsewhere DEF Stored
<1>3. \A q \in Requests : Accepted(q)' <=> Accepted(q)
  <2>1. RequestsTypeOK
    BY DEF BaseInv, TypeInv, RequestInv
  <2> QED  BY <2>1 DEF NumberOnly, RequestsTypeOK, Accepted
<1> QED  BY <1>2, <1>3, PlacesStand DEF StoreStep

\* What an observer of both programs may rely on: types, promises, and as many
\* events in the inbox as rows.
LEMMA BaseMeans ==
    ASSUME BaseInv
    PROVE  /\ TypeOK /\ NoSilentLoss
           /\ Events \subseteq inbox
           /\ IsFiniteSet(Events) /\ Cardinality(Events) = Cardinality(chats)
<1>1. TypeOK
  BY DEF BaseInv, TypeInv, TypeOK, RequestInv, WorkerInv, QueueInv
<1>2. NoSilentLoss
  BY KeepMeans DEF BaseInv
<1>3. Events \subseteq inbox
  BY DEF BaseInv, AtomInv, RowsInInbox, Events
<1>4. IsFiniteSet(Events) /\ Cardinality(Events) = Cardinality(chats)
  <2> DEFINE f == [row \in chats |-> req[row.by].eid]
  <2>1. IsFiniteSet(chats)
    BY DEF BaseInv, CountKeyInv
  <2>2. f \in Bijection(chats, Events)
    <3>1. f \in Surjection(chats, Events)
      BY DEF Surjection, Events
    <3>2. f \in Injection(chats, Events)
      BY DEF Injection, Events, BaseInv, AtomInv, RowsInInbox, IsInjective
    <3> QED  BY <3>1, <3>2 DEF Bijection
  <2>3. ExistsBijection(chats, Events)
    BY <2>2 DEF ExistsBijection
  <2> QED  BY <2>1, <2>3, FS_Bijection, FS_CardinalityType
<1> QED  BY <1>1, <1>2, <1>3, <1>4
==============================================================================
