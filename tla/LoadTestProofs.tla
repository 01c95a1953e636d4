--------------------------- MODULE LoadTestProofs ---------------------------
(***************************************************************************)
(* Theorems about LoadTest: what a user finds it finds again, and the      *)
(* report adds up, for any number of users, operations, messages and       *)
(* polls, whatever the server does within EventStore.                      *)
(***************************************************************************)
EXTENDS LoadTest, FiniteSetTheorems, SequenceTheorems, TLAPS

\* The calls before the first message is posted.
Before == IF createOnly THEN 2 ELSE 5

\* The call at each place of the workflow.
CallAt(i) ==
    IF i = 1 THEN "createApp"
    ELSE IF createOnly
    THEN IF i = 2 THEN "createChat" ELSE "createMessage"
    ELSE IF i = 2 THEN "findApp"
    ELSE IF i = 3 THEN "createChat"
    ELSE IF i = 4 THEN "findChat"
    ELSE IF i = 5 THEN "findAllChats"
    ELSE IF i <= 5 + MessagesPerChat THEN "createMessage"
    ELSE IF i <= 5 + MessagesPerChat + MessagesPerChat THEN "findMessage"
    ELSE "findAllMessages"

CallNames == {"createApp", "findApp", "createChat", "findChat", "findAllChats",
              "createMessage", "findMessage", "findAllMessages"}

\* Two lists of calls, one after the other.
LEMMA Concat ==
    \A s, t \in Seq(CallNames) :
        /\ s \o t \in Seq(CallNames) /\ Len(s \o t) = Len(s) + Len(t)
        /\ \A i \in 1 .. Len(s) + Len(t) :
            (s \o t)[i] = IF i <= Len(s) THEN s[i] ELSE t[i - Len(s)]
  BY ConcatProperties

\* The workflow, place by place.
LEMMA WorkflowIs ==
    /\ Len(Workflow) = IF createOnly THEN 2 + MessagesPerChat
                       ELSE 6 + MessagesPerChat + MessagesPerChat
    /\ \A i \in 1 .. Len(Workflow) : Workflow[i] = CallAt(i)
<1>0. MessagesPerChat \in Nat \ {0}
  BY ConfigAssumption
<1>1. ASSUME NEW call \in CallNames
      PROVE  /\ Times(call) \in Seq(CallNames) /\ Len(Times(call)) = MessagesPerChat
             /\ \A j \in 1 .. MessagesPerChat : Times(call)[j] = call
  BY <1>0 DEF Times, CallNames
<1>2. CASE createOnly
  <2> DEFINE s == <<"createApp", "createChat">>
             t == Times("createMessage")
  <2>1. s \in Seq(CallNames) /\ Len(s) = 2 /\ s[1] = "createApp" /\ s[2] = "createChat"
    BY DEF CallNames
  <2>2. /\ t \in Seq(CallNames) /\ Len(t) = MessagesPerChat
        /\ \A j \in 1 .. MessagesPerChat : t[j] = "createMessage"
    BY <1>1 DEF CallNames
  <2> HIDE DEF s, t
  <2>3. /\ Len(s \o t) = 2 + MessagesPerChat
        /\ \A i \in 1 .. 2 + MessagesPerChat :
            (s \o t)[i] = IF i <= 2 THEN s[i] ELSE t[i - 2]
    <3>0. s \in Seq(CallNames) /\ t \in Seq(CallNames)
      BY <2>1, <2>2
    <3>1. /\ Len(s \o t) = Len(s) + Len(t)
          /\ \A i \in 1 .. Len(s) + Len(t) :
                (s \o t)[i] = IF i <= Len(s) THEN s[i] ELSE t[i - Len(s)]
      BY <3>0, Concat
    <3> QED  BY <1>0, <2>1, <2>2, <3>1
  <2>4. Workflow = s \o t
    BY <1>2 DEF Workflow, s, t
  <2> QED  BY <1>0, <1>2, <2>1, <2>2, <2>3, <2>4 DEF CallAt
<1>3. CASE ~createOnly
  <2> DEFINE s == <<"createApp", "findApp", "createChat", "findChat", "findAllChats">>
             t == Times("createMessage")
             v == Times("findMessage")
             z == <<"findAllMessages">>
  <2>1. /\ s \in Seq(CallNames) /\ Len(s) = 5 /\ z \in Seq(CallNames) /\ Len(z) = 1
        /\ s[1] = "createApp" /\ s[2] = "findApp" /\ s[3] = "createChat"
        /\ s[4] = "findChat" /\ s[5] = "findAllChats" /\ z[1] = "findAllMessages"
    BY DEF CallNames
  <2>2. /\ t \in Seq(CallNames) /\ Len(t) = MessagesPerChat
        /\ v \in Seq(CallNames) /\ Len(v) = MessagesPerChat
        /\ \A j \in 1 .. MessagesPerChat : t[j] = "createMessage" /\ v[j] = "findMessage"
    BY <1>1 DEF CallNames
  <2> HIDE DEF s, t, v, z
  <2> DEFINE M == MessagesPerChat
             st == s \o t
             stv == st \o v
             stvz == stv \o z
  <2>3. /\ st \in Seq(CallNames) /\ Len(st) = 5 + M
        /\ \A i \in 1 .. 5 + M : st[i] = IF i <= 5 THEN s[i] ELSE t[i - 5]
    <3>0. s \in Seq(CallNames) /\ t \in Seq(CallNames)
      BY <2>1, <2>2
    <3>1. /\ s \o t \in Seq(CallNames) /\ Len(s \o t) = Len(s) + Len(t)
          /\ \A i \in 1 .. Len(s) + Len(t) :
                (s \o t)[i] = IF i <= Len(s) THEN s[i] ELSE t[i - Len(s)]
      BY <3>0, Concat
    <3> QED  BY <1>0, <2>1, <2>2, <3>1
  <2> HIDE DEF st
  <2>4. /\ stv \in Seq(CallNames) /\ Len(stv) = 5 + M + M
        /\ \A i \in 1 .. 5 + M + M : stv[i] = IF i <= 5 + M THEN st[i] ELSE v[i - (5 + M)]
    <3>0. st \in Seq(CallNames) /\ v \in Seq(CallNames)
      BY <2>2, <2>3
    <3>1. /\ st \o v \in Seq(CallNames) /\ Len(st \o v) = Len(st) + Len(v)
          /\ \A i \in 1 .. Len(st) + Len(v) :
                (st \o v)[i] = IF i <= Len(st) THEN st[i] ELSE v[i - Len(st)]
      BY <3>0, Concat
    <3> QED  BY <1>0, <2>2, <2>3, <3>1
  <2> HIDE DEF stv
  <2>5. /\ Len(stvz) = 6 + M + M
        /\ \A i \in 1 .. 6 + M + M :
            stvz[i] = IF i <= 5 + M + M THEN stv[i] ELSE z[i - (5 + M + M)]
    <3>0. stv \in Seq(CallNames) /\ z \in Seq(CallNames)
      BY <2>1, <2>4
    <3>1. /\ Len(stv \o z) = Len(stv) + Len(z)
          /\ \A i \in 1 .. Len(stv) + Len(z) :
                (stv \o z)[i] = IF i <= Len(stv) THEN stv[i] ELSE z[i - Len(stv)]
      BY <3>0, Concat
    <3> QED  BY <1>0, <2>1, <2>4, <3>1
  <2>6. Workflow = stvz
    <3>1. Workflow = s \o t \o v \o z
      BY <1>3 DEF Workflow, s, t, v, z
    <3> QED  BY <3>1 DEF st, stv
  <2> HIDE DEF stvz
  <2>7. ASSUME NEW i \in 1 .. 6 + M + M  PROVE Workflow[i] = CallAt(i)
    <3>1. CASE i <= 5
      BY <1>0, <1>3, <2>1, <2>3, <2>4, <2>5, <2>6, <3>1 DEF CallAt
    <3>2. CASE i > 5 /\ i <= 5 + M
      <4>1. stvz[i] = t[i - 5] /\ i - 5 \in 1 .. M
        BY <1>0, <2>3, <2>4, <2>5, <3>2
      <4> QED  BY <1>0, <1>3, <2>2, <2>6, <3>2, <4>1 DEF CallAt
    <3>3. CASE i > 5 + M /\ i <= 5 + M + M
      <4>1. stvz[i] = v[i - (5 + M)] /\ i - (5 + M) \in 1 .. M
        BY <1>0, <2>4, <2>5, <3>3
      <4> QED  BY <1>0, <1>3, <2>2, <2>6, <3>3, <4>1 DEF CallAt
    <3>4. CASE i > 5 + M + M
      <4>1. stvz[i] = z[1]
        BY <1>0, <2>5, <3>4
      <4> QED  BY <1>0, <1>3, <2>1, <2>6, <3>4, <4>1 DEF CallAt
    <3> QED  BY <1>0, <3>1, <3>2, <3>3, <3>4
  <2> QED  BY <1>0, <1>3, <2>5, <2>6, <2>7
<1> QED  BY <1>2, <1>3

\* Where the messages are in the workflow, and which of them a post is about.
LEMMA MessageNumber ==
    ASSUME NEW step \in 1 .. Len(Workflow), Workflow[step] = "createMessage"
    PROVE  /\ step - Before \in 1 .. MessagesPerChat
           /\ Cardinality({i \in 1 .. step : Workflow[i] = Workflow[step]}) = step - Before
<1>0. MessagesPerChat \in Nat \ {0} /\ Before \in Nat
  BY ConfigAssumption DEF Before
<1>1. step \in Nat /\ step - Before \in 1 .. MessagesPerChat
  BY <1>0, WorkflowIs DEF CallAt, Before
<1>2. {i \in 1 .. step : Workflow[i] = Workflow[step]} = (Before + 1) .. step
  <2>1. ASSUME NEW i \in 1 .. step
        PROVE  Workflow[i] = Workflow[step] <=> i \in (Before + 1) .. step
    <3>1. i \in 1 .. Len(Workflow) /\ Workflow[i] = CallAt(i)
      BY <1>0, WorkflowIs
    <3> QED  BY <1>0, <1>1, <3>1 DEF CallAt, Before
  <2> QED  BY <1>0, <1>1, <2>1
<1>3. Cardinality((Before + 1) .. step) = step - Before
  <2>1. Before + 1 \in Int /\ step \in Int /\ ~(Before + 1 > step)
    BY <1>0, <1>1
  <2>2. Cardinality((Before + 1) .. step) = step - (Before + 1) + 1
    BY <2>1, FS_Interval
  <2> QED  BY <1>0, <1>1, <2>2
<1> QED  BY <1>1, <1>2, <1>3

-----------------------------------------------------------------------------
(***************************************************************************)
(* The invariant.                                                          *)
(***************************************************************************)
\* A user that is past its first look at a chat has found it.
Looked(u) ==
    IF createOnly THEN user[u].step > 3 \/ (user[u].step = 3 /\ user[u].posted)
    ELSE user[u].step > 4

FoundInv == \A u \in Users : Looked(u) => ChatStored(u)

\* A user ends at the end of its work, or with an error.
EndInv ==
    /\ \A u \in Users : user[u].error # "none" <=> user[u].state = "stopped"
    /\ \A u \in Users : user[u].state = "completed" => LastCall(u)
    /\ main = "report" => \A u \in Users : user[u].state # "working"

Ended == {u \in Users : user[u].state # "working"}

\* The counters are those of the calls and users that are over.
CountInv ==
    /\ stats.completedUsers = Cardinality(Ended)
    /\ stats.total = Cardinality(CallsOver) + 2 * malformed
    /\ stats.failed = 0 => malformed = 0 /\ \A u \in Users : user[u].state # "stopped"

IInv ==
    /\ TypeOK /\ FoundInv /\ EndInv /\ CountInv
    /\ RetriedBeforeGivingUp /\ FoundStaysFound

-----------------------------------------------------------------------------
\* The sets that are counted are finite.
LEMMA FiniteSets ==
    /\ IsFiniteSet(ChatKeys \X (1 .. Len(Workflow)))
    /\ Cardinality(ChatKeys \X (1 .. Len(Workflow)))
            = Cardinality(Users) * OperationsPerUser * Len(Workflow)
    /\ IsFiniteSet(CallsOver) /\ Cardinality(CallsOver) \in Nat
    /\ IsFiniteSet(Ended) /\ Cardinality(Ended) \in 0 .. Cardinality(Users)
    /\ Len(Workflow) \in Nat \ {0}
<1>0. /\ IsFiniteSet(Users) /\ OperationsPerUser \in Nat \ {0}
      /\ MessagesPerChat \in Nat \ {0}
  BY ConfigAssumption
<1>1. Len(Workflow) \in Nat \ {0}
  BY <1>0, WorkflowIs
<1>2. /\ IsFiniteSet(1 .. OperationsPerUser)
      /\ Cardinality(1 .. OperationsPerUser) = OperationsPerUser
  BY <1>0, FS_Interval
<1>3. /\ IsFiniteSet(1 .. Len(Workflow))
      /\ Cardinality(1 .. Len(Workflow)) = Len(Workflow)
  BY <1>1, FS_Interval
<1>4. /\ IsFiniteSet(ChatKeys)
      /\ Cardinality(ChatKeys) = Cardinality(Users) * OperationsPerUser
  BY <1>0, <1>2, FS_Product DEF ChatKeys
<1>5. /\ IsFiniteSet(ChatKeys \X (1 .. Len(Workflow)))
      /\ Cardinality(ChatKeys \X (1 .. Len(Workflow)))
            = Cardinality(ChatKeys) * Cardinality(1 .. Len(Workflow))
  BY <1>3, <1>4, FS_Product
<1>6. IsFiniteSet(CallsOver) /\ Cardinality(CallsOver) \in Nat
  <2>1. CallsOver \in SUBSET (ChatKeys \X (1 .. Len(Workflow)))
    BY DEF CallsOver
  <2> QED  BY <1>5, <2>1, FS_Subset, FS_CardinalityType
<1>7. IsFiniteSet(Ended) /\ Cardinality(Ended) \in 0 .. Cardinality(Users)
  <2>1. Ended \in SUBSET Users
    BY DEF Ended
  <2>2. IsFiniteSet(Ended) /\ Cardinality(Ended) <= Cardinality(Users)
    BY <1>0, <2>1, FS_Subset
  <2>3. Cardinality(Ended) \in Nat /\ Cardinality(Users) \in Nat
    BY <1>0, <2>2, FS_CardinalityType
  <2> QED  BY <2>2, <2>3
<1> QED  BY <1>1, <1>3, <1>4, <1>5, <1>6, <1>7

\* Nothing is over at the start.
LEMMA InvInit == Init => IInv
<1> SUFFICES ASSUME Init  PROVE IInv
  OBVIOUS
<1>0. /\ OperationsPerUser \in Nat \ {0} /\ ConsistencyRetries \in Nat \ {0}
      /\ MaxFaults \in Nat /\ MaxMalformed \in Nat /\ IsFiniteSet(Users)
  BY ConfigAssumption
<1>1. \A u \in Users : user[u] = [op |-> 1, step |-> 1, attempt |-> 1, posted |-> FALSE,
                                  state |-> "working", error |-> "none"]
  BY DEF Init
<1>2. TypeOK
  <2>1. user \in [Users -> User]
    BY <1>0, <1>1, FiniteSets DEF Init, User
  <2>2. Chats!TypeOK /\ Messages!TypeOK
    BY DEF Init, Chats!Init, Messages!Init, Chats!TypeOK, Messages!TypeOK, Chats!Places,
       Messages!Places
  <2>3. 0 \in 0 .. Cardinality(Users)
    BY <1>0, FS_CardinalityType
  <2> QED  BY <1>0, <2>1, <2>2, <2>3 DEF Init, TypeOK, Main, HealthRetries
<1>3. FoundInv
  BY <1>1 DEF FoundInv, Looked
<1>4. EndInv
  BY <1>1 DEF EndInv, Init
<1>5. CountInv
  <2>1. Ended = {}
    BY <1>1 DEF Ended
  <2>2. CallsOver = {}
    BY <1>0, <1>1 DEF CallsOver, ChatKeys, Over
  <2> QED  BY <1>1, <2>1, <2>2, FS_EmptySet DEF CountInv, Init
<1>6. RetriedBeforeGivingUp /\ FoundStaysFound
  BY <1>1 DEF RetriedBeforeGivingUp, FoundStaysFound
<1> QED  BY <1>2, <1>3, <1>4, <1>5, <1>6 DEF IInv

-----------------------------------------------------------------------------
(***************************************************************************)
(* What a call does to its user and to the counters.                       *)
(***************************************************************************)
Working(u) == main = "running" /\ user[u].state = "working"

OneUser(u) == user' \in [Users -> User] /\ \A v \in Users : v # u => user'[v] = user[v]

\* The user goes to its next call, to its next operation, or is done.
Advances(u) ==
    /\ OneUser(u)
    /\ user'[u].error = "none" /\ ~user'[u].posted
    /\ \/ /\ user[u].step < Len(Workflow) /\ user'[u].step = user[u].step + 1
          /\ user'[u].op = user[u].op /\ user'[u].state = "working"
       \/ /\ user[u].step = Len(Workflow) /\ user'[u].step = 1
          /\ user'[u].op = user[u].op + 1 /\ user'[u].state = "working"
       \/ /\ LastCall(u) /\ user'[u].step = user[u].step
          /\ user'[u].op = user[u].op /\ user'[u].state = "completed"

\* The user's error is the end of its work.
Stops(u, error) ==
    /\ OneUser(u)
    /\ user'[u] = [user[u] EXCEPT !.state = "stopped", !.error = error]

\* The call is not over: it was posted, or is tried again.
Waits(u) ==
    /\ OneUser(u)
    /\ user'[u].op = user[u].op /\ user'[u].step = user[u].step
    /\ user'[u].state = user[u].state /\ user'[u].error = user[u].error

\* A call that succeeds is recorded once, and the user's end with it.
LEMMA SucceedMoves ==
    ASSUME IInv, NEW u \in Users, Working(u), Succeed(u)
    PROVE  /\ Advances(u) /\ UNCHANGED <<createOnly, main, probe>>
           /\ Record(1, 0, IF user'[u].state = "working" THEN 0 ELSE 1)
<1>0. /\ OperationsPerUser \in Nat \ {0} /\ ConsistencyRetries \in Nat \ {0}
      /\ Len(Workflow) \in Nat \ {0}
  BY ConfigAssumption, FiniteSets
<1>1. user \in [Users -> User] /\ user[u] \in User
  BY DEF IInv, TypeOK
<1>2. user[u].error = "none" /\ user[u].state = "working"
  BY DEF IInv, EndInv, Working
<1>3. user' = [user EXCEPT ![u] = Advanced(u)] /\ UNCHANGED <<createOnly, main, probe>>
  BY DEF Succeed
<1>4. user'[u] = Advanced(u) /\ \A v \in Users : v # u => user'[v] = user[v]
  BY <1>1, <1>3
<1> DEFINE r == [user[u] EXCEPT !.attempt = 1, !.posted = FALSE]
<1>r. /\ r \in User /\ ~r.posted /\ r.op = user[u].op /\ r.step = user[u].step
      /\ r.error = "none" /\ r.state = "working"
  <2>1. [user[u] EXCEPT !.attempt = 1] \in User
    BY <1>0, <1>1 DEF User
  <2> QED  BY <1>0, <1>1, <1>2, <2>1 DEF User
<1>a. Advanced(u) = IF user[u].step < Len(Workflow) THEN [r EXCEPT !.step = @ + 1]
                    ELSE IF user[u].op < OperationsPerUser THEN [r EXCEPT !.step = 1, !.op = @ + 1]
                    ELSE [r EXCEPT !.state = "completed"]
  BY DEF Advanced
<1> HIDE DEF r
<1>5. CASE user[u].step < Len(Workflow)
  <2>1. Advanced(u) = [r EXCEPT !.step = @ + 1]
    BY <1>a, <1>5
  <2>2. Advanced(u) \in User
    BY <1>0, <1>1, <1>r, <1>5, <2>1 DEF User
  <2>3. user' \in [Users -> User]
    BY <1>1, <1>3, <2>2
  <2>4. /\ user'[u].error = "none" /\ ~user'[u].posted /\ user'[u].step = user[u].step + 1
        /\ user'[u].op = user[u].op /\ user'[u].state = "working"
    BY <1>r, <1>4, <2>1 DEF User
  <2>5. ~LastCall(u)
    BY <1>1, <1>5 DEF LastCall, User
  <2>6. Record(1, 0, IF user'[u].state = "working" THEN 0 ELSE 1)
    BY <2>4, <2>5 DEF Succeed
  <2> QED  BY <1>3, <1>4, <1>5, <2>3, <2>4, <2>6 DEF Advances, OneUser
<1>6. CASE user[u].step = Len(Workflow) /\ user[u].op < OperationsPerUser
  <2>1. Advanced(u) = [r EXCEPT !.step = 1, !.op = @ + 1]
    BY <1>a, <1>0, <1>1, <1>6 DEF User
  <2>2. Advanced(u) \in User
    <3>1. [r EXCEPT !.step = 1] \in User
      BY <1>0, <1>r DEF User
    <3>2. r.op + 1 \in 1 .. OperationsPerUser
      BY <1>0, <1>1, <1>r, <1>6 DEF User
    <3> QED  BY <1>r, <2>1, <3>1, <3>2 DEF User
  <2>3. user' \in [Users -> User]
    BY <1>1, <1>3, <2>2
  <2>4. /\ user'[u].error = "none" /\ ~user'[u].posted /\ user'[u].step = 1
        /\ user'[u].op = user[u].op + 1 /\ user'[u].state = "working"
    BY <1>r, <1>4, <2>1 DEF User
  <2>5. ~LastCall(u)
    BY <1>1, <1>6 DEF LastCall, User
  <2>6. Record(1, 0, IF user'[u].state = "working" THEN 0 ELSE 1)
    BY <2>4, <2>5 DEF Succeed
  <2> QED  BY <1>3, <1>4, <1>6, <2>3, <2>4, <2>6 DEF Advances, OneUser
<1>7. CASE LastCall(u)
  <2>1. Advanced(u) = [r EXCEPT !.state = "completed"]
    BY <1>a, <1>0, <1>1, <1>7 DEF LastCall, User
  <2>2. Advanced(u) \in User
    BY <1>0, <1>1, <1>r, <2>1 DEF User
  <2>3. user' \in [Users -> User]
    BY <1>1, <1>3, <2>2
  <2>4. /\ user'[u].error = "none" /\ ~user'[u].posted /\ user'[u].step = user[u].step
        /\ user'[u].op = user[u].op /\ user'[u].state = "completed"
    BY <1>r, <1>4, <2>1 DEF User
  <2>5. Record(1, 0, IF user'[u].state = "working" THEN 0 ELSE 1)
    BY <1>7, <2>4 DEF Succeed
  <2> QED  BY <1>3, <1>4, <1>7, <2>3, <2>4, <2>5 DEF Advances, OneUser
<1> QED  BY <1>0, <1>1, <1>5, <1>6, <1>7 DEF LastCall, User

Errors == {"notFound", "failed", "malformed"}

\* An error is recorded, with the user's end.
LEMMA ThrowMoves ==
    ASSUME IInv, NEW u \in Users, NEW error \in Errors,
           NEW s \in Nat, NEW f \in Nat, Throw(u, error, s, f)
    PROVE  Stops(u, error) /\ UNCHANGED <<createOnly, main, probe>> /\ Record(s, f, 1)
<1>1. user \in [Users -> User] /\ user[u] \in User
  BY DEF IInv, TypeOK
<1>2. user' = [user EXCEPT ![u] = [user[u] EXCEPT !.state = "stopped", !.error = error]]
  BY <1>1 DEF Throw, User
<1>3. [user[u] EXCEPT !.state = "stopped", !.error = error] \in User
  BY <1>1 DEF User, Errors
<1> QED  BY <1>1, <1>2, <1>3 DEF Stops, OneUser, Throw

\* A poll that found nothing is tried again, or was the last one.
LEMMA NotFoundMoves ==
    ASSUME IInv, NEW u \in Users, NotFound(u)
    PROVE  /\ UNCHANGED <<createOnly, main, probe>>
           /\ \/ Waits(u) /\ user'[u].posted = user[u].posted /\ UNCHANGED stats
              \/ /\ user[u].attempt = ConsistencyRetries
                 /\ Stops(u, "notFound") /\ Record(0, 1, 1)
<1>1. user \in [Users -> User] /\ user[u] \in User /\ ConsistencyRetries \in Nat \ {0}
  BY ConfigAssumption DEF IInv, TypeOK
<1>2. CASE user[u].attempt < ConsistencyRetries
  <2>1. user' = [user EXCEPT ![u] = [user[u] EXCEPT !.attempt = @ + 1]]
    BY <1>1, <1>2 DEF NotFound, User
  <2>2. [user[u] EXCEPT !.attempt = @ + 1] \in User
    BY <1>1, <1>2 DEF User
  <2> QED  BY <1>1, <1>2, <2>1, <2>2 DEF NotFound, Waits, OneUser, User
<1>3. CASE ~(user[u].attempt < ConsistencyRetries)
  <2>1. user[u].attempt = ConsistencyRetries
    BY <1>1, <1>3 DEF User
  <2> QED  BY <1>3, <2>1, ThrowMoves DEF NotFound, Errors
<1> QED  BY <1>2, <1>3

\* The server has done its part of a post.
LEMMA PostedMoves ==
    ASSUME IInv, NEW u \in Users, Posted(u)
    PROVE  Waits(u) /\ UNCHANGED <<createOnly, main, probe, stats>>
<1>1. user \in [Users -> User] /\ user[u] \in User
  BY DEF IInv, TypeOK
<1>2. user' = [user EXCEPT ![u] = [user[u] EXCEPT !.posted = TRUE]]
  BY <1>1 DEF Posted, User
<1>3. [user[u] EXCEPT !.posted = TRUE] \in User
  BY <1>1 DEF User
<1> QED  BY <1>1, <1>2, <1>3 DEF Posted, Waits, OneUser, User

-----------------------------------------------------------------------------
(***************************************************************************)
(* What is counted.                                                        *)
(***************************************************************************)
\* The call a user's step ends was not over before, and is the only one that now is.
LEMMA OneMoreCall ==
    ASSUME IInv, NEW u \in Users, Working(u), createOnly' = createOnly,
           Advances(u) \/ \E error \in Errors : Stops(u, error)
    PROVE  Cardinality(CallsOver') = Cardinality(CallsOver) + 1
<1> DEFINE call == <<<<u, user[u].op>>, user[u].step>>
<1>0. OperationsPerUser \in Nat \ {0} /\ Len(Workflow) \in Nat \ {0}
  BY ConfigAssumption, FiniteSets
<1>1. /\ user \in [Users -> User] /\ user[u] \in User /\ user[u].state = "working"
      /\ Workflow' = Workflow
  BY DEF IInv, TypeOK, Working, Workflow
<1>2. /\ \A v \in Users : v # u => user'[v] = user[v]
      /\ \/ /\ user[u].step < Len(Workflow) /\ user'[u].step = user[u].step + 1
            /\ user'[u].op = user[u].op /\ user'[u].state = "working"
         \/ /\ user[u].step = Len(Workflow) /\ user'[u].step = 1
            /\ user'[u].op = user[u].op + 1 /\ user'[u].state = "working"
         \/ /\ user'[u].step = user[u].step /\ user'[u].op = user[u].op
            /\ user'[u].state # "working"
  <2>1. CASE Advances(u)
    BY <2>1 DEF Advances, OneUser
  <2>2. ASSUME NEW error \in Errors, Stops(u, error)
        PROVE  /\ \A v \in Users : v # u => user'[v] = user[v]
               /\ user'[u].step = user[u].step /\ user'[u].op = user[u].op
               /\ user'[u].state # "working"
    BY <1>1, <2>2 DEF Stops, OneUser, User
  <2> QED  BY <2>1, <2>2
<1>3. ASSUME NEW v \in Users, NEW op \in 1 .. OperationsPerUser,
             NEW step \in 1 .. Len(Workflow)
      PROVE  Over(v, op, step)'
                <=> Over(v, op, step) \/ (v = u /\ op = user[u].op /\ step = user[u].step)
  <2>1. CASE v # u
    BY <1>2, <2>1 DEF Over
  <2>2. CASE v = u
    <3>1. user[u].op \in 1 .. OperationsPerUser /\ user[u].step \in 1 .. Len(Workflow)
      BY <1>1 DEF User
    <3> QED  BY <1>0, <1>1, <1>2, <2>2, <3>1 DEF Over
  <2> QED  BY <2>1, <2>2
<1>4. call \in ChatKeys \X (1 .. Len(Workflow)) /\ call \notin CallsOver
  BY <1>0, <1>1 DEF ChatKeys, User, CallsOver, Over
<1>5. CallsOver' = CallsOver \cup {call}
  <2>1. ASSUME NEW c \in ChatKeys \X (1 .. Len(Workflow))
        PROVE  c \in CallsOver' <=> c \in CallsOver \/ c = call
    <3>1. PICK v \in Users, op \in 1 .. OperationsPerUser, step \in 1 .. Len(Workflow) :
            c = <<<<v, op>>, step>>
      BY DEF ChatKeys
    <3>2. c \in CallsOver <=> Over(v, op, step)
      BY <3>1 DEF CallsOver
    <3>3. c \in CallsOver' <=> Over(v, op, step)'
      BY <1>1, <3>1 DEF CallsOver
    <3>4. c = call <=> v = u /\ op = user[u].op /\ step = user[u].step
      BY <3>1
    <3> QED  BY <1>3, <3>2, <3>3, <3>4
  <2>2. CallsOver' \subseteq ChatKeys \X (1 .. Len(Workflow))
    BY <1>1 DEF CallsOver
  <2>3. CallsOver \subseteq ChatKeys \X (1 .. Len(Workflow))
    BY DEF CallsOver
  <2> HIDE DEF call
  <2> QED  BY <1>4, <2>1, <2>2, <2>3
<1> QED  BY <1>4, <1>5, FiniteSets, FS_AddElement

\* A user that waits has no more calls over than before.
LEMMA NoMoreCalls ==
    ASSUME NEW u \in Users, createOnly' = createOnly, Waits(u)
    PROVE  CallsOver' = CallsOver /\ Ended' = Ended
<1>1. Workflow' = Workflow
  BY DEF Workflow
<1>2. \A v \in Users : /\ user'[v].op = user[v].op /\ user'[v].step = user[v].step
                       /\ user'[v].state = user[v].state
  BY DEF Waits, OneUser
<1>3. CallsOver' = CallsOver
  <2>1. ASSUME NEW c \in ChatKeys \X (1 .. Len(Workflow))
        PROVE  Over(c[1][1], c[1][2], c[2])' <=> Over(c[1][1], c[1][2], c[2])
    <3>1. c[1][1] \in Users
      BY DEF ChatKeys
    <3> QED  BY <1>2, <3>1 DEF Over
  <2> QED  BY <1>1, <2>1 DEF CallsOver
<1> QED  BY <1>2, <1>3 DEF Ended

\* A user ends once.
LEMMA OneMoreEnd ==
    ASSUME IInv, NEW u \in Users, Working(u),
           \A v \in Users : v # u => user'[v] = user[v]
    PROVE  Cardinality(Ended')
            = Cardinality(Ended) + (IF user'[u].state = "working" THEN 0 ELSE 1)
<1>1. u \notin Ended
  BY DEF Ended, Working
<1>2. CASE user'[u].state = "working"
  <2>1. Ended' = Ended
    BY <1>1, <1>2 DEF Ended
  <2> QED  BY <1>2, <2>1, FiniteSets
<1>3. CASE user'[u].state # "working"
  <2>1. Ended' = Ended \cup {u}
    BY <1>1, <1>3 DEF Ended
  <2> QED  BY <1>1, <1>3, <2>1, FiniteSets, FS_AddElement
<1> QED  BY <1>2, <1>3

-----------------------------------------------------------------------------
(***************************************************************************)
(* The three kinds of steps of a user, and the invariant.                  *)
(***************************************************************************)
\* The server keeps its types, and a stored chat.
ServerKeeps ==
    /\ Chats!TypeOK' /\ Messages!TypeOK'
    /\ \A k \in ChatKeys : chatPlace[k] = "stored" => chatPlace'[k] = "stored"

\* Other users still find what they found.
LEMMA FoundStep ==
    ASSUME IInv, ServerKeeps, NEW u \in Users, createOnly' = createOnly, OneUser(u),
           Looked(u)' => ChatStored(u)'
    PROVE  FoundInv'
<1> SUFFICES ASSUME NEW v \in Users, Looked(v)'  PROVE ChatStored(v)'
  BY DEF FoundInv
<1>1. CASE v = u
  BY <1>1
<1>2. CASE v # u
  <2>1. user'[v] = user[v] /\ user[v] \in User
    BY <1>2 DEF OneUser, IInv, TypeOK
  <2>2. ChatOf(v)' = ChatOf(v) /\ Looked(v) /\ ChatOf(v) \in ChatKeys
    BY <2>1 DEF ChatOf, Looked, User, ChatKeys
  <2> QED  BY <2>2 DEF ServerKeeps, ChatStored, IInv, FoundInv
<1> QED  BY <1>1, <1>2

\* What does not concern the stopped users leaves their errors as they are.
LEMMA ErrorsStep ==
    ASSUME IInv, NEW u \in Users, createOnly' = createOnly,
           \A v \in Users : v # u => user'[v] = user[v],
           user'[u].error = "notFound" =>
                /\ ~createOnly => user'[u].attempt = ConsistencyRetries
                /\ IF createOnly THEN MessageOf(u)'[2] = 1
                   ELSE Workflow[user'[u].step] \in {"findChat", "findMessage"}
    PROVE  RetriedBeforeGivingUp' /\ FoundStaysFound'
<1>1. Workflow' = Workflow
  BY DEF Workflow
<1>2. ASSUME NEW v \in Users, v # u
      PROVE  user'[v] = user[v] /\ MessageOf(v)' = MessageOf(v)
  BY <1>1, <1>2 DEF MessageOf, ChatOf
<1>3. RetriedBeforeGivingUp'
  BY <1>2 DEF IInv, RetriedBeforeGivingUp
<1>4. FoundStaysFound'
  BY <1>1, <1>2 DEF IInv, FoundStaysFound
<1> QED  BY <1>3, <1>4

\* A call that succeeds keeps the invariant.
LEMMA AdvanceKeeps ==
    ASSUME IInv, ServerKeeps, NEW u \in Users, Working(u), Succeed(u),
           UNCHANGED budgetVars, Looked(u)' => ChatStored(u)'
    PROVE  IInv'
<1>1. /\ Advances(u) /\ UNCHANGED <<createOnly, main, probe>>
      /\ Record(1, 0, IF user'[u].state = "working" THEN 0 ELSE 1)
  BY SucceedMoves
<1>2. OneUser(u) /\ user'[u].error = "none"
  BY <1>1 DEF Advances
<1>3. Workflow' = Workflow /\ User' = User
  BY <1>1 DEF Workflow, User
<1>4. /\ Cardinality(CallsOver') = Cardinality(CallsOver) + 1
      /\ Cardinality(Ended') = Cardinality(Ended) + (IF user'[u].state = "working" THEN 0 ELSE 1)
  BY <1>1, <1>2, OneMoreCall, OneMoreEnd DEF OneUser
<1>5. Cardinality(Ended') \in 0 .. Cardinality(Users)
  BY FiniteSets, Ended' \in SUBSET Users, FS_Subset, FS_CardinalityType, ConfigAssumption DEF Ended
<1>6. CountInv'
  <2>1. \A v \in Users : v # u => user'[v] = user[v]
    BY <1>2 DEF OneUser
  <2>2. user'[u].state # "stopped"
    BY <1>1 DEF Advances
  <2> QED  BY SMTT(30), <1>1, <1>4, <2>1, <2>2, FiniteSets DEF IInv, TypeOK, CountInv, Record, budgetVars
<1>7. TypeOK'
  <2>1. user' \in [Users -> User]'
    BY <1>2, <1>3 DEF OneUser
  <2>2. /\ stats' \in [total : Nat, success : Nat, failed : Nat,
                       completedUsers : 0 .. Cardinality(Users)]
        /\ stats'.total = stats'.success + stats'.failed
    BY <1>1, <1>5, <1>6 DEF IInv, TypeOK, Record, CountInv
  <2> QED  BY <1>1, <2>1, <2>2 DEF IInv, TypeOK, ServerKeeps, budgetVars
<1>8. EndInv'
  BY <1>1, <1>2, <1>3 DEF IInv, EndInv, Working, Advances, OneUser, LastCall
<1>9. FoundInv' /\ RetriedBeforeGivingUp' /\ FoundStaysFound'
  BY <1>1, <1>2, FoundStep, ErrorsStep DEF OneUser
<1> QED  BY <1>6, <1>7, <1>8, <1>9 DEF IInv

\* A total that is right stays so when a call ends: 2 more for a malformed answer.
LEMMA StillAddsUp ==
    \A total, s, f, calls, m, n \in Nat :
        total = calls + 2 * m /\ s + f + 2 * m = 1 + 2 * n
            => total + s + f = calls + 1 + 2 * n
  OBVIOUS

\* An error keeps it, if its user gives up for a reason that FoundStaysFound allows.
LEMMA StopKeeps ==
    ASSUME IInv, NEW u \in Users, Working(u), NEW error \in Errors, NEW s \in Nat,
           NEW f \in Nat \ {0}, Stops(u, error), Record(s, f, 1),
           UNCHANGED <<createOnly, main, probe, serverVars>>,
           faults' \in 0 .. MaxFaults, malformed' \in 0 .. MaxMalformed,
           s + f + 2 * malformed = 1 + 2 * malformed',
           error = "notFound" =>
                /\ ~createOnly => user[u].attempt = ConsistencyRetries
                /\ IF createOnly THEN MessageOf(u)[2] = 1
                   ELSE Workflow[user[u].step] \in {"findChat", "findMessage"}
    PROVE  IInv'
<1>1. OneUser(u) /\ user[u] \in User
  BY DEF Stops, IInv, TypeOK
<1>2. /\ user'[u].state = "stopped" /\ user'[u].error = error
      /\ user'[u].op = user[u].op /\ user'[u].step = user[u].step
      /\ user'[u].posted = user[u].posted /\ user'[u].attempt = user[u].attempt
  BY <1>1 DEF Stops, User
<1>3. Workflow' = Workflow /\ User' = User
  BY DEF Workflow, User
<1>4. /\ Cardinality(CallsOver') = Cardinality(CallsOver) + 1
      /\ Cardinality(Ended') = Cardinality(Ended) + 1
  BY <1>1, <1>2, OneMoreCall, OneMoreEnd DEF OneUser
<1>5. Cardinality(Ended') \in 0 .. Cardinality(Users)
  BY FiniteSets, Ended' \in SUBSET Users, FS_Subset, FS_CardinalityType, ConfigAssumption DEF Ended
<1>6. CountInv'
  <2>1. /\ stats'.completedUsers = stats.completedUsers + 1
        /\ stats'.total = stats.total + s + f /\ stats'.failed = stats.failed + f
    BY DEF Record
  <2>2. stats.failed \in Nat /\ stats.total \in Nat /\ malformed \in Nat /\ malformed' \in Nat
    BY ConfigAssumption DEF IInv, TypeOK
  <2>3. stats'.failed # 0
    BY <2>1, <2>2
  <2>4. stats'.total = Cardinality(CallsOver') + 2 * malformed'
    <3> DEFINE c == Cardinality(CallsOver)
               d == Cardinality(CallsOver')
    <3>1. c \in Nat /\ d = c + 1 /\ stats.total = c + 2 * malformed
      BY <1>4, FiniteSets DEF IInv, CountInv
    <3> HIDE DEF c, d
    <3>2. stats.total + s + f = c + 1 + 2 * malformed'
      <4>1. f \in Nat
        OBVIOUS
      <4> QED  BY <2>2, <3>1, <4>1, StillAddsUp
    <3>3. stats'.total = d + 2 * malformed'
      BY <2>1, <3>1, <3>2
    <3> QED  BY <3>3 DEF d
  <2>5. stats'.completedUsers = Cardinality(Ended')
    BY <1>4, <2>1 DEF IInv, CountInv
  <2> QED  BY <2>3, <2>4, <2>5 DEF CountInv
<1>7. TypeOK'
  <2>1. user' \in [Users -> User]'
    BY <1>1, <1>3 DEF OneUser
  <2>2. /\ stats' \in [total : Nat, success : Nat, failed : Nat,
                       completedUsers : 0 .. Cardinality(Users)]
        /\ stats'.total = stats'.success + stats'.failed
    <3>1. /\ stats' = [total |-> stats.total + s + f, success |-> stats.success + s,
                       failed |-> stats.failed + f, completedUsers |-> stats.completedUsers + 1]
          /\ stats'.completedUsers \in 0 .. Cardinality(Users)
      BY <1>5, <1>6 DEF Record, CountInv
    <3>2. /\ stats.total \in Nat /\ stats.success \in Nat /\ stats.failed \in Nat
          /\ stats.total = stats.success + stats.failed
      BY DEF IInv, TypeOK
    <3> QED  BY <3>1, <3>2
  <2>3. Chats!TypeOK' /\ Messages!TypeOK'
    BY DEF IInv, TypeOK, serverVars, Chats!TypeOK, Messages!TypeOK
  <2> QED  BY <2>1, <2>2, <2>3 DEF IInv, TypeOK
<1>8. EndInv'
  BY <1>1, <1>2, <1>3 DEF IInv, EndInv, Working, OneUser, LastCall, Errors
<1>9. FoundInv'
  <2>1. ServerKeeps
    BY <1>7 DEF ServerKeeps, TypeOK, serverVars
  <2>2. Looked(u)' => ChatStored(u)'
    BY <1>2 DEF IInv, FoundInv, Looked, ChatStored, ChatOf, serverVars
  <2> QED  BY <1>1, <2>1, <2>2, FoundStep
<1>10. RetriedBeforeGivingUp' /\ FoundStaysFound'
  <2>1. MessageOf(u)' = MessageOf(u)
    BY <1>2, <1>3 DEF MessageOf, ChatOf
  <2> QED  BY <1>1, <1>2, <2>1, ErrorsStep DEF OneUser
<1> QED  BY <1>6, <1>7, <1>8, <1>9, <1>10 DEF IInv

\* So does a call that is not over yet.
LEMMA WaitKeeps ==
    ASSUME IInv, ServerKeeps, NEW u \in Users, Working(u), Waits(u),
           UNCHANGED <<createOnly, main, probe, stats, budgetVars>>, Looked(u)' => ChatStored(u)'
    PROVE  IInv'
<1>1. Workflow' = Workflow /\ User' = User
  BY DEF Workflow, User
<1>2. user'[u].error = "none" /\ user'[u].state = "working"
  BY DEF IInv, EndInv, Working, Waits
<1>3. CallsOver' = CallsOver /\ Ended' = Ended /\ OneUser(u)
  BY NoMoreCalls DEF Waits
<1>4. CountInv'
  BY <1>2, <1>3 DEF IInv, CountInv, OneUser, budgetVars
<1>5. TypeOK'
  BY <1>1, <1>3 DEF IInv, TypeOK, ServerKeeps, budgetVars, OneUser
<1>6. EndInv'
  BY <1>1, <1>2, <1>3 DEF IInv, EndInv, Working, Waits, OneUser, LastCall
<1>7. FoundInv' /\ RetriedBeforeGivingUp' /\ FoundStaysFound'
  BY <1>2, <1>3, FoundStep, ErrorsStep DEF OneUser
<1> QED  BY <1>4, <1>5, <1>6, <1>7 DEF IInv

-----------------------------------------------------------------------------
(***************************************************************************)
(* The actions.                                                            *)
(***************************************************************************)
\* Whatever happens to a chat's event, what is stored stays stored.
LEMMA ChatEventMoves ==
    ASSUME IInv, NEW k \in ChatKeys, UNCHANGED <<messagePlace, messageAnswered>>,
           \/ Chats!Publish(k) \/ Chats!Answer(k)
           \/ Chats!Store(k) \/ Chats!Park(k) \/ Chats!Resend(k)
    PROVE  ServerKeeps
<1>1. Chats!TypeOK /\ Messages!TypeOK
  BY DEF IInv, TypeOK
<1>2. Messages!TypeOK'
  BY <1>1 DEF Messages!TypeOK
<1>3. /\ chatPlace' \in [ChatKeys -> Chats!Places] /\ chatAnswered' \in SUBSET ChatKeys
      /\ \A c \in ChatKeys : chatPlace[c] = "stored" => chatPlace'[c] = "stored"
  BY <1>1 DEF Chats!TypeOK, Chats!Places, Chats!Publish, Chats!Answer, Chats!Store, Chats!Park,
     Chats!Resend, Chats!Move
<1> QED  BY <1>2, <1>3 DEF ServerKeeps, Chats!TypeOK

\* A message's event is none of the chats' business.
LEMMA MessageEventMoves ==
    ASSUME IInv, NEW k \in MessageKeys, UNCHANGED <<chatPlace, chatAnswered>>,
           \/ Messages!Publish(k) \/ Messages!Answer(k)
           \/ Messages!Store(k) \/ Messages!Park(k) \/ Messages!Resend(k)
    PROVE  ServerKeeps
<1>1. Chats!TypeOK /\ Messages!TypeOK
  BY DEF IInv, TypeOK
<1>2. Chats!TypeOK'
  BY <1>1 DEF Chats!TypeOK
<1>3. messagePlace' \in [MessageKeys -> Messages!Places] /\ messageAnswered' \in SUBSET MessageKeys
  BY <1>1 DEF Messages!TypeOK, Messages!Places, Messages!Publish, Messages!Answer, Messages!Store,
     Messages!Park, Messages!Resend, Messages!Move
<1> QED  BY <1>2, <1>3 DEF ServerKeeps, Messages!TypeOK

\* A server that does nothing keeps what it has.
LEMMA ServerIdle ==
    ASSUME IInv, UNCHANGED serverVars
    PROVE  ServerKeeps
  BY DEF IInv, TypeOK, ServerKeeps, serverVars, Chats!TypeOK, Messages!TypeOK

\* Where the user of a call is, and whether it has found its chat.
LEMMA CallMeans ==
    ASSUME IInv, NEW u \in Users, NEW call, Calls(u, call)
    PROVE  /\ Working(u) /\ user[u].step \in 1 .. Len(Workflow) /\ ChatOf(u) \in ChatKeys
           /\ call = CallAt(user[u].step)
           /\ Looked(u) => ChatStored(u)
  BY WorkflowIs DEF Calls, Working, IInv, TypeOK, User, ChatOf, ChatKeys, FoundInv

\* A user that goes on to where its chat is needed has found it.
LEMMA AfterSucceed ==
    ASSUME IInv, NEW u \in Users, Working(u), Succeed(u), ServerKeeps,
           (IF createOnly THEN user[u].step >= 3 ELSE user[u].step >= 4) => ChatStored(u)
    PROVE  Looked(u)' => ChatStored(u)'
<1>1. Advances(u) /\ createOnly' = createOnly
  BY SucceedMoves
<1>2. /\ user[u].step \in 1 .. Len(Workflow) /\ user[u].op \in 1 .. OperationsPerUser
      /\ Len(Workflow) \in Nat \ {0}
  BY FiniteSets DEF IInv, TypeOK, User
<1>3. SUFFICES ASSUME Looked(u)'  PROVE ChatStored(u)'
  OBVIOUS
<1>4. /\ user'[u].op = user[u].op
      /\ IF createOnly THEN user[u].step >= 3 ELSE user[u].step >= 4
  BY <1>1, <1>2, <1>3 DEF Advances, Looked
<1>5. ChatOf(u)' = ChatOf(u) /\ ChatOf(u) \in ChatKeys
  BY <1>2, <1>4 DEF ChatOf, ChatKeys
<1> QED  BY <1>4, <1>5 DEF ServerKeeps, ChatStored

\* A poll keeps the invariant, if its success means that the chat is there and its
\* failure is one that FoundStaysFound allows.
LEMMA PollKeeps ==
    ASSUME IInv, NEW u \in Users, Working(u), UNCHANGED <<serverVars, budgetVars>>,
           Looked(u) => ChatStored(u),
           \/ Succeed(u) /\ ChatStored(u)
           \/ /\ NotFound(u) /\ ~createOnly
              /\ Workflow[user[u].step] \in {"findChat", "findMessage"}
    PROVE  IInv'
<1>1. ServerKeeps
  BY ServerIdle
<1>2. CASE Succeed(u) /\ ChatStored(u)
  BY <1>1, <1>2, AfterSucceed, AdvanceKeeps
<1>3. CASE /\ NotFound(u) /\ ~createOnly
           /\ Workflow[user[u].step] \in {"findChat", "findMessage"}
  <2>1. UNCHANGED <<createOnly, main, probe>>
    BY <1>3, NotFoundMoves
  <2>2. CASE Waits(u) /\ user'[u].posted = user[u].posted /\ UNCHANGED stats
    <3>1. Looked(u)' => ChatStored(u)'
      BY <2>1, <2>2 DEF Looked, ChatStored, ChatOf, serverVars, Waits
    <3> QED  BY <1>1, <2>1, <2>2, <3>1, WaitKeeps
  <2>3. CASE /\ user[u].attempt = ConsistencyRetries
             /\ Stops(u, "notFound") /\ Record(0, 1, 1)
    <3>1. "notFound" \in Errors /\ 0 \in Nat /\ 1 \in Nat \ {0}
      BY DEF Errors
    <3>2. faults' \in 0 .. MaxFaults /\ malformed' \in 0 .. MaxMalformed /\ malformed' = malformed
      BY DEF IInv, TypeOK, budgetVars
    <3>3. 0 + 1 + 2 * malformed = 1 + 2 * malformed'
      BY <3>2, ConfigAssumption
    <3> QED  BY <1>3, <2>1, <2>3, <3>1, <3>2, <3>3, StopKeeps DEF serverVars
  <2> QED  BY <1>3, <2>2, <2>3, NotFoundMoves
<1> QED  BY <1>2, <1>3

\* A user's step keeps the invariant.
LEMMA UserKeeps ==
    ASSUME IInv, NEW u \in Users, UserStep(u)
    PROVE  IInv'
<1>0. MessagesPerChat \in Nat \ {0}
  BY ConfigAssumption
<1>1. CASE CreateApp(u)
  <2>1. Calls(u, "createApp") /\ Succeed(u) /\ UNCHANGED <<serverVars, budgetVars>>
    BY <1>1 DEF CreateApp
  <2>2. Working(u) /\ user[u].step = 1
    BY <1>0, <2>1, CallMeans DEF CallAt
  <2> QED  BY <2>1, <2>2, ServerIdle, AfterSucceed, AdvanceKeeps
<1>2. CASE FindApp(u)
  <2>1. Calls(u, "findApp") /\ Succeed(u) /\ UNCHANGED <<serverVars, budgetVars>>
    BY <1>2 DEF FindApp
  <2>2. Working(u) /\ user[u].step = 2
    BY <1>0, <2>1, CallMeans DEF CallAt
  <2> QED  BY <2>1, <2>2, ServerIdle, AfterSucceed, AdvanceKeeps
<1>3. CASE CreateChat(u)
  <2>1. Calls(u, "createChat") /\ UNCHANGED <<messagePlace, messageAnswered, budgetVars>>
    BY <1>3 DEF CreateChat
  <2>2. /\ Working(u) /\ ChatOf(u) \in ChatKeys
        /\ user[u].step = IF createOnly THEN 2 ELSE 3
    BY <1>0, <2>1, CallMeans DEF CallAt
  <2>3. CASE ~user[u].posted /\ Chats!Publish(ChatOf(u)) /\ Posted(u)
    <3>1. ServerKeeps
      BY <2>1, <2>2, <2>3, ChatEventMoves
    <3>2. Waits(u) /\ UNCHANGED <<createOnly, main, probe, stats>>
      BY <2>3, PostedMoves
    <3>3. ~Looked(u)'
      BY <2>2, <3>2 DEF Looked, Waits
    <3> QED  BY <2>1, <2>2, <3>1, <3>2, <3>3, WaitKeeps
  <2>4. CASE user[u].posted /\ Chats!Answer(ChatOf(u)) /\ Succeed(u)
    <3>1. ServerKeeps
      BY <2>1, <2>2, <2>4, ChatEventMoves
    <3> QED  BY <2>1, <2>2, <2>4, <3>1, AfterSucceed, AdvanceKeeps
  <2> QED  BY <1>3, <2>3, <2>4 DEF CreateChat
<1>4. CASE FindChat(u)
  <2>1. Calls(u, "findChat") /\ UNCHANGED <<serverVars, budgetVars>>
    BY <1>4 DEF FindChat
  <2>2. Working(u) /\ ~createOnly /\ (Looked(u) => ChatStored(u))
    BY <1>0, <2>1, CallMeans DEF CallAt
  <2>3. Workflow[user[u].step] = "findChat"
    BY <2>1 DEF Calls
  <2> QED  BY <1>4, <2>1, <2>2, <2>3, PollKeeps DEF FindChat
<1>5. CASE FindAllChats(u)
  <2>1. Calls(u, "findAllChats") /\ Succeed(u) /\ UNCHANGED <<serverVars, budgetVars>>
    BY <1>5 DEF FindAllChats
  <2>2. Working(u) /\ ChatStored(u)
    BY <1>0, <2>1, CallMeans DEF CallAt, Looked
  <2> QED  BY <2>1, <2>2, ServerIdle, AfterSucceed, AdvanceKeeps
<1>6. CASE CreateMessage(u)
  <2>1. Calls(u, "createMessage") /\ UNCHANGED <<chatPlace, chatAnswered, budgetVars>>
    BY <1>6 DEF CreateMessage
  <2>2. /\ Working(u) /\ user[u].step \in 1 .. Len(Workflow)
        /\ ChatOf(u) \in ChatKeys /\ (Looked(u) => ChatStored(u))
        /\ IF createOnly THEN user[u].step >= 3 ELSE user[u].step > 5
    BY <1>0, <2>1, CallMeans DEF CallAt
  <2>3. /\ Workflow[user[u].step] = "createMessage"
        /\ user[u].step - Before \in 1 .. MessagesPerChat
        /\ MessageOf(u) = <<ChatOf(u), user[u].step - Before>>
    BY <2>1, <2>2, MessageNumber DEF Calls, MessageOf
  <2>4. MessageOf(u) \in MessageKeys
    BY <2>2, <2>3 DEF MessageKeys
  <2>5. CASE /\ ~user[u].posted /\ ChatStored(u)
             /\ Messages!Publish(MessageOf(u)) /\ Posted(u)
    <3>1. ServerKeeps
      BY <2>1, <2>4, <2>5, MessageEventMoves
    <3>2. Waits(u) /\ UNCHANGED <<createOnly, main, probe, stats>>
      BY <2>5, PostedMoves
    <3>3. ChatStored(u)'
      BY <2>1, <2>5, <3>2 DEF ChatStored, ChatOf, Waits
    <3> QED  BY <2>1, <2>2, <3>1, <3>2, <3>3, WaitKeeps
  <2>6. CASE /\ ~user[u].posted /\ ~ChatStored(u) /\ Throw(u, "notFound", 0, 1)
             /\ UNCHANGED <<messagePlace, messageAnswered>>
    <3>1. createOnly /\ user[u].step = 3
      <4>1. ~user[u].posted /\ ~Looked(u)
        BY <2>2, <2>6
      <4>2. user[u].step \in Int
        BY <2>2
      <4>3. createOnly
        BY <2>2, <4>1, <4>2 DEF Looked
      <4> QED  BY <2>2, <4>1, <4>2, <4>3 DEF Looked
    <3>2. MessageOf(u)[2] = 1
      BY <2>3, <3>1 DEF Before
    <3>3. "notFound" \in Errors /\ 0 \in Nat /\ 1 \in Nat \ {0} /\ 1 \in Nat
      BY DEF Errors
    <3>4. /\ Stops(u, "notFound") /\ UNCHANGED <<createOnly, main, probe>>
          /\ Record(0, 1, 1)
      BY <2>6, <3>3, ThrowMoves
    <3>5. faults' \in 0 .. MaxFaults /\ malformed' \in 0 .. MaxMalformed /\ malformed' = malformed
      BY <2>1 DEF IInv, TypeOK, budgetVars
    <3>6. 0 + 1 + 2 * malformed = 1 + 2 * malformed'
      BY <3>5, ConfigAssumption
    <3>7. UNCHANGED serverVars
      BY <2>1, <2>6 DEF serverVars
    <3> QED  BY <2>2, <3>1, <3>2, <3>3, <3>4, <3>5, <3>6, <3>7, StopKeeps
  <2>7. CASE user[u].posted /\ Messages!Answer(MessageOf(u)) /\ Succeed(u)
    <3>1. ServerKeeps
      BY <2>1, <2>4, <2>7, MessageEventMoves
    <3>2. ChatStored(u)
      BY <2>2, <2>7 DEF Looked
    <3> QED  BY <2>1, <2>2, <2>7, <3>1, <3>2, AfterSucceed, AdvanceKeeps
  <2> QED  BY <1>6, <2>5, <2>6, <2>7 DEF CreateMessage
<1>7. CASE FindMessage(u)
  <2>1. Calls(u, "findMessage") /\ UNCHANGED <<serverVars, budgetVars>>
    BY <1>7 DEF FindMessage
  <2>2. Working(u) /\ ~createOnly /\ (Looked(u) => ChatStored(u))
    BY <1>0, <2>1, CallMeans DEF CallAt
  <2>3. Workflow[user[u].step] = "findMessage"
    BY <2>1 DEF Calls
  <2> QED  BY <1>7, <2>1, <2>2, <2>3, PollKeeps DEF FindMessage
<1>8. CASE FindAllMessages(u)
  <2>1. Calls(u, "findAllMessages") /\ UNCHANGED <<serverVars, budgetVars>>
    BY <1>8 DEF FindAllMessages
  <2>2. Working(u) /\ ChatStored(u)
    BY <1>0, <2>1, CallMeans DEF CallAt, Looked
  <2> QED  BY <1>8, <2>1, <2>2, PollKeeps DEF FindAllMessages
<1> QED  BY <1>1, <1>2, <1>3, <1>4, <1>5, <1>6, <1>7, <1>8 DEF UserStep

\* A call that fails, or is answered without what was asked for, is an error of another kind.
LEMMA ErrorKeeps ==
    ASSUME IInv, NEW u \in Users, CallFails(u) \/ MalformedAnswer(u)
    PROVE  IInv'
<1>0. /\ faults \in 0 .. MaxFaults /\ malformed \in 0 .. MaxMalformed
      /\ MaxFaults \in Nat /\ MaxMalformed \in Nat
  BY ConfigAssumption DEF IInv, TypeOK
<1>1. CASE CallFails(u)
  <2>1. "failed" \in Errors /\ 0 \in Nat /\ 1 \in Nat \ {0} /\ 1 \in Nat
    BY DEF Errors
  <2>2. /\ Stops(u, "failed") /\ UNCHANGED <<createOnly, main, probe>>
        /\ Record(0, 1, 1)
    BY <1>1, <2>1, ThrowMoves DEF CallFails
  <2>3. /\ Working(u) /\ UNCHANGED serverVars
        /\ faults' \in 0 .. MaxFaults /\ malformed' \in 0 .. MaxMalformed
        /\ 0 + 1 + 2 * malformed = 1 + 2 * malformed'
    BY <1>0, <1>1 DEF CallFails, Working
  <2> QED  BY <2>1, <2>2, <2>3, StopKeeps
<1>2. CASE MalformedAnswer(u)
  <2>1. "malformed" \in Errors /\ 1 \in Nat /\ 2 \in Nat \ {0} /\ 2 \in Nat
    BY DEF Errors
  <2>2. /\ Stops(u, "malformed") /\ UNCHANGED <<createOnly, main, probe>>
        /\ Record(1, 2, 1)
    BY <1>2, <2>1, ThrowMoves DEF MalformedAnswer
  <2>3. /\ Working(u) /\ UNCHANGED serverVars
        /\ faults' \in 0 .. MaxFaults /\ malformed' \in 0 .. MaxMalformed
        /\ 1 + 2 + 2 * malformed = 1 + 2 * malformed'
    BY <1>0, <1>2 DEF MalformedAnswer, Working
  <2> QED  BY <2>1, <2>2, <2>3, StopKeeps
<1> QED  BY <1>1, <1>2

\* The users do not see the other steps, except for the end of the test.
LEMMA OtherKeeps ==
    ASSUME IInv, ServerKeeps, main' \in Main, probe' \in 1 .. HealthRetries,
           UNCHANGED <<createOnly, user, stats, budgetVars>>,
           main' = "report" => main = "report" \/ \A u \in Users : user[u].state # "working"
    PROVE  IInv'
<1>1. Workflow' = Workflow /\ User' = User
  BY DEF Workflow, User
<1>2. CallsOver' = CallsOver /\ Ended' = Ended
  BY <1>1 DEF CallsOver, Over, Ended
<1>3. TypeOK'
  BY <1>1 DEF IInv, TypeOK, ServerKeeps, budgetVars
<1>4. CountInv'
  BY <1>2 DEF IInv, CountInv, budgetVars
<1>5. EndInv'
  BY <1>1 DEF IInv, EndInv, LastCall
<1>6. FoundInv'
  <2> SUFFICES ASSUME NEW u \in Users, Looked(u)'  PROVE ChatStored(u)'
    BY DEF FoundInv
  <2>1. Looked(u) /\ ChatOf(u) \in ChatKeys /\ ChatOf(u)' = ChatOf(u)
    BY DEF Looked, ChatOf, ChatKeys, IInv, TypeOK, User
  <2> QED  BY <2>1 DEF IInv, FoundInv, ServerKeeps, ChatStored
<1>7. RetriedBeforeGivingUp' /\ FoundStaysFound'
  BY <1>1 DEF IInv, RetriedBeforeGivingUp, FoundStaysFound, MessageOf, ChatOf
<1> QED  BY <1>3, <1>4, <1>5, <1>6, <1>7 DEF IInv

\* Every step keeps the invariant.
LEMMA InvStep == IInv /\ [Next]_vars => IInv'
<1> SUFFICES ASSUME IInv, [Next]_vars  PROVE IInv'
  OBVIOUS
<1>0. main \in Main /\ probe \in 1 .. HealthRetries
  BY DEF IInv, TypeOK
<1>1. CASE ServerAnswers \/ ConnectionRefused \/ Report \/ Interrupt \/ UNCHANGED vars
  <2>1. UNCHANGED <<createOnly, user, stats, serverVars, budgetVars>>
    BY <1>1 DEF ServerAnswers, ConnectionRefused, Report, Interrupt, mainUnchanged, vars
  <2>2. /\ main' \in Main /\ probe' \in 1 .. HealthRetries
        /\ main' = "report" => main = "report" \/ \A u \in Users : user[u].state # "working"
    BY <1>0, <1>1 DEF ServerAnswers, ConnectionRefused, Report, Interrupt, vars, Main, HealthRetries
  <2> QED  BY <2>1, <2>2, ServerIdle, OtherKeeps
<1>2. CASE StoreChats
  <2>1. ServerKeeps
    BY <1>2, ChatEventMoves DEF StoreChats
  <2> QED  BY <1>0, <1>2, <2>1, OtherKeeps DEF StoreChats
<1>3. CASE StoreMessages
  <2>1. ServerKeeps
    BY <1>3, MessageEventMoves DEF StoreMessages
  <2> QED  BY <1>0, <1>3, <2>1, OtherKeeps DEF StoreMessages
<1> QED  BY <1>1, <1>2, <1>3, UserKeeps, ErrorKeeps DEF Next

-----------------------------------------------------------------------------
(***************************************************************************)
(* The theorems.                                                           *)
(***************************************************************************)
\* The invariant holds in every state.
LEMMA Inductive == Spec => []IInv
  BY InvInit, InvStep, PTL DEF Spec

\* Every variable has its type, for any number of users, calls and polls.
THEOREM TypeCorrect == Spec => []TypeOK
<1>1. IInv => TypeOK
  BY DEF IInv
<1> QED  BY <1>1, Inductive, PTL

\* A reading user gives up on a 404 only after all its polls.  What needs proof is the post of
\* a message, which does not poll: a reading user has found the chat before.
THEOREM GivesUpLate == Spec => []RetriedBeforeGivingUp
<1>1. IInv => RetriedBeforeGivingUp
  BY DEF IInv
<1> QED  BY <1>1, Inductive, PTL

\* A user fails for good only at its first look at a chat or a message.
THEOREM FindsAgain == Spec => []FoundStaysFound
<1>1. IInv => FoundStaysFound
  BY DEF IInv
<1> QED  BY <1>1, Inductive, PTL

\* The report adds up, for any number of users that record their calls concurrently.
THEOREM ReportTrue == Spec => []ReportAddsUp
<1>1. IInv => ReportAddsUp
  <2> SUFFICES ASSUME IInv, main = "report", stats.failed = 0
               PROVE  stats.total = ExpectedOperations
    BY DEF IInv, CountInv, ReportAddsUp
  <2>0. /\ OperationsPerUser \in Nat \ {0} /\ MessagesPerChat \in Nat \ {0}
        /\ Cardinality(Users) \in Nat
    BY ConfigAssumption, FS_CardinalityType
  <2>1. \A u \in Users : user[u].state = "completed" /\ LastCall(u)
    BY DEF IInv, EndInv, CountInv, TypeOK, User
  <2>2. CallsOver = ChatKeys \X (1 .. Len(Workflow))
    <3>1. ASSUME NEW u \in Users, NEW op \in 1 .. OperationsPerUser,
                 NEW step \in 1 .. Len(Workflow)
          PROVE  Over(u, op, step)
      <4>1. user[u].op = OperationsPerUser /\ user[u].step = Len(Workflow)
        BY <2>1 DEF LastCall
      <4> QED  BY <2>0, <2>1, <4>1, FiniteSets DEF Over
    <3> QED  BY <3>1 DEF CallsOver, ChatKeys
  <2>3. malformed = 0 /\ stats.total = Cardinality(CallsOver) + 2 * malformed
    BY DEF IInv, CountInv
  <2>4. stats.total = Cardinality(Users) * OperationsPerUser * Len(Workflow)
    BY <2>2, <2>3, FiniteSets
  <2>5. Len(Workflow) = IF createOnly THEN 1 + 1 + MessagesPerChat
                        ELSE 1 + 1 + 1 + 1 + 1 + MessagesPerChat + MessagesPerChat + 1
    BY <2>0, WorkflowIs
  <2> QED  BY <2>4, <2>5 DEF ExpectedOperations
<1> QED  BY <1>1, Inductive, PTL
==============================================================================
