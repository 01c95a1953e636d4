------------------------------ MODULE LoadTest ------------------------------
(***************************************************************************)
(* load-test.js, the repository's client: users that work concurrently     *)
(* through one workflow of API calls, against a server that answers 202    *)
(* before a chat or a message is stored.  A user polls for what it cannot  *)
(* read yet (retryWithConsistency); its first error ends its work.         *)
(*                                                                         *)
(* The server is seen through EventStore, once for chats and once for      *)
(* messages: ChatCreation shows that it behaves so.  Apps are created      *)
(* synchronously, so an app that was answered is there.  Waiting times are *)
(* left out: a row may take any number of polls to be stored.              *)
(***************************************************************************)
EXTENDS Naturals, FiniteSets, Sequences

CONSTANTS
    Users,                  \* concurrentUsers of them
    OperationsPerUser,
    MessagesPerChat,
    ConsistencyRetries,
    MaxFaults,              \* calls that fail or whose answer is lost (bound)
    MaxMalformed            \* answers without the number asked for (bound)

ASSUME ConfigAssumption ==
    /\ IsFiniteSet(Users)
    /\ OperationsPerUser \in Nat \ {0}
    /\ MessagesPerChat \in Nat \ {0}
    /\ ConsistencyRetries \in Nat \ {0}
    /\ MaxFaults \in Nat
    /\ MaxMalformed \in Nat

VARIABLES
    createOnly, \* CREATE_ONLY, from the environment: no reads
    main,       \* runLoadTest: checking the server, running, ended
    probe,      \* attempt of checkServerHealth
    user,       \* where each simulateUser is
    stats,      \* the counters of the report
    chatPlace, chatAnswered, messagePlace, messageAnswered,    \* the server
    faults, malformed

serverVars == <<chatPlace, chatAnswered, messagePlace, messageAnswered>>
budgetVars == <<faults, malformed>>
vars == <<createOnly, main, probe, user, stats, serverVars, budgetVars>>

\* One app and one chat per operation of a user.
ChatKeys == Users \X (1 .. OperationsPerUser)
MessageKeys == ChatKeys \X (1 .. MessagesPerChat)

Chats == INSTANCE EventStore WITH
    Keys <- ChatKeys, place <- chatPlace, answered <- chatAnswered

Messages == INSTANCE EventStore WITH
    Keys <- MessageKeys, place <- messagePlace, answered <- messageAnswered

Times(call) == [j \in 1 .. MessagesPerChat |-> call]

\* Mutant of Workflow: the messages are posted before the chat was found.
WorkflowPostsFirst ==
    IF createOnly
    THEN <<"createApp", "createChat">> \o Times("createMessage")
    ELSE <<"createApp", "findApp", "createChat">> \o Times("createMessage")
            \o <<"findChat", "findAllChats">>
            \o Times("findMessage") \o <<"findAllMessages">>

\* The calls of one operation of simulateUser, in order.
Workflow ==
    IF createOnly
    THEN <<"createApp", "createChat">> \o Times("createMessage")
    ELSE <<"createApp", "findApp", "createChat", "findChat", "findAllChats">>
            \o Times("createMessage") \o Times("findMessage")
            \o <<"findAllMessages">>

HealthRetries == 5

\* The report's "Expected Operations".
ExpectedOperations ==
    IF createOnly
    THEN Cardinality(Users) * OperationsPerUser * (1 + 1 + MessagesPerChat)
    ELSE Cardinality(Users) * OperationsPerUser
            * (1 + 1 + 1 + 1 + 1 + MessagesPerChat + MessagesPerChat + 1)

-----------------------------------------------------------------------------
Main == {"health", "running", "report", "exit", "interrupted"}

\* posted: the call is under way and the server has done its part.
User == [op : 1 .. OperationsPerUser, step : 1 .. Len(Workflow),
         attempt : 1 .. ConsistencyRetries, posted : BOOLEAN,
         state : {"working", "completed", "stopped"},
         error : {"none", "notFound", "failed", "malformed"}]

\* Every variable has its type; what is recorded is a success or a failure.
TypeOK ==
    /\ createOnly \in BOOLEAN
    /\ main \in Main
    /\ probe \in 1 .. HealthRetries
    /\ user \in [Users -> User]
    /\ stats \in [total : Nat, success : Nat, failed : Nat,
                  completedUsers : 0 .. Cardinality(Users)]
    /\ stats.total = stats.success + stats.failed
    /\ Chats!TypeOK
    /\ Messages!TypeOK
    /\ faults \in 0 .. MaxFaults
    /\ malformed \in 0 .. MaxMalformed

Init ==
    /\ createOnly \in BOOLEAN
    /\ main = "health"
    /\ probe = 1
    /\ user = [u \in Users |-> [op |-> 1, step |-> 1, attempt |-> 1, posted |-> FALSE,
                                state |-> "working", error |-> "none"]]
    /\ stats = [total |-> 0, success |-> 0, failed |-> 0, completedUsers |-> 0]
    /\ Chats!Init
    /\ Messages!Init
    /\ faults = 0
    /\ malformed = 0

-----------------------------------------------------------------------------
(***************************************************************************)
(* runLoadTest                                                             *)
(***************************************************************************)
mainUnchanged == UNCHANGED <<createOnly, user, stats, serverVars, budgetVars>>

\* Any answer, an error's too, counts as a server that is up.
ServerAnswers ==
    /\ main = "health"
    /\ main' = "running"
    /\ UNCHANGED probe /\ mainUnchanged

ConnectionRefused ==
    /\ main = "health"
    /\ IF probe < HealthRetries
       THEN probe' = probe + 1 /\ UNCHANGED main
       ELSE main' = "exit" /\ UNCHANGED probe
    /\ mainUnchanged

\* Promise.allSettled of the users' promises.
Report ==
    /\ main = "running"
    /\ \A u \in Users : user[u].state # "working"
    /\ main' = "report"
    /\ UNCHANGED probe /\ mainUnchanged

Interrupt ==
    /\ main \in {"health", "running"}
    /\ main' = "interrupted"
    /\ UNCHANGED probe /\ mainUnchanged

-----------------------------------------------------------------------------
(***************************************************************************)
(* simulateUser                                                            *)
(***************************************************************************)
Calls(u, call) ==
    /\ main = "running"
    /\ user[u].state = "working"
    /\ Workflow[user[u].step] = call

ChatOf(u) == <<u, user[u].op>>

\* The message of the loop's pass: the how many-th call of its kind this is.
MessageOf(u) ==
    LET step == user[u].step IN
    <<ChatOf(u), Cardinality({i \in 1 .. step : Workflow[i] = Workflow[step]})>>

\* Mutant of Record: total counts the successes only.
RecordSuccesses(successes, failures, completed) ==
    stats' = [total |-> stats.total + successes,
              success |-> stats.success + successes,
              failed |-> stats.failed + failures,
              completedUsers |-> stats.completedUsers + completed]

\* recordResult, and completedUsers when the user's work is over with it.
Record(successes, failures, completed) ==
    stats' = [total |-> stats.total + successes + failures,
              success |-> stats.success + successes,
              failed |-> stats.failed + failures,
              completedUsers |-> stats.completedUsers + completed]

LastCall(u) == user[u].step = Len(Workflow) /\ user[u].op = OperationsPerUser

\* The user after a call that succeeded.
Advanced(u) ==
    LET s == [user[u] EXCEPT !.attempt = 1, !.posted = FALSE] IN
    IF user[u].step < Len(Workflow) THEN [s EXCEPT !.step = @ + 1]
    ELSE IF user[u].op < OperationsPerUser THEN [s EXCEPT !.step = 1, !.op = @ + 1]
    ELSE [s EXCEPT !.state = "completed"]

Succeed(u) ==
    /\ user' = [user EXCEPT ![u] = Advanced(u)]
    /\ Record(1, 0, IF LastCall(u) THEN 1 ELSE 0)
    /\ UNCHANGED <<createOnly, main, probe>>

\* Mutant of Throw: only a user that came to the end is counted.
ThrowUncounted(u, error, successes, failures) ==
    /\ user' = [user EXCEPT ![u].state = "stopped", ![u].error = error]
    /\ Record(successes, failures, 0)
    /\ UNCHANGED <<createOnly, main, probe>>

\* An error leaves the call and then simulateUser's loop: its catch still
\* counts the user as completed.
Throw(u, error, successes, failures) ==
    /\ user' = [user EXCEPT ![u].state = "stopped", ![u].error = error]
    /\ Record(successes, failures, 1)
    /\ UNCHANGED <<createOnly, main, probe>>

\* Mutant of NotFound: each poll is recorded as an operation of its own.
NotFoundRecorded(u) ==
    IF user[u].attempt < ConsistencyRetries
    THEN /\ user' = [user EXCEPT ![u].attempt = @ + 1]
         /\ Record(0, 1, 0)
         /\ UNCHANGED <<createOnly, main, probe>>
    ELSE Throw(u, "notFound", 0, 1)

\* Mutant of NotFound: gives up one poll early.
NotFoundOffByOne(u) ==
    IF user[u].attempt + 1 < ConsistencyRetries
    THEN /\ user' = [user EXCEPT ![u].attempt = @ + 1]
         /\ UNCHANGED <<createOnly, main, probe, stats>>
    ELSE Throw(u, "notFound", 0, 1)

\* retryWithConsistency: a 404 is tried again, up to the configured number.
NotFound(u) ==
    IF user[u].attempt < ConsistencyRetries
    THEN /\ user' = [user EXCEPT ![u].attempt = @ + 1]
         /\ UNCHANGED <<createOnly, main, probe, stats>>
    ELSE Throw(u, "notFound", 0, 1)

ChatStored(u) == chatPlace[ChatOf(u)] = "stored"
MessageStored(u) == messagePlace[MessageOf(u)] = "stored"

\* The server's side of POST .../chats and .../messages; its answer is a step of
\* its own.
Posted(u) ==
    /\ user' = [user EXCEPT ![u].posted = TRUE]
    /\ UNCHANGED <<createOnly, main, probe, stats>>

CreateApp(u) ==
    /\ Calls(u, "createApp")
    /\ Succeed(u)
    /\ UNCHANGED <<serverVars, budgetVars>>

FindApp(u) ==
    /\ Calls(u, "findApp")
    /\ Succeed(u)
    /\ UNCHANGED <<serverVars, budgetVars>>

CreateChat(u) ==
    /\ Calls(u, "createChat")
    /\ \/ /\ ~user[u].posted
          /\ Chats!Publish(ChatOf(u))
          /\ Posted(u)
       \/ /\ user[u].posted
          /\ Chats!Answer(ChatOf(u))
          /\ Succeed(u)
    /\ UNCHANGED <<messagePlace, messageAnswered, budgetVars>>

FindChat(u) ==
    /\ Calls(u, "findChat")
    /\ IF ChatStored(u) THEN Succeed(u) ELSE NotFound(u)
    /\ UNCHANGED <<serverVars, budgetVars>>

\* The list of an app that exists is answered, with whatever chats are stored.
FindAllChats(u) ==
    /\ Calls(u, "findAllChats")
    /\ Succeed(u)
    /\ UNCHANGED <<serverVars, budgetVars>>

\* The server looks the chat up first; a 404 is not tried again here.
CreateMessage(u) ==
    /\ Calls(u, "createMessage")
    /\ \/ /\ ~user[u].posted /\ ChatStored(u)
          /\ Messages!Publish(MessageOf(u))
          /\ Posted(u)
       \/ /\ ~user[u].posted /\ ~ChatStored(u)
          /\ Throw(u, "notFound", 0, 1)
          /\ UNCHANGED <<messagePlace, messageAnswered>>
       \/ /\ user[u].posted
          /\ Messages!Answer(MessageOf(u))
          /\ Succeed(u)
    /\ UNCHANGED <<chatPlace, chatAnswered, budgetVars>>

FindMessage(u) ==
    /\ Calls(u, "findMessage")
    /\ IF ChatStored(u) /\ MessageStored(u) THEN Succeed(u) ELSE NotFound(u)
    /\ UNCHANGED <<serverVars, budgetVars>>

FindAllMessages(u) ==
    /\ Calls(u, "findAllMessages")
    /\ IF ChatStored(u) THEN Succeed(u) ELSE NotFound(u)
    /\ UNCHANGED <<serverVars, budgetVars>>

\* The call fails: refused, timed out, answered with another error, or its
\* answer is lost after the server did its part.  Not tried again.
CallFails(u) ==
    /\ main = "running"
    /\ user[u].state = "working"
    /\ faults < MaxFaults
    /\ faults' = faults + 1
    /\ Throw(u, "failed", 0, 1)
    /\ UNCHANGED <<serverVars, malformed>>

\* A 2xx answer without the token or number: a success is recorded, then the
\* failure, and the failure again by the catch around both.
MalformedAnswer(u) ==
    /\ main = "running"
    /\ user[u].state = "working"
    /\ Workflow[user[u].step] = "createApp" \/ user[u].posted
    /\ malformed < MaxMalformed
    /\ malformed' = malformed + 1
    /\ Throw(u, "malformed", 1, 2)
    /\ UNCHANGED <<serverVars, faults>>

-----------------------------------------------------------------------------
UserStep(u) ==
    \/ CreateApp(u) \/ FindApp(u) \/ CreateChat(u) \/ FindChat(u) \/ FindAllChats(u)
    \/ CreateMessage(u) \/ FindMessage(u) \/ FindAllMessages(u)

\* Meanwhile the consumers store the rows, in any order.
StoreChats ==
    /\ \E k \in ChatKeys : Chats!Store(k) \/ Chats!Park(k) \/ Chats!Resend(k)
    /\ UNCHANGED <<createOnly, main, probe, user, stats, messagePlace, messageAnswered, budgetVars>>

StoreMessages ==
    /\ \E k \in MessageKeys : Messages!Store(k) \/ Messages!Park(k) \/ Messages!Resend(k)
    /\ UNCHANGED <<createOnly, main, probe, user, stats, chatPlace, chatAnswered, budgetVars>>

Next ==
    \/ ServerAnswers \/ ConnectionRefused \/ Report \/ Interrupt
    \/ \E u \in Users : UserStep(u) \/ CallFails(u) \/ MalformedAnswer(u)
    \/ StoreChats \/ StoreMessages

Spec == Init /\ [][Next]_vars

\* axios' timeout ends every call, so each user goes on and so does the main
\* program.  Nothing is assumed of the server.
Fairness ==
    /\ WF_vars(ServerAnswers \/ ConnectionRefused)
    /\ WF_vars(Report)
    /\ \A u \in Users : WF_vars(UserStep(u))

FairSpec == Spec /\ Fairness

-----------------------------------------------------------------------------
(***************************************************************************)
(* Properties                                                              *)
(***************************************************************************)

\* User u's call number step of operation op is over: it moved on, or stopped there.
Over(u, op, step) ==
    \/ op < user[u].op
    \/ op = user[u].op /\ step < user[u].step
    \/ op = user[u].op /\ step = user[u].step /\ user[u].state # "working"

\* The calls that are over, polls of one call not counted.
CallsOver ==
    {c \in ChatKeys \X (1 .. Len(Workflow)) : Over(c[1][1], c[1][2], c[2])}

\* A user that reads gives up on a row that is not there yet only after all its
\* polls: the delay between 202 and the row alone does not end its work at once.
RetriedBeforeGivingUp ==
    \A u \in Users :
        user[u].error = "notFound" /\ ~createOnly => user[u].attempt = ConsistencyRetries

\* What a user has found it will find again: only the first look at a chat or a
\* message may fail for good, never a later call that needs the same chat.  In
\* CREATE_ONLY mode the first look is the post of the first message.
FoundStaysFound ==
    \A u \in Users :
        user[u].error = "notFound" =>
            IF createOnly THEN MessageOf(u)[2] = 1
            ELSE Workflow[user[u].step] \in {"findChat", "findMessage"}

\* The report adds up: "Total Operations" counts each call of each user once,
\* however often it polled and however the users interleave (but a malformed
\* answer three times), and a run without errors comes to the expected number.
ReportAddsUp ==
    /\ stats.total = Cardinality(CallsOver) + 2 * malformed
    /\ main = "report" /\ stats.failed = 0 => stats.total = ExpectedOperations

\* The test ends, and its report then covers every user, whatever the server
\* makes of the events: also if it never stores one.
TestEnds ==
    <>(\/ main \in {"exit", "interrupted"}
       \/ main = "report" /\ stats.completedUsers = Cardinality(Users))
=============================================================================
