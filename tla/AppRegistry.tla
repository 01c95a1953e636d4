---------------------------- MODULE AppRegistry ----------------------------
(***************************************************************************)
(* The applications: POST /apps draws a token until the unique index takes *)
(* it (AppService.create), PATCH /apps/:token finds, updates and finds     *)
(* again (AppService.update), and the cron job writes chat_count into the  *)
(* same rows (AppRepository.bulkUpdateChatCounts).  Every await is a step  *)
(* boundary; no row is locked for longer than one statement.               *)
(***************************************************************************)
EXTENDS Naturals, FiniteSets

CONSTANTS
    Creates,        \* the POST requests clients may send
    Patches,        \* the PATCH requests clients may send
    Tokens,         \* values generateUniqueTokenValue may return
    MaxAttempts,    \* maxAttempts: 10 in the code
    MaxCount,       \* the highest count the cron job writes (bound)
    MaxFaults,      \* failed calls and lost replies (bound)
    None

ASSUME RegistryBounds ==
    /\ MaxAttempts \in Nat \ {0}
    /\ MaxCount \in Nat
    /\ MaxFaults \in Nat

\* Requests are known by themselves: a POST is no PATCH.
ASSUME RequestsAssumption ==
    /\ IsFiniteSet(Creates)
    /\ IsFiniteSet(Patches)
    /\ Creates \cap Patches = {}

VARIABLES
    apps,       \* table apps: the row under each id, or None
    create,     \* the POST requests
    patch,      \* the PATCH requests
    counted,    \* history: the count the cron job wrote last, per id
    wrote,      \* history: the order in which names were written, 0 for never
    faults

vars == <<apps, create, patch, counted, wrote, faults>>

\* The id of a row: the POST and its attempt that inserted it.
Ids == Creates \X (1 .. MaxAttempts)

\* A name is the request that brings it; each is written at most once.
Names == Creates \cup Patches

Row == [token : Tokens, name : Names, chat_count : 0 .. MaxCount]

ASSUME NoneAssumption == None \notin Row

CreatePc == {"insert", "created", "conflict", "failed"}
PatchPc == {"find", "update", "refind", "done", "notFound", "failed"}

\* found is the row PATCH read first, answer the id and name it ends with.
TypeOK ==
    /\ apps \in [Ids -> Row \cup {None}]
    /\ create \in [Creates -> [pc : CreatePc, attempts : 0 .. MaxAttempts,
                               token : Tokens \cup {None}]]
    /\ patch \in [Patches -> [pc : PatchPc, id : Ids \cup {None},
                              found : Row \cup {None},
                              answer : (Ids \X Names) \cup {None}]]
    /\ counted \in [Ids -> 0 .. MaxCount]
    /\ wrote \in [Names -> 0 .. Cardinality(Names)]
    /\ faults \in 0 .. MaxFaults

Init ==
    /\ apps = [i \in Ids |-> None]
    /\ create = [c \in Creates |-> [pc |-> "insert", attempts |-> 0, token |-> None]]
    /\ patch = [p \in Patches |->
                    [pc |-> "find", id |-> None, found |-> None, answer |-> None]]
    /\ counted = [i \in Ids |-> 0]
    /\ wrote = [n \in Names |-> 0]
    /\ faults = 0

Stored == {i \in Ids : apps[i] # None}

\* appRepository.findByToken
findByToken(t) == {i \in Stored : apps[i].token = t}

Write(name) ==
    wrote' = [wrote EXCEPT ![name] = Cardinality({n \in Names : wrote[n] > 0}) + 1]

\* App.generateToken draws a token for every attempt: any value of the range,
\* whether or not another app has it.
generateUniqueTokenValue == Tokens

Fault == faults < MaxFaults /\ faults' = faults + 1

-----------------------------------------------------------------------------
(***************************************************************************)
(* AppService.create                                                       *)
(***************************************************************************)
Insert(c, t) ==
    /\ apps' = [apps EXCEPT ![<<c, create[c].attempts + 1>>] =
                    [token |-> t, name |-> c, chat_count |-> 0]]
    /\ Write(c)

\* Mutant of Taken: the migration makes an index that is not unique.
TakenByNone(t) == FALSE

\* The unique index on token.
Taken(t) == findByToken(t) # {}

\* Mutant of Collide: the counter starts anew where the loop should end.
CollideRestarts(c) ==
    create' = [create EXCEPT ![c].attempts = (@ + 1) % MaxAttempts]

\* Mutant of Collide: attempts <= maxAttempts, one attempt too many.
CollideOffByOne(c) ==
    create' = [create EXCEPT ![c].attempts = @ + 1,
                             ![c].pc = IF create[c].attempts + 1 > MaxAttempts
                                       THEN "conflict" ELSE "insert"]

\* SequelizeUniqueConstraintError: the next attempt, or a 409 after the last.
Collide(c) ==
    create' = [create EXCEPT ![c].attempts = @ + 1,
                             ![c].pc = IF create[c].attempts + 1 = MaxAttempts
                                       THEN "conflict" ELSE "insert"]

\* One attempt, with a token the hook draws for it.
CreateApp(c) ==
    /\ create[c].pc = "insert"
    /\ \E t \in generateUniqueTokenValue :
        \/ /\ Taken(t)
           /\ Collide(c)
           /\ UNCHANGED <<apps, wrote>>
        \/ /\ ~Taken(t)
           /\ Insert(c, t)
           /\ create' = [create EXCEPT ![c].pc = "created", ![c].token = t]
    /\ UNCHANGED <<patch, counted, faults>>

\* Mutant of Rethrow: any error is answered with another attempt.
RetryOnAnyError(c) == Collide(c)

\* Any other error goes to the client as a 500.
Rethrow(c) == create' = [create EXCEPT ![c].pc = "failed"]

\* The call fails, before or after the row was inserted.
CreateFails(c) ==
    /\ create[c].pc = "insert"
    /\ \/ UNCHANGED <<apps, wrote>>
       \/ \E t \in generateUniqueTokenValue : ~Taken(t) /\ Insert(c, t)
    /\ Rethrow(c)
    /\ Fault
    /\ UNCHANGED <<patch, counted>>

-----------------------------------------------------------------------------
(***************************************************************************)
(* AppService.update                                                       *)
(***************************************************************************)
FindApp(p) ==
    /\ patch[p].pc = "find"
    /\ \E t \in Tokens :
        \/ /\ findByToken(t) = {}
           /\ patch' = [patch EXCEPT ![p].pc = "notFound"]
        \/ \E i \in findByToken(t) :
            patch' = [patch EXCEPT ![p].pc = "update", ![p].id = i, ![p].found = apps[i]]
    /\ UNCHANGED <<apps, create, counted, wrote, faults>>

\* Mutant of SetName: save() of the whole row that was found.
SaveRow(p) == apps' = [apps EXCEPT ![patch[p].id] = [patch[p].found EXCEPT !.name = p]]

\* UPDATE apps SET name WHERE id: no other column.
SetName(p) == apps' = [apps EXCEPT ![patch[p].id].name = p]

UpdateApp(p) ==
    /\ patch[p].pc = "update"
    /\ SetName(p)
    /\ Write(p)
    /\ patch' = [patch EXCEPT ![p].pc = "refind"]
    /\ UNCHANGED <<create, counted, faults>>

\* Mutant of FindUpdated: the row found before the update is the answer.
AnswerFound(p) ==
    /\ patch[p].pc = "refind"
    /\ patch' = [patch EXCEPT ![p].pc = "done",
                              ![p].answer = <<patch[p].id, patch[p].found.name>>]
    /\ UNCHANGED <<apps, create, counted, wrote, faults>>

\* The updated row is looked up once more, by its token.
FindUpdated(p) ==
    /\ patch[p].pc = "refind"
    /\ \E i \in findByToken(patch[p].found.token) :
        patch' = [patch EXCEPT ![p].pc = "done", ![p].answer = <<i, apps[i].name>>]
    /\ UNCHANGED <<apps, create, counted, wrote, faults>>

\* A call fails, the UPDATE perhaps after it was executed.
PatchFails(p) ==
    /\ patch[p].pc \in {"find", "update", "refind"}
    /\ \/ UNCHANGED <<apps, wrote>>
       \/ patch[p].pc = "update" /\ SetName(p) /\ Write(p)
    /\ patch' = [patch EXCEPT ![p].pc = "failed"]
    /\ Fault
    /\ UNCHANGED <<create, counted>>

\* The cron job's UPDATE, for one of its rows.
SyncCount(i) ==
    /\ i \in Stored
    /\ \E n \in 1 .. MaxCount :
        /\ apps' = [apps EXCEPT ![i].chat_count = n]
        /\ counted' = [counted EXCEPT ![i] = n]
    /\ UNCHANGED <<create, patch, wrote, faults>>

-----------------------------------------------------------------------------
PatchStep(p) == FindApp(p) \/ UpdateApp(p) \/ FindUpdated(p)

Next ==
    \/ \E c \in Creates : CreateApp(c) \/ CreateFails(c)
    \/ \E p \in Patches : PatchStep(p) \/ PatchFails(p)
    \/ \E i \in Ids : SyncCount(i)

Spec == Init /\ [][Next]_vars

\* A request that has begun is carried on by the event loop; a PATCH need not come.
FairSpec ==
    Spec /\ \A c \in Creates : WF_vars(CreateApp(c))

-----------------------------------------------------------------------------
(***************************************************************************)
(* Properties                                                              *)
(***************************************************************************)

\* The token a client was given leads to the app it created and to no other, also
\* when concurrent POSTs drew the same one.
TokenFindsItsApp ==
    \A c \in Creates : create[c].pc = "created" =>
        \E i \in Ids : i[1] = c /\ findByToken(create[c].token) = {i}

\* A POST stores one app at most, whatever replies are lost between its attempts,
\* and none at all if it is answered with a 409.
OneAppPerPost ==
    \A c \in Creates :
        LET mine == {i \in Stored : i[1] = c} IN
        /\ Cardinality(mine) <= 1
        /\ create[c].pc = "conflict" => mine = {}

\* PATCH answers with the app it changed and never with a name older than its own,
\* only with its own or one that a concurrent PATCH wrote after it.
PatchReadsItsWrite ==
    \A p \in Patches : patch[p].pc = "done" =>
        /\ patch[p].answer[1] = patch[p].id
        /\ wrote[patch[p].answer[2]] >= wrote[p]

\* A PATCH between two awaits does not take back a count the cron job wrote.
CountsSurvivePatches == \A i \in Stored : apps[i].chat_count = counted[i]

\* Token collisions do not keep a POST busy for ever.
CreateEnds == \A c \in Creates : <>(create[c].pc # "insert")
=============================================================================
