----------------------------- MODULE CountSync -----------------------------
(***************************************************************************)
(* CronService: the jobs that copy the Redis counters to a MySQL column,   *)
(* app:{id}:chat_count_actual to apps.chat_count every 30 minutes, and     *)
(* chat:{id}:message_count_actual to chats.message_count at :00 and :40.   *)
(* The two are the same program under other names, so one module stands    *)
(* for both: an owner is an app, or a chat.                                *)
(*                                                                         *)
(* Each service instance runs the job on its own clock and nothing keeps   *)
(* two runs apart; Jobs are the runs that may be under way at once.  KEYS, *)
(* MGET and the UPDATE are three calls, and counters move between them.    *)
(***************************************************************************)
EXTENDS Naturals

CONSTANTS
    Owners,     \* ids of the rows that have a counter
    Jobs,       \* runs of the job that may overlap
    MaxCount,   \* how far a counter goes (bound)
    MaxFaults,  \* failed calls and crashes (bound)
    MaxRestarts \* Redis restarts (bound)

ASSUME SyncBounds == MaxCount \in Nat /\ MaxFaults \in Nat /\ MaxRestarts \in Nat

VARIABLES
    cnt,        \* the Redis counters; 0 is a missing key, INCR never leaves 0
    column,     \* chat_count / message_count
    job,        \* the runs
    peak,       \* history: the highest value each counter ever had
    faults, restarts

vars == <<cnt, column, job, peak, faults, restarts>>

JobPc == {"idle", "mget", "update"}

\* read is what MGET returned, 0 for null and for owners KEYS did not list.
TypeOK ==
    /\ cnt \in [Owners -> 0 .. MaxCount]
    /\ column \in [Owners -> 0 .. MaxCount]
    /\ job \in [Jobs -> [pc : JobPc, keys : SUBSET Owners,
                         read : [Owners -> 0 .. MaxCount]]]
    /\ peak \in [Owners -> 0 .. MaxCount]
    /\ faults \in 0 .. MaxFaults
    /\ restarts \in 0 .. MaxRestarts

Zero == [o \in Owners |-> 0]
Idle == [pc |-> "idle", keys |-> {}, read |-> Zero]

Init ==
    /\ cnt = Zero
    /\ column = Zero
    /\ job = [j \in Jobs |-> Idle]
    /\ peak = Zero
    /\ faults = 0
    /\ restarts = 0

-----------------------------------------------------------------------------
\* A consumer counts one more chat or message of o (Phase 2 of the handlers).
Count(o) ==
    /\ cnt[o] < MaxCount
    /\ cnt' = [cnt EXCEPT ![o] = @ + 1]
    /\ peak' = [peak EXCEPT ![o] = IF cnt[o] + 1 > @ THEN cnt[o] + 1 ELSE @]
    /\ UNCHANGED <<column, job, faults, restarts>>

\* KEYS; with no counters at all there is nothing to sync.
GetKeys(j) ==
    LET keys == {o \in Owners : cnt[o] > 0} IN
    /\ job[j].pc = "idle"
    /\ keys # {}
    /\ job' = [job EXCEPT ![j].pc = "mget", ![j].keys = keys]
    /\ UNCHANGED <<cnt, column, peak, faults, restarts>>

\* Mutant of Values: the nulls are dropped before keys and values are paired, so
\* an owner may get the value of another.
ValuesShifted(keys) ==
    [o \in Owners |-> IF o \in keys /\ \E p \in keys : cnt[p] > 0
                      THEN cnt[CHOOSE p \in keys : cnt[p] > 0] ELSE 0]

\* MGET of the keys found.
Values(keys) == [o \in Owners |-> IF o \in keys THEN cnt[o] ELSE 0]

\* Keys that are gone since KEYS come back as null and are left out, like zeros.
GetValues(j) ==
    LET read == Values(job[j].keys) IN
    /\ job[j].pc = "mget"
    /\ job' = [job EXCEPT ![j] =
                IF read = Zero THEN Idle ELSE [@ EXCEPT !.pc = "update", !.read = read]]
    /\ UNCHANGED <<cnt, column, peak, faults, restarts>>

\* Mutant of Merge: UPDATE ... SET c = CASE id ... END with no WHERE clause.
MergeAll(read) == read

\* Mutant of Merge: a column is only ever raised.
MergeGreatest(read) ==
    [o \in Owners |-> IF read[o] > column[o] THEN read[o] ELSE column[o]]

\* The rows one UPDATE ... CASE id ... WHERE id IN (...) changes.
Merge(read) == [o \in Owners |-> IF read[o] > 0 THEN read[o] ELSE column[o]]

BulkUpdate(j) ==
    /\ job[j].pc = "update"
    /\ column' = Merge(job[j].read)
    /\ job' = [job EXCEPT ![j] = Idle]
    /\ UNCHANGED <<cnt, peak, faults, restarts>>

\* Mutant of SyncFails: the error parks the run in a state nothing leaves.
SyncParks(j) ==
    /\ job[j].pc # "idle"
    /\ faults < MaxFaults
    /\ job' = [job EXCEPT ![j].pc = "error"]
    /\ faults' = faults + 1
    /\ UNCHANGED <<cnt, column, peak, restarts>>

\* A call fails, which is logged, or the instance dies: the run is over, and
\* the next tick starts a new one.
SyncFails(j) ==
    /\ job[j].pc # "idle"
    /\ faults < MaxFaults
    /\ job' = [job EXCEPT ![j] = Idle]
    /\ faults' = faults + 1
    /\ UNCHANGED <<cnt, column, peak, restarts>>

\* Redis comes back from an old snapshot or from none: any counter may be lower.
RedisRestart ==
    /\ restarts < MaxRestarts
    /\ \E old \in [Owners -> 0 .. MaxCount] :
        /\ \A o \in Owners : old[o] <= cnt[o]
        /\ cnt' = old
    /\ restarts' = restarts + 1
    /\ UNCHANGED <<column, job, peak, faults>>

JobStep(j) == GetKeys(j) \/ GetValues(j) \/ BulkUpdate(j)

Next ==
    \/ \E o \in Owners : Count(o)
    \/ \E j \in Jobs : JobStep(j) \/ SyncFails(j)
    \/ RedisRestart

Spec == Init /\ [][Next]_vars

\* Every tick comes, and a run goes on to its end.
FairSpec == Spec /\ \A j \in Jobs : WF_vars(JobStep(j))

-----------------------------------------------------------------------------
(***************************************************************************)
(* Properties                                                              *)
(***************************************************************************)

\* However runs overlap, counters move and Redis restarts between KEYS, MGET and
\* UPDATE, a column only shows a count its own counter has had.
ColumnWithinPeak == \A o \in Owners : column[o] <= peak[o]

\* A count that was synced once is not wiped: a counter that a Redis restart
\* lost is skipped by the job, and no run touches rows it has read nothing for.
NeverZeroed == [][\A o \in Owners : column'[o] = 0 => column[o] = 0]_vars

\* Once counters and faults come to rest, every owner that has a counter shows
\* it, whatever stale values overlapping runs wrote before.
ColumnsConverge == \A o \in Owners : <>[](cnt[o] > 0 => column[o] = cnt[o])
=============================================================================
