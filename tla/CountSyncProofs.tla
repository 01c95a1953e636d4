-------------------------- MODULE CountSyncProofs --------------------------
(***************************************************************************)
(* Theorems about CountSync, for every set of owners, any number of        *)
(* overlapping runs of the job, and every bound.                           *)
(***************************************************************************)
EXTENDS CountSync, Integers, TLAPS

Counts == [Owners -> 0 .. MaxCount]

\* Zero counts are counts.
LEMMA ZeroCounts == Zero \in Counts
  BY SyncBounds DEF Zero, Counts

\* The types hold at the start.
LEMMA TypeInit == Init => TypeOK
  BY SyncBounds DEF Init, TypeOK, Idle, JobPc, Zero

\* The steps of a run keep the types; column and read stay counts.
LEMMA TypeJob ==
    ASSUME TypeOK, NEW j \in Jobs, JobStep(j) \/ SyncFails(j)
    PROVE  TypeOK'
<1> USE SyncBounds, ZeroCounts DEF TypeOK, Counts, JobPc
<1>1. CASE GetKeys(j)
  <2>1. {o \in Owners : cnt[o] > 0} \subseteq Owners
    OBVIOUS
  <2> QED  BY <1>1, <2>1 DEF GetKeys
<1>2. CASE GetValues(j)
  <2>1. Values(job[j].keys) \in Counts
    BY DEF Values
  <2>2. UNCHANGED <<cnt, column, peak, faults, restarts>>
    BY <1>2 DEF GetValues
  <2>3. job' \in [Jobs -> [pc : JobPc, keys : SUBSET Owners, read : Counts]]
    <3>1. Idle \in [pc : JobPc, keys : SUBSET Owners, read : Counts]
      BY DEF Idle
    <3>2. [job[j] EXCEPT !.pc = "update", !.read = Values(job[j].keys)]
            \in [pc : JobPc, keys : SUBSET Owners, read : Counts]
      BY <2>1
    <3> QED  BY <1>2, <3>1, <3>2 DEF GetValues
  <2> QED  BY <2>2, <2>3
<1>3. CASE BulkUpdate(j)
  <2>1. Merge(job[j].read) \in Counts
    BY DEF Merge
  <2>2. Idle \in [pc : JobPc, keys : SUBSET Owners, read : Counts]
    BY DEF Idle
  <2> QED  BY <1>3, <2>1, <2>2 DEF BulkUpdate
<1>4. CASE SyncFails(j)
  <2>1. Idle \in [pc : JobPc, keys : SUBSET Owners, read : Counts]
    BY DEF Idle
  <2> QED  BY <1>4, <2>1 DEF SyncFails
<1> QED  BY <1>1, <1>2, <1>3, <1>4 DEF JobStep

\* Every step keeps the types.
LEMMA TypeStep == TypeOK /\ [Next]_vars => TypeOK'
<1> SUFFICES ASSUME TypeOK, [Next]_vars PROVE TypeOK'
  OBVIOUS
<1>1. ASSUME NEW o \in Owners, Count(o)  PROVE TypeOK'
  <2>1. cnt[o] + 1 \in 0 .. MaxCount
    BY <1>1, SyncBounds DEF TypeOK, Count
  <2> QED  BY <1>1, <2>1 DEF TypeOK, Count
<1>2. CASE RedisRestart
  BY <1>2, SyncBounds DEF TypeOK, RedisRestart
<1>3. CASE UNCHANGED vars
  BY <1>3 DEF TypeOK, vars
<1> QED  BY <1>1, <1>2, <1>3, TypeJob DEF Next

\* Every variable keeps its type, for any number of owners and overlapping runs.
THEOREM TypeCorrect == Spec => []TypeOK
  BY TypeInit, TypeStep, PTL DEF Spec

-----------------------------------------------------------------------------
(***************************************************************************)
(* What a run has read may be stale when it is written, but it was a count  *)
(* of that owner once; peak never comes down, so it still bounds it.       *)
(***************************************************************************)
PeakInv ==
    \A o \in Owners :
        /\ cnt[o] <= peak[o]
        /\ column[o] <= peak[o]
        /\ \A j \in Jobs : job[j].read[o] <= peak[o]

\* A step of the job moves values within the peak: from counters to its copy, from its copy to columns.
LEMMA PeakJob ==
    ASSUME TypeOK, PeakInv, NEW j \in Jobs, JobStep(j) \/ SyncFails(j)
    PROVE  PeakInv'
<1>0. /\ UNCHANGED <<cnt, peak>>
      /\ \A i \in Jobs : i # j => job'[i] = job[i]
  BY DEF JobStep, GetKeys, GetValues, BulkUpdate, SyncFails, TypeOK
<1>1. \A o \in Owners : 0 <= peak[o]
  BY DEF TypeOK
<1>2. \A o \in Owners : job'[j].read[o] <= peak[o]
  <2>1. CASE job'[j] = Idle
    BY <1>1, <2>1 DEF Idle, Zero
  <2>2. CASE GetKeys(j)
    BY <2>2 DEF GetKeys, TypeOK, PeakInv
  <2>3. CASE GetValues(j) /\ job'[j] # Idle
    <3>1. job'[j].read = Values(job[j].keys)
      BY <2>3 DEF GetValues, TypeOK
    <3> QED  BY <1>1, <3>1 DEF Values, PeakInv
  <2>4. CASE BulkUpdate(j) \/ SyncFails(j)
    BY <2>1, <2>4 DEF BulkUpdate, SyncFails, TypeOK
  <2> QED  BY <2>1, <2>2, <2>3, <2>4 DEF JobStep
<1>3. \A o \in Owners : column'[o] <= peak[o]
  <2>1. CASE BulkUpdate(j)
    BY <2>1 DEF BulkUpdate, Merge, PeakInv
  <2>2. CASE UNCHANGED column
    BY <2>2 DEF PeakInv
  <2> QED  BY <2>1, <2>2 DEF JobStep, GetKeys, GetValues, SyncFails
<1> QED  BY <1>0, <1>2, <1>3 DEF PeakInv

\* Every step keeps PeakInv.
LEMMA PeakStep == TypeOK /\ PeakInv /\ [Next]_vars => PeakInv'
<1> SUFFICES ASSUME TypeOK, PeakInv, [Next]_vars PROVE PeakInv'
  OBVIOUS
<1>1. ASSUME NEW o \in Owners, Count(o)  PROVE PeakInv'
  <2>1. UNCHANGED <<column, job>>
    BY <1>1 DEF Count
  <2>2. \A p \in Owners : peak[p] <= peak'[p] /\ cnt'[p] <= peak'[p]
    BY <1>1, SyncBounds DEF Count, TypeOK, PeakInv
  <2>3. \A p \in Owners : peak'[p] \in Int /\ peak[p] \in Int /\ column[p] \in Int
            /\ \A j \in Jobs : job[j].read[p] \in Int
    BY <1>1, SyncBounds DEF Count, TypeOK
  <2> QED  BY <2>1, <2>2, <2>3 DEF PeakInv
<1>2. CASE RedisRestart
  <2>1. UNCHANGED <<column, job, peak>> /\ \A o \in Owners : cnt'[o] <= cnt[o] /\ cnt'[o] \in Int
    BY <1>2, SyncBounds DEF RedisRestart
  <2>2. \A o \in Owners : cnt[o] \in Int /\ peak[o] \in Int
    BY SyncBounds DEF TypeOK
  <2> QED  BY <2>1, <2>2 DEF PeakInv
<1>3. CASE UNCHANGED vars
  BY <1>3 DEF PeakInv, vars
<1> QED  BY <1>1, <1>2, <1>3, PeakJob DEF Next

\* However many runs overlap, and however often Redis restarts between KEYS,
\* MGET and UPDATE, a column only shows a count its own counter has had.
THEOREM ColumnsTrue == Spec => []ColumnWithinPeak
<1>1. Init => TypeOK /\ PeakInv
  <2>1. ASSUME Init  PROVE PeakInv
    <3>1. \A o \in Owners : cnt[o] = 0 /\ column[o] = 0 /\ peak[o] = 0
      BY <2>1 DEF Init, Zero
    <3>2. \A j \in Jobs : job[j].read = Zero
      BY <2>1 DEF Init, Idle
    <3>3. \A o \in Owners, j \in Jobs : job[j].read[o] = 0
      BY <3>2 DEF Zero
    <3>4. 0 <= 0
      OBVIOUS
    <3> QED  BY <3>1, <3>3, <3>4, Zenon DEF PeakInv
  <2> QED  BY <2>1, TypeInit
<1>2. TypeOK /\ PeakInv /\ [Next]_vars => TypeOK' /\ PeakInv'
  BY TypeStep, PeakStep
<1>3. PeakInv => ColumnWithinPeak
  BY DEF PeakInv, ColumnWithinPeak
<1> QED  BY <1>1, <1>2, <1>3, PTL DEF Spec

\* No run ever writes a zero over a count: the rows of its UPDATE are those it
\* read a count for.
THEOREM CountsNeverWiped == Spec => NeverZeroed
<1>1. TypeOK /\ [Next]_vars => [\A o \in Owners : column'[o] = 0 => column[o] = 0]_vars
  <2> SUFFICES ASSUME TypeOK, Next
               PROVE  \A o \in Owners : column'[o] = 0 => column[o] = 0
    OBVIOUS
  <2>1. ASSUME NEW j \in Jobs, BulkUpdate(j)
        PROVE  \A o \in Owners : column'[o] = 0 => column[o] = 0
    BY <2>1 DEF BulkUpdate, Merge
  <2>2. CASE UNCHANGED column
    BY <2>2
  <2> QED
    BY <2>1, <2>2 DEF Next, JobStep, Count, GetKeys, GetValues, SyncFails, RedisRestart
<1> QED  BY <1>1, TypeInit, TypeStep, PTL DEF Spec, NeverZeroed
=============================================================================
