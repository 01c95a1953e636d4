-------------------------- MODULE AppRegistryProofs --------------------------
(***************************************************************************)
(* Theorems about AppRegistry, for any number of POSTs, PATCHes, tokens,   *)
(* attempts and faults.                                                    *)
(***************************************************************************)
EXTENDS AppRegistry, FiniteSetTheorems, TLAPS

\* The row of c, if it has one: its last attempt inserted it.
RowOf(c) == <<c, create[c].attempts + 1>>

\* A row is there only after its POST has ended, under the id of the last attempt.
CreateInv ==
    /\ \A c \in Creates :
        create[c].pc \in {"insert", "created", "failed"} => create[c].attempts < MaxAttempts
    /\ \A i \in Stored : i = RowOf(i[1]) /\ create[i[1]].pc \in {"created", "failed"}
    /\ \A c \in Creates : create[c].pc = "created" =>
        RowOf(c) \in Stored /\ apps[RowOf(c)].token = create[c].token

\* The unique index does its work.
TokenInv == \A i, j \in Stored : apps[i].token = apps[j].token => i = j

\* Counts are the cron job's, and a row starts with none.
CountInv ==
    /\ CountsSurvivePatches
    /\ \A i \in Ids \ Stored : counted[i] = 0

Written == {n \in Names : wrote[n] > 0}

\* A name is new until its request writes it, and the last one written is the highest.
WroteInv ==
    /\ \A n \in Names : wrote[n] <= Cardinality(Written)
    /\ \A c \in Creates : create[c].pc = "insert" => wrote[c] = 0
    /\ \A p \in Patches : patch[p].pc \in {"find", "update"} => wrote[p] = 0

\* Between its calls a PATCH holds on to its row, by id and by token; once it
\* has written, the row's name is its own or a newer one.
PatchInv ==
    /\ \A p \in Patches : patch[p].pc \in {"update", "refind"} =>
        /\ patch[p].id \in Stored
        /\ patch[p].found \in Row
        /\ patch[p].found.token = apps[patch[p].id].token
    /\ \A p \in Patches : patch[p].pc = "refind" =>
        wrote[apps[patch[p].id].name] >= wrote[p]
    /\ \A p \in Patches : patch[p].pc = "done" => patch[p].answer \in Ids \X Names

IInv ==
    /\ TypeOK
    /\ CreateInv /\ TokenInv /\ CountInv
    /\ WroteInv /\ PatchInv /\ PatchReadsItsWrite

-----------------------------------------------------------------------------
\* The requests bring finitely many names.
LEMMA NamesFinite == IsFiniteSet(Names)
  BY RequestsAssumption, FS_Union DEF Names

\* Nothing is written yet.
LEMMA InvInit == Init => IInv
<1> SUFFICES ASSUME Init PROVE IInv
  OBVIOUS
<1> USE RegistryBounds
<1>1. TypeOK
  <2>1. 0 \in 0 .. Cardinality(Names)
    BY NamesFinite, FS_CardinalityType
  <2> QED  BY <2>1 DEF Init, TypeOK, CreatePc, PatchPc
<1>2. Stored = {} /\ Written = {}
  BY DEF Init, Stored, Written
<1>3. CreateInv /\ TokenInv
  BY <1>2 DEF Init, CreateInv, TokenInv
<1>4. CountInv
  BY <1>2 DEF Init, CountInv, CountsSurvivePatches
<1>5. WroteInv
  BY <1>2, FS_EmptySet DEF Init, WroteInv, Names
<1>6. PatchInv /\ PatchReadsItsWrite
  BY DEF Init, PatchInv, PatchReadsItsWrite
<1> QED  BY <1>1, <1>3, <1>4, <1>5, <1>6 DEF IInv

\* A name written for the first time is the newest, and no other moves.
LEMMA WriteNew ==
    ASSUME IInv, NEW name \in Names, wrote[name] = 0, Write(name)
    PROVE  /\ wrote' \in [Names -> 0 .. Cardinality(Names)]
           /\ \A n \in Names : n # name => wrote'[n] = wrote[n]
           /\ \A n \in Names : wrote'[n] <= Cardinality(Written')
           /\ \A n \in Names : wrote'[n] <= wrote'[name] /\ wrote[n] <= wrote'[n]
<1> DEFINE k == Cardinality(Written)
<1>1. wrote' = [wrote EXCEPT ![name] = k + 1] /\ wrote \in [Names -> Nat]
  BY NamesFinite, FS_CardinalityType DEF Write, Written, IInv, TypeOK
<1>2. Written' = Written \cup {name} /\ name \notin Written
  <2>1. k + 1 > 0
    BY NamesFinite, FS_Subset, FS_CardinalityType DEF Written
  <2> QED  BY <1>1, <2>1 DEF Written
<1>3. IsFiniteSet(Written) /\ k \in Nat /\ Cardinality(Written') = k + 1
  <2>1. IsFiniteSet(Written) /\ k \in Nat
    BY NamesFinite, FS_Subset, FS_CardinalityType DEF Written
  <2> QED  BY <1>2, <2>1, FS_AddElement
<1>4. k + 1 <= Cardinality(Names) /\ Cardinality(Names) \in Nat
  <2>1. Written' \in SUBSET Names
    BY DEF Written
  <2> QED  BY <1>3, <2>1, NamesFinite, FS_Subset, FS_CardinalityType
<1>5. \A n \in Names : wrote[n] <= k /\ wrote[n] \in 0 .. Cardinality(Names)
  BY DEF IInv, WroteInv, TypeOK
<1> HIDE DEF k
<1> QED  BY <1>1, <1>3, <1>4, <1>5

-----------------------------------------------------------------------------
\* A POST whose attempts are over, or that tries once more, without a row.
LEMMA StepNoRow ==
    ASSUME IInv, NEW c \in Creates, create[c].pc = "insert",
           NEW rec, create' = [create EXCEPT ![c] = rec],
           rec \in [pc : CreatePc, attempts : 0 .. MaxAttempts, token : Tokens \cup {None}],
           rec.pc \in {"insert", "failed", "conflict"},
           rec.pc \in {"insert", "failed"} => rec.attempts < MaxAttempts,
           UNCHANGED <<apps, patch, counted, wrote>>, UNCHANGED faults \/ Fault
    PROVE  IInv'
<1> USE RegistryBounds
<1>1. TypeOK'
  BY DEF IInv, TypeOK, Fault
<1>2. /\ create'[c] = rec
      /\ \A d \in Creates : d # c => create'[d] = create[d]
  BY DEF IInv, TypeOK
<1>3. Stored' = Stored /\ Written' = Written
  BY DEF Stored, Written
<1>4. CreateInv'
  <2>1. \A i \in Stored : i[1] # c
    BY DEF IInv, CreateInv
  <2>2. \A d \in Creates : d # c => RowOf(d)' = RowOf(d)
    BY <1>2 DEF RowOf
  <2>3. \A i \in Stored : i[1] \in Creates
    BY DEF Stored, Ids
  <2> QED  BY <1>2, <1>3, <2>1, <2>2, <2>3 DEF IInv, CreateInv
<1>5. TokenInv' /\ CountInv'
  BY <1>3 DEF IInv, TokenInv, CountInv, CountsSurvivePatches
<1>6. WroteInv'
  BY <1>2, <1>3 DEF IInv, WroteInv
<1>7. PatchInv' /\ PatchReadsItsWrite'
  BY <1>3 DEF IInv, PatchInv, PatchReadsItsWrite
<1> QED  BY <1>1, <1>4, <1>5, <1>6, <1>7 DEF IInv

\* A POST whose row is inserted, whether or not its client learns of it.
LEMMA StepInsert ==
    ASSUME IInv, NEW c \in Creates, create[c].pc = "insert",
           NEW t \in Tokens, ~Taken(t), Insert(c, t),
           NEW rec, create' = [create EXCEPT ![c] = rec],
           rec \in [pc : CreatePc, attempts : 0 .. MaxAttempts, token : Tokens \cup {None}],
           rec.pc = "failed" \/ (rec.pc = "created" /\ rec.token = t),
           rec.attempts = create[c].attempts,
           UNCHANGED <<patch, counted>>, UNCHANGED faults \/ Fault
    PROVE  IInv'
<1> USE RegistryBounds
<1> DEFINE new == <<c, create[c].attempts + 1>>
           row == [token |-> t, name |-> c, chat_count |-> 0]
<1>1. new \in Ids /\ row \in Row /\ c \in Names
  BY DEF IInv, TypeOK, CreateInv, Ids, Row, Names
<1>2. new \notin Stored
  BY <1>1 DEF IInv, CreateInv
<1>3. /\ apps'[new] = row
      /\ \A i \in Ids : i # new => apps'[i] = apps[i]
      /\ apps' \in [Ids -> Row \cup {None}]
  BY <1>1 DEF Insert, IInv, TypeOK
<1>4. Stored' = Stored \cup {new}
  BY <1>1, <1>3, NoneAssumption DEF Stored
<1>5. wrote[c] = 0
  BY DEF IInv, WroteInv
<1>6. /\ wrote' \in [Names -> 0 .. Cardinality(Names)]
      /\ \A n \in Names : n # c => wrote'[n] = wrote[n]
      /\ \A n \in Names : wrote'[n] <= Cardinality(Written')
      /\ \A n \in Names : wrote'[n] <= wrote'[c] /\ wrote[n] <= wrote'[n]
  BY <1>1, <1>5, WriteNew DEF Insert
<1>7. /\ create'[c] = rec
      /\ \A d \in Creates : d # c => create'[d] = create[d]
  BY DEF IInv, TypeOK
<1>8. TypeOK'
  BY <1>3, <1>6 DEF IInv, TypeOK, Fault
<1>9. CreateInv'
  <2>1. \A d \in Creates : RowOf(d)' = RowOf(d)
    BY <1>7 DEF RowOf
  <2>2. RowOf(c) = new /\ new[1] = c
    BY DEF RowOf
  <2>3. \A i \in Stored : i \in Ids /\ i[1] \in Creates /\ i[1] # c
    BY DEF IInv, CreateInv, Stored, Ids
  <2>4. \A d \in Creates : create'[d].pc \in {"insert", "created", "failed"} =>
            create'[d].attempts < MaxAttempts
    BY <1>7 DEF IInv, CreateInv
  <2>5. \A i \in Stored' : i = RowOf(i[1])' /\ create'[i[1]].pc \in {"created", "failed"}
    BY <1>4, <1>7, <2>1, <2>2, <2>3 DEF IInv, CreateInv
  <2>6. \A d \in Creates : create'[d].pc = "created" =>
            RowOf(d) \in Stored' /\ apps'[RowOf(d)].token = create'[d].token
    <3>1. CASE \A d \in Creates : d # c => RowOf(d) # new
      BY <1>3, <1>4, <1>7, <2>2, <2>3, <3>1 DEF IInv, CreateInv, Stored
    <3> QED  BY <3>1 DEF RowOf
  <2> QED  BY <2>1, <2>4, <2>5, <2>6 DEF CreateInv
<1>10. TokenInv'
  <2>1. \A i \in Stored : apps[i].token # t
    BY DEF Taken, findByToken
  <2>2. \A i \in Stored : apps'[i] = apps[i]
    BY <1>2, <1>3 DEF Stored
  <2> QED  BY <1>3, <1>4, <2>1, <2>2 DEF IInv, TokenInv
<1>11. CountInv'
  <2>1. counted[new] = 0
    BY <1>1, <1>2 DEF IInv, CountInv
  <2>2. \A i \in Stored : apps'[i] = apps[i]
    BY <1>2, <1>3 DEF Stored
  <2> QED  BY <1>3, <1>4, <2>1, <2>2 DEF IInv, CountInv, CountsSurvivePatches
<1>12. WroteInv'
  <2>1. \A p \in Patches : p \in Names /\ p # c
    BY RequestsAssumption DEF Names
  <2> QED  BY <1>6, <1>7, <2>1 DEF IInv, WroteInv, Names
<1>13. PatchInv' /\ PatchReadsItsWrite'
  <2>1. \A p \in Patches : p \in Names /\ wrote'[p] = wrote[p]
    BY <1>6, RequestsAssumption DEF Names
  <2>2. \A i \in Stored : i \in Ids /\ apps'[i] = apps[i] /\ apps[i].name \in Names
    BY <1>2, <1>3, NoneAssumption DEF Stored, IInv, TypeOK, Row
  <2>3. \A n \in Names : wrote[n] \in Nat /\ wrote'[n] \in Nat
    BY <1>6, <1>8, NamesFinite, FS_CardinalityType DEF IInv, TypeOK
  <2>4. PatchInv'
    <3>1. \A p \in Patches : patch[p].pc = "refind" =>
            wrote'[apps'[patch[p].id].name] >= wrote'[p]
      BY <1>6, <2>1, <2>2, <2>3 DEF IInv, PatchInv
    <3> QED  BY <1>4, <2>2, <3>1 DEF IInv, PatchInv
  <2>5. PatchReadsItsWrite'
    <3>1. \A p \in Patches : patch[p].pc = "done" => patch[p].answer[2] \in Names
      BY DEF IInv, PatchInv
    <3> QED  BY <1>6, <2>1, <2>3, <3>1 DEF IInv, PatchReadsItsWrite
  <2> QED  BY <2>4, <2>5
<1> QED  BY <1>8, <1>9, <1>10, <1>11, <1>12, <1>13 DEF IInv

-----------------------------------------------------------------------------
\* A PATCH reads, or ends: it has a row if it needs one, and an answer it may give.
LEMMA StepReads ==
    ASSUME IInv, NEW p \in Patches,
           NEW rec, patch' = [patch EXCEPT ![p] = rec],
           rec \in [pc : PatchPc, id : Ids \cup {None}, found : Row \cup {None},
                    answer : (Ids \X Names) \cup {None}],
           \/ rec.pc \in {"notFound", "failed"}
           \/ /\ patch[p].pc = "find" /\ rec.pc = "update"
              /\ rec.id \in Stored /\ rec.found = apps[rec.id]
           \/ /\ rec.pc = "done" /\ rec.answer \in Ids \X Names
              /\ rec.answer[1] = rec.id /\ wrote[rec.answer[2]] >= wrote[p],
           UNCHANGED <<apps, create, counted, wrote>>, UNCHANGED faults \/ Fault
    PROVE  IInv'
<1> USE RegistryBounds
<1>1. TypeOK'
  BY DEF IInv, TypeOK, Fault
<1>2. /\ patch'[p] = rec
      /\ \A q \in Patches : q # p => patch'[q] = patch[q]
  BY DEF IInv, TypeOK
<1>3. Stored' = Stored /\ Written' = Written
  BY DEF Stored, Written
<1>4. CreateInv' /\ TokenInv' /\ CountInv'
  BY <1>3 DEF IInv, CreateInv, TokenInv, CountInv, CountsSurvivePatches, RowOf
<1>5. WroteInv'
  BY <1>2, <1>3 DEF IInv, WroteInv
<1>6. PatchInv'
  <2>1. \A i \in Stored : apps[i] \in Row
    BY DEF Stored, IInv, TypeOK
  <2> QED  BY <1>2, <1>3, <2>1 DEF IInv, PatchInv
<1>7. PatchReadsItsWrite'
  BY <1>2 DEF IInv, PatchReadsItsWrite
<1> QED  BY <1>1, <1>4, <1>5, <1>6, <1>7 DEF IInv

\* A PATCH writes its name, whether or not it learns of it.
LEMMA StepSetName ==
    ASSUME IInv, NEW p \in Patches, patch[p].pc = "update", SetName(p), Write(p),
           NEW pc \in {"refind", "failed"}, patch' = [patch EXCEPT ![p].pc = pc],
           UNCHANGED <<create, counted>>, UNCHANGED faults \/ Fault
    PROVE  IInv'
<1> USE RegistryBounds
<1> DEFINE id == patch[p].id
<1>1. /\ id \in Stored /\ id \in Ids /\ apps[id] \in Row
      /\ p \in Names /\ wrote[p] = 0
  BY DEF IInv, PatchInv, WroteInv, Stored, TypeOK, Names
<1>2. /\ apps'[id] = [apps[id] EXCEPT !.name = p]
      /\ \A i \in Ids : i # id => apps'[i] = apps[i]
      /\ apps' \in [Ids -> Row \cup {None}]
  BY <1>1 DEF SetName, IInv, TypeOK, Row
<1>3. /\ apps'[id] \in Row /\ apps'[id].name = p
      /\ apps'[id].token = apps[id].token /\ apps'[id].chat_count = apps[id].chat_count
  BY <1>1, <1>2 DEF Row
<1>4. Stored' = Stored
  BY <1>1, <1>2, <1>3, NoneAssumption DEF Stored
<1>5. /\ wrote' \in [Names -> 0 .. Cardinality(Names)]
      /\ \A n \in Names : n # p => wrote'[n] = wrote[n]
      /\ \A n \in Names : wrote'[n] <= Cardinality(Written')
      /\ \A n \in Names : wrote'[n] <= wrote'[p] /\ wrote[n] <= wrote'[n]
  BY <1>1, WriteNew
<1>6. /\ patch'[p] = [patch[p] EXCEPT !.pc = pc]
      /\ \A q \in Patches : q # p => patch'[q] = patch[q]
  BY DEF IInv, TypeOK
<1>7. TypeOK'
  BY <1>2, <1>5, <1>6 DEF IInv, TypeOK, PatchPc, Fault
<1>8. \A i \in Stored : /\ i \in Ids /\ apps'[i] \in Row
                        /\ apps'[i].token = apps[i].token
                        /\ apps'[i].chat_count = apps[i].chat_count
                        /\ i = id \/ apps'[i] = apps[i]
  BY <1>2, <1>3 DEF Stored, IInv, TypeOK
<1>9. CreateInv'
  BY <1>4, <1>8 DEF IInv, CreateInv, RowOf
<1>10. TokenInv'
  BY <1>4, <1>8 DEF IInv, TokenInv
<1>11. CountInv'
  BY <1>4, <1>8 DEF IInv, CountInv, CountsSurvivePatches
<1>12. WroteInv'
  <2>1. \A c \in Creates : c \in Names /\ c # p
    BY RequestsAssumption DEF Names
  <2>2. \A q \in Patches : q \in Names
    BY DEF Names
  <2>3. patch'[p].pc \in {"refind", "failed"}
    BY <1>6 DEF IInv, TypeOK
  <2> QED  BY <1>5, <1>6, <2>1, <2>2, <2>3 DEF IInv, WroteInv
<1>13. /\ \A q \in Patches : q \in Names
       /\ \A n \in Names : wrote[n] \in Nat /\ wrote'[n] \in Nat
  <2>1. Cardinality(Names) \in Nat
    BY NamesFinite, FS_CardinalityType
  <2>2. \A q \in Patches : q \in Names
    BY DEF Names
  <2> QED  BY <1>5, <2>1, <2>2 DEF IInv, TypeOK
<1>14. PatchInv'
  <2>1. ASSUME NEW q \in Patches, patch'[q].pc \in {"update", "refind"}
        PROVE  /\ patch'[q].id \in Stored' /\ patch'[q].found \in Row
               /\ patch'[q].found.token = apps'[patch'[q].id].token
    <3>1. /\ patch[q].pc \in {"update", "refind"}
          /\ patch'[q].id = patch[q].id /\ patch'[q].found = patch[q].found
      BY <1>6, <2>1 DEF IInv, TypeOK
    <3> QED  BY <1>4, <1>8, <3>1 DEF IInv, PatchInv
  <2>2. ASSUME NEW q \in Patches, patch'[q].pc = "refind"
        PROVE  wrote'[apps'[patch'[q].id].name] >= wrote'[q]
    <3>1. patch'[q].id \in Stored /\ patch'[q].id = patch[q].id
      BY <1>4, <1>6, <2>1, <2>2 DEF IInv, TypeOK
    <3>2. CASE patch[q].id = id
      BY <1>3, <1>5, <3>1, <3>2, <1>13, <1>1
    <3>3. CASE patch[q].id # id
      <4>1. q # p /\ patch'[q] = patch[q] /\ apps'[patch[q].id] = apps[patch[q].id]
        BY <1>6, <1>8, <3>1, <3>3
      <4>2. wrote[apps[patch[q].id].name] >= wrote[q] /\ apps[patch[q].id].name \in Names
        BY <1>8, <2>2, <3>1, <4>1 DEF IInv, PatchInv, Row
      <4> QED  BY <1>5, <1>13, <4>1, <4>2
    <3> QED  BY <3>2, <3>3
  <2>3. \A q \in Patches : patch'[q].pc = "done" => patch'[q].answer \in Ids \X Names
    BY <1>6 DEF IInv, PatchInv, TypeOK
  <2> QED  BY <2>1, <2>2, <2>3 DEF PatchInv
<1>15. PatchReadsItsWrite'
  <2> SUFFICES ASSUME NEW q \in Patches, patch'[q].pc = "done"
               PROVE  /\ patch'[q].answer[1] = patch'[q].id
                      /\ wrote'[patch'[q].answer[2]] >= wrote'[q]
    BY DEF PatchReadsItsWrite
  <2>1. q # p /\ patch'[q] = patch[q]
    BY <1>6 DEF IInv, TypeOK
  <2>2. patch[q].answer[2] \in Names /\ wrote[patch[q].answer[2]] >= wrote[q]
    BY <2>1 DEF IInv, PatchInv, PatchReadsItsWrite
  <2> QED  BY <1>5, <1>13, <2>1, <2>2 DEF IInv, PatchReadsItsWrite
<1> QED  BY <1>7, <1>9, <1>10, <1>11, <1>12, <1>14, <1>15 DEF IInv

\* The cron job's UPDATE changes the count of one row.
LEMMA StepSync ==
    ASSUME IInv, NEW i \in Ids, SyncCount(i)
    PROVE  IInv'
<1>1. PICK n \in 1 .. MaxCount :
            /\ i \in Stored
            /\ apps' = [apps EXCEPT ![i].chat_count = n]
            /\ counted' = [counted EXCEPT ![i] = n]
            /\ UNCHANGED <<create, patch, wrote, faults>>
  BY DEF SyncCount
<1>2. /\ apps[i] \in Row /\ n \in 0 .. MaxCount
      /\ apps'[i] = [apps[i] EXCEPT !.chat_count = n] /\ apps'[i] \in Row
      /\ \A j \in Ids : j # i => apps'[j] = apps[j]
  BY <1>1, RegistryBounds DEF Stored, IInv, TypeOK, Row
<1>3. Stored' = Stored /\ Written' = Written
  BY <1>1, <1>2, NoneAssumption DEF Stored, Written
<1>4. \A j \in Stored : j \in Ids /\ apps'[j].token = apps[j].token
                        /\ apps'[j].name = apps[j].name
  BY <1>2 DEF Stored, Row
<1>5. TypeOK'
  BY <1>1, <1>2 DEF IInv, TypeOK
<1>6. CreateInv' /\ TokenInv'
  BY <1>1, <1>3, <1>4 DEF IInv, CreateInv, TokenInv, RowOf
<1>7. CountInv'
  <2>1. counted'[i] = n /\ apps'[i].chat_count = n
    BY <1>1, <1>2 DEF IInv, TypeOK, Row
  <2>2. \A j \in Ids : j # i => counted'[j] = counted[j]
    BY <1>1 DEF IInv, TypeOK
  <2> QED  BY <1>1, <1>2, <1>3, <1>4, <2>1, <2>2 DEF IInv, CountInv, CountsSurvivePatches
<1>8. WroteInv' /\ PatchReadsItsWrite'
  BY <1>1, <1>3 DEF IInv, WroteInv, PatchReadsItsWrite
<1>9. PatchInv'
  BY <1>1, <1>3, <1>4 DEF IInv, PatchInv
<1> QED  BY <1>5, <1>6, <1>7, <1>8, <1>9 DEF IInv

-----------------------------------------------------------------------------
\* A POST inserts, collides or fails.
LEMMA InvCreate ==
    ASSUME IInv, NEW c \in Creates, CreateApp(c) \/ CreateFails(c)
    PROVE  IInv'
<1> USE RegistryBounds
<1>1. create[c].pc = "insert" /\ create[c].attempts < MaxAttempts
  BY DEF IInv, CreateInv, CreateApp, CreateFails
<1>2. create[c] \in [pc : CreatePc, attempts : 0 .. MaxAttempts, token : Tokens \cup {None}]
  BY DEF IInv, TypeOK
<1>3. ASSUME CreateApp(c), NEW t \in Tokens, Taken(t), Collide(c),
             UNCHANGED <<apps, wrote>>
      PROVE  IInv'
  <2> DEFINE rec == [create[c] EXCEPT !.attempts = @ + 1,
                        !.pc = IF create[c].attempts + 1 = MaxAttempts
                               THEN "conflict" ELSE "insert"]
  <2>1. create' = [create EXCEPT ![c] = rec]
    BY <1>3 DEF Collide
  <2>2. /\ rec \in [pc : CreatePc, attempts : 0 .. MaxAttempts, token : Tokens \cup {None}]
        /\ rec.pc \in {"insert", "failed", "conflict"}
        /\ rec.pc \in {"insert", "failed"} => rec.attempts < MaxAttempts
    <3>1. create[c].attempts + 1 \in 0 .. MaxAttempts
      BY <1>1, <1>2
    <3>2. /\ rec.attempts = create[c].attempts + 1 /\ rec.token = create[c].token
          /\ rec.pc = IF create[c].attempts + 1 = MaxAttempts THEN "conflict" ELSE "insert"
      BY <1>2
    <3>3. /\ rec.pc \in {"insert", "failed", "conflict"}
          /\ rec.pc \in {"insert", "failed"} => rec.attempts < MaxAttempts
      BY <1>1, <1>2, <3>2
    <3>4. rec \in [pc : CreatePc, attempts : 0 .. MaxAttempts, token : Tokens \cup {None}]
      BY <1>2, <3>1 DEF CreatePc
    <3> QED  BY <3>3, <3>4
  <2>3. UNCHANGED <<apps, patch, counted, wrote, faults>>
    BY <1>3 DEF CreateApp
  <2> HIDE DEF rec
  <2> QED  BY <1>1, <2>1, <2>2, <2>3, StepNoRow
<1>4. ASSUME CreateApp(c), NEW t \in Tokens, ~Taken(t), Insert(c, t),
             create' = [create EXCEPT ![c].pc = "created", ![c].token = t]
      PROVE  IInv'
  <2> DEFINE rec == [create[c] EXCEPT !.pc = "created", !.token = t]
  <2>1. create' = [create EXCEPT ![c] = rec]
    BY <1>4
  <2>2. /\ rec \in [pc : CreatePc, attempts : 0 .. MaxAttempts, token : Tokens \cup {None}]
        /\ rec.pc = "created" /\ rec.token = t /\ rec.attempts = create[c].attempts
    BY <1>2 DEF CreatePc
  <2>3. ~Taken(t) /\ Insert(c, t) /\ UNCHANGED <<patch, counted>> /\ UNCHANGED faults
    BY <1>4 DEF CreateApp
  <2> HIDE DEF rec
  <2> QED  BY <1>1, <2>1, <2>2, <2>3, StepInsert
<1>5. CASE CreateFails(c)
  <2> DEFINE rec == [create[c] EXCEPT !.pc = "failed"]
  <2>1. create' = [create EXCEPT ![c] = rec] /\ UNCHANGED <<patch, counted>> /\ Fault
    BY <1>5 DEF CreateFails, Rethrow
  <2>2. /\ rec \in [pc : CreatePc, attempts : 0 .. MaxAttempts, token : Tokens \cup {None}]
        /\ rec.pc = "failed" /\ rec.attempts = create[c].attempts
    BY <1>2 DEF CreatePc
  <2> HIDE DEF rec
  <2>3. CASE UNCHANGED <<apps, wrote>>
    BY <1>1, <2>1, <2>2, <2>3, StepNoRow
  <2>4. ASSUME NEW t \in Tokens, ~Taken(t), Insert(c, t)  PROVE IInv'
    BY <1>1, <2>1, <2>2, <2>4, StepInsert
  <2> QED  BY <1>5, <2>3, <2>4 DEF CreateFails, generateUniqueTokenValue
<1> QED  BY <1>3, <1>4, <1>5 DEF CreateApp, generateUniqueTokenValue

\* The calls of a PATCH, and their failures.
LEMMA InvPatch ==
    ASSUME IInv, NEW p \in Patches, PatchStep(p) \/ PatchFails(p)
    PROVE  IInv'
<1> DEFINE Rec == [pc : PatchPc, id : Ids \cup {None}, found : Row \cup {None},
                   answer : (Ids \X Names) \cup {None}]
<1>1. patch[p] \in Rec
  BY DEF IInv, TypeOK
<1>2. \A i \in Stored : i \in Ids /\ apps[i] \in Row /\ apps[i].name \in Names
  BY DEF Stored, IInv, TypeOK, Row
<1>3. CASE FindApp(p)
  <2>1. UNCHANGED <<apps, create, counted, wrote, faults>> /\ patch[p].pc = "find"
    BY <1>3 DEF FindApp
  <2>2. CASE patch' = [patch EXCEPT ![p].pc = "notFound"]
    <3> DEFINE rec == [patch[p] EXCEPT !.pc = "notFound"]
    <3>1. patch' = [patch EXCEPT ![p] = rec] /\ rec \in Rec /\ rec.pc = "notFound"
      BY <1>1, <2>2 DEF PatchPc
    <3> HIDE DEF rec
    <3> QED  BY <2>1, <3>1, StepReads
  <2>3. ASSUME NEW i \in Stored,
               patch' = [patch EXCEPT ![p].pc = "update", ![p].id = i, ![p].found = apps[i]]
        PROVE  IInv'
    <3> DEFINE rec == [patch[p] EXCEPT !.pc = "update", !.id = i, !.found = apps[i]]
    <3>1. patch' = [patch EXCEPT ![p] = rec]
      BY <2>3
    <3>2. rec \in Rec /\ rec.pc = "update" /\ rec.id = i /\ rec.found = apps[i]
      BY <1>1, <1>2 DEF PatchPc
    <3> HIDE DEF rec
    <3> QED  BY <2>1, <3>1, <3>2, StepReads
  <2> QED  BY <1>3, <2>2, <2>3 DEF FindApp, findByToken
<1>4. CASE UpdateApp(p)
  BY <1>4, StepSetName DEF UpdateApp
<1>5. CASE FindUpdated(p)
  <2>1. /\ UNCHANGED <<apps, create, counted, wrote, faults>>
        /\ patch[p].pc = "refind"
    BY <1>5 DEF FindUpdated
  <2>2. PICK i \in Stored :
            /\ apps[i].token = patch[p].found.token
            /\ patch' = [patch EXCEPT ![p].pc = "done", ![p].answer = <<i, apps[i].name>>]
    BY <1>5 DEF FindUpdated, findByToken
  <2>3. i = patch[p].id /\ wrote[apps[i].name] >= wrote[p]
    BY <2>1, <2>2 DEF IInv, PatchInv, TokenInv
  <2> DEFINE rec == [patch[p] EXCEPT !.pc = "done", !.answer = <<i, apps[i].name>>]
  <2>4. patch' = [patch EXCEPT ![p] = rec]
    BY <2>2
  <2>5. <<i, apps[i].name>> \in Ids \X Names
    BY <1>2
  <2>6. /\ rec \in Rec /\ rec.pc = "done" /\ rec.answer \in Ids \X Names
        /\ rec.answer[1] = rec.id /\ wrote[rec.answer[2]] >= wrote[p]
    BY <1>1, <2>3, <2>5 DEF PatchPc
  <2> HIDE DEF rec
  <2> QED  BY <2>1, <2>4, <2>6, StepReads
<1>6. CASE PatchFails(p)
  <2>1. patch' = [patch EXCEPT ![p].pc = "failed"] /\ UNCHANGED <<create, counted>> /\ Fault
    BY <1>6 DEF PatchFails
  <2>2. CASE UNCHANGED <<apps, wrote>>
    <3> DEFINE rec == [patch[p] EXCEPT !.pc = "failed"]
    <3>1. patch' = [patch EXCEPT ![p] = rec] /\ rec \in Rec /\ rec.pc = "failed"
      BY <1>1, <2>1 DEF PatchPc
    <3> HIDE DEF rec
    <3> QED  BY <2>1, <2>2, <3>1, StepReads
  <2>3. CASE patch[p].pc = "update" /\ SetName(p) /\ Write(p)
    BY <2>1, <2>3, StepSetName
  <2> QED  BY <1>6, <2>2, <2>3 DEF PatchFails
<1> QED  BY <1>3, <1>4, <1>5, <1>6 DEF PatchStep

\* Every step keeps the invariant.
LEMMA InvStep == IInv /\ [Next]_vars => IInv'
<1> SUFFICES ASSUME IInv, [Next]_vars PROVE IInv'
  OBVIOUS
<1>1. CASE UNCHANGED vars
  BY <1>1 DEF vars, IInv, TypeOK, CreateInv, TokenInv, CountInv, CountsSurvivePatches,
     WroteInv, Written, PatchInv, PatchReadsItsWrite, Stored, RowOf
<1> QED  BY <1>1, InvCreate, InvPatch, StepSync DEF Next

\* The inductive invariant holds throughout.
THEOREM Inductive == Spec => []IInv
  BY InvInit, InvStep, PTL DEF Spec

-----------------------------------------------------------------------------
\* Every variable keeps its type, the history of the writes included.
THEOREM TypeCorrect == Spec => []TypeOK
<1>1. IInv => TypeOK
  BY DEF IInv
<1> QED  BY <1>1, Inductive, PTL

\* A client's token leads to its app and no other, for any number of POSTs that
\* draw the same tokens at once.
THEOREM TokensLeadHome == Spec => []TokenFindsItsApp
<1>1. IInv => TokenFindsItsApp
  <2> SUFFICES ASSUME IInv, NEW c \in Creates, create[c].pc = "created"
               PROVE  \E i \in Ids : i[1] = c /\ findByToken(create[c].token) = {i}
    BY DEF TokenFindsItsApp
  <2>1. RowOf(c) \in Stored /\ apps[RowOf(c)].token = create[c].token
    BY DEF IInv, CreateInv
  <2>2. RowOf(c) \in Ids /\ RowOf(c)[1] = c
    BY <2>1 DEF Stored, RowOf
  <2>3. findByToken(create[c].token) = {RowOf(c)}
    BY <2>1 DEF findByToken, IInv, TokenInv
  <2> QED  BY <2>2, <2>3
<1> QED  BY <1>1, Inductive, PTL

\* A POST stores one app at most and a 409 none, for any number of attempts and
\* lost replies.
THEOREM OneRowPerPost == Spec => []OneAppPerPost
<1>1. IInv => OneAppPerPost
  <2> SUFFICES ASSUME IInv, NEW c \in Creates
               PROVE  /\ Cardinality({i \in Stored : i[1] = c}) <= 1
                      /\ create[c].pc = "conflict" => {i \in Stored : i[1] = c} = {}
    BY DEF OneAppPerPost
  <2> DEFINE mine == {i \in Stored : i[1] = c}
  <2>1. mine \subseteq {RowOf(c)}
    BY DEF IInv, CreateInv
  <2>2. IsFiniteSet({RowOf(c)}) /\ Cardinality({RowOf(c)}) = 1
    BY FS_Singleton
  <2>3. Cardinality(mine) <= 1
    BY <2>1, <2>2, FS_Subset
  <2>4. create[c].pc = "conflict" => mine = {}
    BY DEF IInv, CreateInv
  <2> QED  BY <2>3, <2>4
<1> QED  BY <1>1, Inductive, PTL

\* A PATCH answers with its app under its own name or a newer one, whatever
\* other PATCHes and the cron job write between its three calls.
THEOREM AnswersAreFresh == Spec => []PatchReadsItsWrite
<1>1. IInv => PatchReadsItsWrite
  BY DEF IInv
<1> QED  BY <1>1, Inductive, PTL

\* No PATCH takes back a count of the cron job, however the two overlap.
THEOREM CountsKept == Spec => []CountsSurvivePatches
<1>1. IInv => CountsSurvivePatches
  BY DEF IInv, CountInv
<1> QED  BY <1>1, Inductive, PTL
==============================================================================
