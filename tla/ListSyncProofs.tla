---------------------------- MODULE ListSyncProofs ----------------------------
(***************************************************************************)
(* Theorems about ListSync, for any entries, threads and batch limit.  The *)
(* argument: as long as an entry is changed one thread at a time, the      *)
(* outbox has at most one row for it, whoever holds a job for it holds a   *)
(* copy of that row, and the row carries what the user wants unless a      *)
(* thread is on its way to replace it (the invariant Serial).              *)
(***************************************************************************)
EXTENDS ListSync, TLAPS, FiniteSetTheorems, SequenceTheorems

Queue    == {r.job : r \in outbox}
Entry(j) == j.change.entry
Calm     == Entries \ tangled

\* Thread p has saved a change of e that is not in the outbox.
Unsaved(p, e) ==
  /\ draft[p].entry = e
  /\ \/ pc[p] \in {"complete", "enqueue"}
     \/ pc[p] = "reread" /\ local[e].version # 0

\* Thread p knows that AniList carried out its job for e.
Answered(p, e) == pc[p] = "applied" /\ Entry(Head(jobs[p])) = e

\* An id stands for one key, in the outbox and in the hands of the threads.
IdsAgree ==
  \A p \in Threads : \A i \in DOMAIN jobs[p] :
    /\ jobs[p][i].id < nextId
    /\ \A j \in Queue : j.id = jobs[p][i].id => SameKey(j.change, jobs[p][i].change)

\* One thread at a time.
Alone(e) == \A p, q \in Threads : Busy(p, e) /\ Busy(q, e) => p = q

\* One row, and whoever holds a job holds a copy of it.
Held(e) ==
  /\ \A j, k \in Queue : Entry(j) = e /\ Entry(k) = e => j = k
  /\ \A p \in Threads : \A i \in DOMAIN jobs[p] :
       Entry(jobs[p][i]) = e => jobs[p][i] \in Queue
  /\ \A p \in Threads : \A i, k \in DOMAIN jobs[p] :
       Entry(jobs[p][i]) = e /\ Entry(jobs[p][k]) = e => i = k

\* What is queued is wanted, what is missing is queued, unless a thread is
\* about to queue it; and that thread, and an answer, are about the wanted.
Settled(e) ==
  /\ \A j \in Queue :
       Entry(j) = e => j.change.version = wanted[e] \/ \E p \in Threads : Unsaved(p, e)
  /\ wanted[e] # remote[e] =>
       \/ \E j \in Queue : Entry(j) = e /\ j.change.version = wanted[e]
       \/ \E p \in Threads : Unsaved(p, e)
  /\ \A p \in Threads :
       Unsaved(p, e) =>
         /\ pc[p] = "enqueue" => draft[p].version = wanted[e]
         /\ pc[p] = "reread" => local[e].version = wanted[e]
  /\ \A p \in Threads : Answered(p, e) => remote[e] = wanted[e]

Serial == IdsAgree /\ \A e \in Calm : Alone(e) /\ Held(e) /\ Settled(e)

-----------------------------------------------------------------------------
(* What the helpers guarantee.                                             *)

LEMMA NoDraftType == NoDraft \in Changes
BY ConstantsAssumption DEF ConstantsAssumption, NoDraft, Changes, Actions

LEMMA AbsentType == Absent \in [version: Nat, mal: MalIds]
BY ConstantsAssumption DEF ConstantsAssumption, Absent

\* An image of a finite set is finite.
LEMMA ImageFinite ==
  ASSUME NEW S, IsFiniteSet(S), NEW f, f = [x \in S |-> f[x]]
  PROVE  IsFiniteSet({f[x] : x \in S})
<1> DEFINE T == {f[x] : x \in S}
<1>1. f \in Surjection(S, T)
  BY DEF Surjection
<1> QED
  BY <1>1, FS_Surjection

\* A step that changes only ages keeps the table well formed.
LEMMA AgesType ==
  ASSUME OutboxOK, NEW f \in [outbox -> Nat],
         outbox' = {[r EXCEPT !.age = f[r]] : r \in outbox},
         nextId' = nextId
  PROVE  OutboxOK' /\ Queue' = Queue
<1> DEFINE g == [r \in outbox |-> [r EXCEPT !.age = f[r]]]
<1>1. \A r \in outbox : g[r] \in Rows /\ g[r].job = r.job
  BY DEF OutboxOK, Rows
<1>2. outbox' = {g[r] : r \in outbox}
  OBVIOUS
<1>3. g = [r \in outbox |-> g[r]]
  OBVIOUS
<1> HIDE DEF g
<1>4. IsFiniteSet(outbox')
  BY <1>2, <1>3, ImageFinite DEF OutboxOK
<1>5. Queue' = Queue
  BY <1>1, <1>2 DEF Queue
<1>6. \A q, r \in outbox' :
        q # r => q.job.id # r.job.id /\ ~SameKey(q.job.change, r.job.change)
  BY <1>1, <1>2 DEF OutboxOK
<1>7. outbox' \subseteq Rows /\ \A r \in outbox' : r.job.id < nextId'
  BY <1>1, <1>2 DEF OutboxOK
<1> QED
  BY <1>4, <1>5, <1>6, <1>7 DEF OutboxOK

LEMMA TouchType ==
  ASSUME OutboxOK, NEW i, outbox' = Touch(i), nextId' = nextId
  PROVE  OutboxOK' /\ Queue' = Queue
<1> DEFINE f == [r \in outbox |-> IF r.job.id = i THEN 0 ELSE r.age]
<1>1. f \in [outbox -> Nat]
  BY DEF OutboxOK, Rows
<1>2. \A r \in outbox : r = [r EXCEPT !.age = r.age]
  BY DEF OutboxOK, Rows
<1>3. outbox' = {[r EXCEPT !.age = f[r]] : r \in outbox}
  BY <1>2 DEF Touch
<1> HIDE DEF f
<1> QED
  BY <1>1, <1>3, AgesType

LEMMA NextSecondType ==
  ASSUME OutboxOK, NextSecond
  PROVE  OutboxOK' /\ Queue' = Queue
<1> DEFINE Younger(r) == {x \in outbox : x.age < r.age}
           ages(r)    == [q \in Younger(r) |-> q.age]
           f == [r \in outbox |-> 1 + Cardinality({q.age : q \in Younger(r)})]
<1>1. ASSUME NEW r \in outbox PROVE 1 + Cardinality({q.age : q \in Younger(r)}) \in Nat
  <2>1. IsFiniteSet(Younger(r))
    BY FS_Subset DEF OutboxOK
  <2>2. ages(r) = [q \in Younger(r) |-> ages(r)[q]]
    OBVIOUS
  <2>3. {ages(r)[q] : q \in Younger(r)} = {q.age : q \in Younger(r)}
    OBVIOUS
  <2>4. IsFiniteSet({ages(r)[q] : q \in Younger(r)})
    <3> HIDE DEF ages, Younger
    <3> QED
      BY <2>1, <2>2, ImageFinite
  <2>5. Cardinality({q.age : q \in Younger(r)}) \in Nat
    BY <2>3, <2>4, FS_CardinalityType
  <2> QED
    BY <2>5
<1>2. f \in [outbox -> Nat]
  BY <1>1
<1>3. outbox' = {[r EXCEPT !.age = f[r]] : r \in outbox} /\ nextId' = nextId
  BY DEF NextSecond
<1> HIDE DEF f
<1> QED
  BY <1>2, <1>3, AgesType

-----------------------------------------------------------------------------
(* Type correctness.                                                       *)

USE DEF memory, disk, asked

LEMMA BeginType ==
  ASSUME TypeOK, NEW p \in Threads, NEW e \in Entries, NEW mal \in MalIds,
         NEW action \in Actions, NEW version \in Nat, NEW label \in Drafting,
         Begin(p, e, mal, action, version, label), jobs' = jobs
  PROVE  /\ pc' \in [Threads -> {"idle"} \cup Drafting \cup Sending]
         /\ draft' \in [Threads -> Changes]
         /\ \A q \in Threads : pc'[q] \in Sending <=> jobs'[q] # <<>>
         /\ tangled' \subseteq Entries
BY DEF TypeOK, Begin, Goto, Changes, Overlap, Drafting, Sending

LEMMA ReturnType ==
  ASSUME TypeOK, NEW p \in Threads, pc[p] \in Drafting, Return(p), jobs' = jobs
  PROVE  /\ pc' \in [Threads -> {"idle"} \cup Drafting \cup Sending]
         /\ draft' \in [Threads -> Changes]
         /\ \A q \in Threads : pc'[q] \in Sending <=> jobs'[q] # <<>>
BY NoDraftType DEF TypeOK, Return, Goto, Drafting, Sending

LEMMA SaveType ==
  ASSUME TypeOK, NEW e \in Entries, NEW mal \in MalIds, Save(e, mal)
  PROVE  /\ local' \in [Entries -> [version: Nat, mal: MalIds]]
         /\ changes' \in Nat
         /\ wanted' \in [Entries -> Nat]
BY DEF TypeOK, Save, Change

LEMMA NextJobType ==
  ASSUME TypeOK, NEW p \in Threads, pc[p] \in Sending, NextJob(p)
  PROVE  /\ pc' \in [Threads -> {"idle"} \cup Drafting \cup Sending]
         /\ jobs' \in [Threads -> Seq(Jobs)]
         /\ \A q \in Threads : Len(jobs'[q]) <= BatchLimit
         /\ \A q \in Threads : pc'[q] \in Sending <=> jobs'[q] # <<>>
<1>1. jobs[p] \in Seq(Jobs) /\ jobs[p] # <<>> /\ Len(jobs[p]) <= BatchLimit
  BY DEF TypeOK
<1>2. /\ Tail(jobs[p]) \in Seq(Jobs)
      /\ Len(Tail(jobs[p])) = Len(jobs[p]) - 1
      /\ Len(jobs[p]) \in Nat \ {0}
  BY <1>1, HeadTailProperties, EmptySeq
<1> DEFINE rest == Tail(jobs[p])
<1>3. Tail(jobs[p]) = <<>> <=> Len(jobs[p]) = 1
  <2>1. rest = <<>> <=> Len(rest) = 0
    BY <1>2, EmptySeq
  <2> QED
    BY <1>2, <2>1
<1>4. BatchLimit \in Nat
  BY ConstantsAssumption DEF ConstantsAssumption
<1> QED
  BY <1>1, <1>2, <1>3, <1>4 DEF TypeOK, NextJob, Goto, Drafting, Sending

LEMMA EnqueueType ==
  ASSUME TypeOK, NEW p \in Threads, Enqueue(p)
  PROVE  TypeOK'
<1> DEFINE c     == draft[p]
           old   == {r \in outbox : SameKey(r.job.change, c)}
           other == {r \in outbox \ old : r.job.change.entry = c.entry}
<1>1. PICK i \in IF old = {} THEN {nextId} ELSE {r.job.id : r \in old} :
           /\ outbox' = (outbox \ old) \cup
                          {[job |-> [id |-> i, change |-> c], age |-> 0]}
           /\ nextId' = IF old = {} THEN nextId + 1 ELSE nextId
           /\ jobs' = [jobs EXCEPT ![p] = <<[id |-> i, change |-> c]>>]
           /\ tangled' = tangled \cup {r.job.change.entry : r \in other}
  BY DEF Enqueue
<1>2. c \in Changes
  BY DEF TypeOK
<1>3. i \in Nat \ {0} /\ i < nextId'
  BY <1>1 DEF TypeOK, OutboxOK, Rows, Jobs
<1>4. ASSUME NEW r \in outbox \ old PROVE r.job.id # i /\ ~SameKey(r.job.change, c)
  <2>1. ~SameKey(r.job.change, c) /\ r.job.id \in Nat /\ r.job.id < nextId
    BY DEF TypeOK, OutboxOK, Rows, Jobs
  <2>2. CASE old = {}
    BY <1>1, <2>1, <2>2
  <2>3. CASE old # {}
    <3>1. PICK o \in old : i = o.job.id
      BY <1>1, <2>3
    <3>2. o # r /\ o \in outbox /\ r \in outbox
      BY <2>1
    <3> QED
      BY <2>1, <3>1, <3>2 DEF TypeOK, OutboxOK
  <2> QED
    BY <2>2, <2>3
<1> DEFINE j == [id |-> i, change |-> c]
           new == [job |-> j, age |-> 0]
<1>5. j \in Jobs /\ new \in Rows /\ new.job.id = i /\ new.job.change = c
  BY <1>2, <1>3 DEF Jobs, Rows
<1>6. OutboxOK'
  <2>1. outbox' = (outbox \ old) \cup {new}
    BY <1>1
  <2>2. IsFiniteSet(outbox')
    BY <2>1, FS_Difference, FS_AddElement DEF TypeOK, OutboxOK
  <2>3. nextId' \in Nat \ {0} /\ nextId <= nextId'
    BY <1>1 DEF TypeOK, OutboxOK
  <2>4. outbox' \subseteq Rows /\ \A r \in outbox' : r.job.id < nextId'
    BY <2>1, <2>3, <1>3, <1>5 DEF TypeOK, OutboxOK, Rows, Jobs
  <2>5. \A q, r \in outbox' :
          q # r => q.job.id # r.job.id /\ ~SameKey(q.job.change, r.job.change)
    <3> SUFFICES ASSUME NEW q \in outbox', NEW r \in outbox', q # r
                 PROVE  q.job.id # r.job.id /\ ~SameKey(q.job.change, r.job.change)
      OBVIOUS
    <3>1. CASE q \in outbox \ old /\ r \in outbox \ old
      BY <3>1 DEF TypeOK, OutboxOK
    <3>2. CASE q \in outbox \ old /\ r = new
      BY <3>2, <1>4, <1>5
    <3>3. CASE q = new /\ r \in outbox \ old
      <4>1. r.job.id # i /\ ~SameKey(r.job.change, c)
        BY <1>4, <3>3
      <4>2. ~SameKey(c, r.job.change)
        BY <4>1 DEF SameKey
      <4> QED
        BY <3>3, <4>1, <4>2, <1>5
    <3> QED
      BY <2>1, <3>1, <3>2, <3>3
  <2> QED
    BY <2>2, <2>3, <2>4, <2>5 DEF OutboxOK
<1>7. jobs' \in [Threads -> Seq(Jobs)] /\ jobs'[p] = <<j>>
  BY <1>1, <1>5 DEF TypeOK
<1>8. tangled' \subseteq Entries
  BY <1>1 DEF TypeOK, OutboxOK, Rows, Jobs, Changes
<1>9. /\ pc' = [pc EXCEPT ![p] = "attempt"]
      /\ draft' \in [Threads -> Changes]
      /\ UNCHANGED <<local, remote, changes, wanted>>
  BY NoDraftType DEF Enqueue, Goto, TypeOK
<1>10. \A q \in Threads : Len(jobs'[q]) <= BatchLimit
  BY <1>1, ConstantsAssumption DEF ConstantsAssumption, TypeOK
<1>11. \A q \in Threads : pc'[q] \in Sending <=> jobs'[q] # <<>>
  BY <1>1, <1>9 DEF TypeOK, Sending
<1> QED
  BY <1>6, <1>7, <1>8, <1>9, <1>10, <1>11 DEF TypeOK, Sending

LEMMA RetryType ==
  ASSUME TypeOK, NEW p \in Threads, Retry(p)
  PROVE  TypeOK'
<1> DEFINE n == IF Cardinality(outbox) < BatchLimit THEN Cardinality(outbox) ELSE BatchLimit
<1>1. n \in Nat \ {0} /\ n <= BatchLimit
  BY FS_CardinalityType, FS_EmptySet, ConstantsAssumption
     DEF ConstantsAssumption, Retry, TypeOK, OutboxOK
<1> HIDE DEF n
<1>2. PICK s \in Oldest(n) :
           /\ jobs' = [jobs EXCEPT ![p] = [i \in 1..n |-> s[i].job]]
           /\ tangled' = tangled \cup Overlap({s[i].job.change.entry : i \in 1..n})
  BY DEF Retry, n
<1>3. \A i \in 1..n : s[i] \in outbox
  BY DEF Oldest
<1> DEFINE batch == [i \in 1..n |-> s[i].job]
<1>4. batch \in Seq(Jobs) /\ Len(batch) = n /\ batch # <<>>
  <2>1. \A i \in 1..n : s[i].job \in Jobs
    BY <1>3 DEF TypeOK, OutboxOK, Rows
  <2>2. batch \in Seq(Jobs)
    BY <1>1, <2>1, IsASeq
  <2>3. Len(batch) = n
    BY <1>1
  <2> QED
    BY <1>1, <2>2, <2>3, EmptySeq
<1>5. tangled' \subseteq Entries
  <2>1. \A i \in 1..n : s[i].job.change.entry \in Entries
    BY <1>3 DEF TypeOK, OutboxOK, Rows, Jobs, Changes
  <2> QED
    BY <1>2, <2>1 DEF TypeOK, Overlap
<1>6. /\ pc' = [pc EXCEPT ![p] = "attempt"]
      /\ UNCHANGED <<local, remote, outbox, nextId, draft, changes, wanted>>
  BY DEF Retry, Goto
<1> HIDE DEF batch
<1>7. jobs' = [jobs EXCEPT ![p] = batch]
  BY <1>2 DEF batch
<1> QED
  BY <1>1, <1>4, <1>5, <1>6, <1>7 DEF TypeOK, OutboxOK, Sending

LEMMA InitType == Init => TypeOK
<1> SUFFICES ASSUME Init PROVE TypeOK
  OBVIOUS
<1>1. OutboxOK
  BY FS_EmptySet DEF Init, OutboxOK
<1>2. \A p \in Threads : Len(jobs[p]) <= BatchLimit
  BY ConstantsAssumption DEF Init, ConstantsAssumption
<1> QED
  BY <1>1, <1>2, NoDraftType, AbsentType DEF Init, TypeOK, Sending

LEMMA StartType ==
  ASSUME TypeOK, NEW p \in Threads, Start(p)
  PROVE  TypeOK'
<1>1. \A a \in {"upsert", "delete"} : a \in Actions
  BY DEF Actions
<1>2. \A e \in Entries : local[e].mal \in MalIds /\ local[e].version \in Nat
  BY DEF TypeOK
<1>3. ASSUME NEW e \in Entries, NEW mal \in MalIds, Add(p, e, mal) PROVE TypeOK'
  <2>1. changes + 1 \in Nat /\ "enqueue" \in Drafting
    BY DEF TypeOK, Drafting
  <2> QED
    BY <1>1, <1>3, <2>1, BeginType, SaveType DEF Add, TypeOK, OutboxOK
<1>4. ASSUME NEW e \in Entries, NEW mal \in MalIds, Track(p, e, mal) PROVE TypeOK'
  <2> DEFINE m == IF local[e].mal # 0 THEN local[e].mal ELSE mal
  <2>1. m \in MalIds /\ "track" \in Drafting
    BY <1>2 DEF Drafting
  <2>2. Begin(p, e, m, "upsert", 0, "track")
    BY <1>4 DEF Track
  <2> HIDE DEF m
  <2> QED
    BY <1>1, <1>4, <2>1, <2>2, BeginType DEF Track, TypeOK, OutboxOK
<1>5. ASSUME NEW e \in Entries, NEW mal \in MalIds, Pull(p, e, mal) PROVE TypeOK'
  <2>1. remote[e] \in Nat /\ "store" \in Drafting
    BY DEF TypeOK, Drafting
  <2> QED
    BY <1>1, <1>5, <2>1, BeginType DEF Pull, TypeOK, OutboxOK
<1>6. ASSUME NEW e \in Entries, Edit(p, e) PROVE TypeOK'
  <2>1. 0 \in MalIds /\ "reread" \in Drafting
    BY ConstantsAssumption DEF ConstantsAssumption, Drafting
  <2>2. /\ local' \in [Entries -> [version: Nat, mal: MalIds]]
        /\ changes' \in Nat
        /\ wanted' \in [Entries -> Nat]
    <3>1. CASE Save(e, local[e].mal)
      BY <3>1, <1>2, SaveType
    <3>2. CASE Change /\ UNCHANGED <<local, wanted>>
      BY <3>2 DEF Change, TypeOK
    <3> QED
      BY <1>6, <3>1, <3>2 DEF Edit
  <2> QED
    BY <1>1, <1>6, <2>1, <2>2, BeginType DEF Edit, TypeOK, OutboxOK
<1>7. ASSUME NEW e \in Entries, ReadToRemove(p, e) PROVE TypeOK'
  <2> DEFINE label == IF local[e].version = 0 THEN "purge" ELSE "remove"
  <2>1. label \in Drafting
    BY DEF Drafting
  <2>2. Begin(p, e, local[e].mal, "delete", 0, label)
    BY <1>7 DEF ReadToRemove
  <2> HIDE DEF label
  <2> QED
    BY <1>1, <1>2, <1>7, <2>1, <2>2, BeginType DEF ReadToRemove, TypeOK, OutboxOK
<1>8. CASE Clear(p)
  BY <1>8, AbsentType DEF Clear, TypeOK, OutboxOK, Overlap
<1> QED
  BY <1>3, <1>4, <1>5, <1>6, <1>7, <1>8 DEF Start

LEMMA ContinueType ==
  ASSUME TypeOK, NEW p \in Threads, Continue(p)
  PROVE  TypeOK'
<1>1. draft[p] \in Changes /\ draft[p].entry \in Entries /\ draft[p].mal \in MalIds
  BY DEF TypeOK, Changes
<1>2. CASE Reread(p)
  <2>1. CASE Return(p)
    BY <1>2, <2>1, ReturnType DEF Reread, TypeOK, OutboxOK, Drafting
  <2>2. CASE ~Return(p)
    <3>1. /\ draft' = [draft EXCEPT ![p] =
                        [@ EXCEPT !.mal = local[draft[p].entry].mal,
                                  !.version = local[draft[p].entry].version]]
          /\ \E label \in {"enqueue", "complete"} : pc' = [pc EXCEPT ![p] = label]
      BY <1>2, <2>2 DEF Reread, Goto
    <3>2. [draft[p] EXCEPT !.mal = local[draft[p].entry].mal,
                           !.version = local[draft[p].entry].version] \in Changes
      BY <1>1 DEF TypeOK, Changes
    <3>3. draft' \in [Threads -> Changes]
      BY <3>1, <3>2 DEF TypeOK
    <3> QED
      BY <1>2, <3>1, <3>3 DEF Reread, TypeOK, OutboxOK, Drafting, Sending
  <2> QED
    BY <2>1, <2>2
<1>3. CASE WriteBack(p)
  <2>1. draft' \in [Threads -> Changes]
    <3>1. changes + 1 \in Nat
      BY DEF TypeOK
    <3>2. [draft[p] EXCEPT !.version = changes + 1] \in Changes
      BY <1>1, <3>1 DEF Changes
    <3> QED
      BY <1>3, <3>2 DEF WriteBack, TypeOK
  <2>2. pc' = [pc EXCEPT ![p] = "enqueue"] /\ pc[p] \in Drafting
    BY <1>3 DEF WriteBack, Goto, Drafting
  <2> QED
    BY <1>1, <1>3, <2>1, <2>2, SaveType DEF WriteBack, TypeOK, OutboxOK, Drafting, Sending
<1>4. CASE Store(p)
  <2>1. local' \in [Entries -> [version: Nat, mal: MalIds]]
    BY <1>1, <1>4 DEF Store, TypeOK, Changes
  <2> QED
    BY <1>4, <2>1, ReturnType DEF Store, TypeOK, OutboxOK, Drafting
<1>5. CASE Enqueue(p)
  BY <1>5, EnqueueType
<1>6. ASSUME NEW syncRemote \in BOOLEAN, Remove(p, syncRemote) PROVE TypeOK'
  <2>1. local' \in [Entries -> [version: Nat, mal: MalIds]] /\ pc[p] \in Drafting
    BY <1>1, <1>6, AbsentType DEF Remove, TypeOK, Drafting
  <2>2. CASE Return(p)
    BY <1>6, <2>1, <2>2, ReturnType DEF Remove, TypeOK, OutboxOK, Change
  <2>3. CASE ~Return(p)
    <3>1. /\ pc' = [pc EXCEPT ![p] = "enqueue"] /\ UNCHANGED draft
          /\ changes' = changes + 1
          /\ wanted' = [wanted EXCEPT ![draft[p].entry] = 0]
          /\ UNCHANGED <<remote, outbox, nextId, jobs, tangled>>
      BY <1>6, <2>3 DEF Remove, Goto, Change
    <3>2. wanted' \in [Entries -> Nat] /\ changes' \in Nat
      BY <1>1, <3>1 DEF TypeOK
    <3>3. /\ pc' \in [Threads -> {"idle"} \cup Drafting \cup Sending]
          /\ \A q \in Threads : pc'[q] \in Sending <=> jobs'[q] # <<>>
      BY <2>1, <3>1 DEF TypeOK, Drafting, Sending
    <3> QED
      BY <2>1, <3>1, <3>2, <3>3 DEF TypeOK, OutboxOK
  <2> QED
    BY <2>2, <2>3
<1>7. CASE Attempt(p)
  BY <1>7, TouchType DEF Attempt, Goto, TypeOK, Sending
<1>8. CASE Apply(p)
  <2>1. jobs[p] \in Seq(Jobs) /\ jobs[p] # <<>>
    BY <1>8 DEF Apply, TypeOK, Sending
  <2>2. Head(jobs[p]) \in Jobs
    BY <2>1, HeadTailProperties
  <2>3. remote' \in [Entries -> Nat]
    BY <1>8, <2>2 DEF Apply, TypeOK, Jobs, Changes
  <2> QED
    BY <1>8, <2>3 DEF Apply, Goto, TypeOK, OutboxOK, Sending
<1>9. CASE Fail(p)
  BY <1>9 DEF Fail, Goto, TypeOK, OutboxOK, Sending
<1>10. CASE Drop(p)
  <2>1. OutboxOK'
    BY <1>10, FS_Subset DEF Drop, TypeOK, OutboxOK
  <2> QED
    BY <1>10, <2>1, NextJobType DEF Drop, TypeOK, Sending
<1>11. CASE Note(p)
  BY <1>11, TouchType, NextJobType DEF Note, TypeOK, Sending
<1> QED
  BY <1>2, <1>3, <1>4, <1>5, <1>6, <1>7, <1>8, <1>9, <1>10, <1>11 DEF Continue

LEMMA NextType == TypeOK /\ [Next]_vars => TypeOK'
<1> SUFFICES ASSUME TypeOK, [Next]_vars PROVE TypeOK'
  OBVIOUS
<1>1. ASSUME NEW p \in Calls, Start(p) PROVE TypeOK'
  BY <1>1, StartType DEF Threads
<1>2. ASSUME NEW p \in Retriers, Retry(p) PROVE TypeOK'
  BY <1>2, RetryType DEF Threads
<1>3. ASSUME NEW p \in Threads, Continue(p) PROVE TypeOK'
  BY <1>3, ContinueType
<1>4. CASE NextSecond
  BY <1>4, NextSecondType DEF NextSecond, TypeOK
<1>5. CASE Crash
  <2>1. tangled' \subseteq Entries
    BY <1>5 DEF Crash, TypeOK, Changes
  <2>2. \A p \in Threads : Len(jobs'[p]) <= BatchLimit
    BY <1>5, ConstantsAssumption DEF Crash, ConstantsAssumption
  <2> QED
    BY <1>5, <2>1, <2>2, NoDraftType DEF Crash, TypeOK, OutboxOK, Sending
<1>6. CASE UNCHANGED vars
  BY <1>6 DEF vars, TypeOK, OutboxOK
<1> QED
  BY <1>1, <1>2, <1>3, <1>4, <1>5, <1>6 DEF Next

\* The outbox keeps one row for a key and its ids are never reused, a thread
\* has jobs exactly while it sends, a retry never takes more than the limit.
THEOREM TypeCorrect == Spec => []TypeOK
BY InitType, NextType, PTL DEF Spec

-----------------------------------------------------------------------------
(* What a step leaves alone.                                               *)

LEMMA QueueType ==
  ASSUME TypeOK
  PROVE  /\ Queue \subseteq Jobs
         /\ \A j, k \in Queue : j.id = k.id \/ SameKey(j.change, k.change) => j = k
         /\ \A j \in Queue : Entry(j) \in Entries /\ j.id < nextId
BY DEF TypeOK, OutboxOK, Queue, Rows, Jobs, Changes, Entry

KeysDiffer ==
  /\ \A j, k \in Queue : j.id = k.id \/ SameKey(j.change, k.change) => j = k
  /\ \A j \in Queue : j.id < nextId

LEMMA QueueKeys == TypeOK => KeysDiffer
BY QueueType DEF KeysDiffer

LEMMA JobsType ==
  ASSUME TypeOK, NEW p \in Threads
  PROVE  /\ jobs[p] \in Seq(Jobs)
         /\ DOMAIN jobs[p] = 1..Len(jobs[p])
         /\ \A i \in DOMAIN jobs[p] : jobs[p][i] \in Jobs /\ Entry(jobs[p][i]) \in Entries
         /\ pc[p] \in Sending =>
              /\ 1 \in DOMAIN jobs[p]
              /\ Head(jobs[p]) = jobs[p][1]
              /\ Busy(p, Entry(Head(jobs[p])))
<1>1. jobs[p] \in Seq(Jobs) /\ (pc[p] \in Sending => jobs[p] # <<>>)
  BY DEF TypeOK
<1>2. DOMAIN jobs[p] = 1..Len(jobs[p]) /\ \A i \in DOMAIN jobs[p] : jobs[p][i] \in Jobs
  BY <1>1
<1>3. pc[p] \in Sending => 1 \in DOMAIN jobs[p] /\ Head(jobs[p]) = jobs[p][1]
  BY <1>1, <1>2, EmptySeq
<1>4. \A i \in DOMAIN jobs[p] : Entry(jobs[p][i]) \in Entries
  BY <1>2 DEF Jobs, Changes, Entry
<1> QED
  BY <1>1, <1>2, <1>3, <1>4 DEF Busy, Entry

\* A thread that sends is busy with the entry at the head of its jobs.
HeadBusy == \A q \in Threads : pc[q] \in Sending => Busy(q, Entry(Head(jobs[q])))

LEMMA HeadIsBusy == TypeOK => HeadBusy
BY JobsType DEF HeadBusy

LEMMA UnsavedIsBusy ==
  ASSUME NEW p, NEW e
  PROVE  Unsaved(p, e) => Busy(p, e) /\ pc[p] \in {"reread", "complete", "enqueue"}
BY DEF Unsaved, Busy, Drafting

LEMMA AloneKept ==
  ASSUME NEW e, Alone(e), \A q \in Threads : Busy(q, e)' => Busy(q, e)
  PROVE  Alone(e)'
BY DEF Alone

\* p turns to e, nobody else was busy with it.
LEMMA AloneBegun ==
  ASSUME NEW p \in Threads, NEW e, \A q \in Threads : ~Busy(q, e),
         \A q \in Threads \ {p} : Busy(q, e)' => Busy(q, e)
  PROVE  Alone(e)'
BY DEF Alone

LEMMA HeldKept ==
  ASSUME NEW e, Held(e), Queue' = Queue, jobs' = jobs
  PROVE  Held(e)'
BY DEF Held

LEMMA IdsKept ==
  ASSUME IdsAgree, Queue' = Queue, jobs' = jobs, nextId' = nextId
  PROVE  IdsAgree'
BY DEF IdsAgree

\* An entry stays settled when its data stay, and when the threads that move
\* neither had nor have a change of it to queue, nor an answer about it.
LEMMA SettledKept ==
  ASSUME TypeOK, NEW e \in Entries, Settled(e),
         local'[e] = local[e] \/ \A q \in Threads : ~(Busy(q, e) /\ pc[q] = "reread"),
         wanted'[e] = wanted[e], remote'[e] = remote[e],
         \A j : Entry(j) = e => (j \in Queue' <=> j \in Queue),
         \A q \in Threads :
           \/ pc'[q] = pc[q] /\ draft'[q] = draft[q] /\ jobs'[q] = jobs[q]
           \/ ~Unsaved(q, e) /\ ~Unsaved(q, e)' /\ ~Answered(q, e)'
  PROVE  Settled(e)'
<1>1. \A q \in Threads : Unsaved(q, e)' <=> Unsaved(q, e)
  BY DEF Unsaved, Busy, Drafting
<1>2. \A q \in Threads : Unsaved(q, e)' => pc'[q] = pc[q] /\ draft'[q] = draft[q]
  BY <1>1
<1>3. \A q \in Threads : Answered(q, e)' => Answered(q, e)
  BY DEF Answered
<1>4. \A q \in Threads : Unsaved(q, e) /\ pc[q] = "reread" => local'[e] = local[e]
  BY DEF Unsaved, Busy, Drafting
<1>5. \A j \in Queue' :
        Entry(j) = e => j.change.version = wanted'[e] \/ \E p \in Threads : Unsaved(p, e)'
  BY <1>1 DEF Settled
<1>6. wanted'[e] # remote'[e] =>
        \/ \E j \in Queue' : Entry(j) = e /\ j.change.version = wanted'[e]
        \/ \E p \in Threads : Unsaved(p, e)'
  BY <1>1 DEF Settled
<1>7. \A p \in Threads :
        Unsaved(p, e)' =>
          /\ pc'[p] = "enqueue" => draft'[p].version = wanted'[e]
          /\ pc'[p] = "reread" => local'[e].version = wanted'[e]
  BY <1>1, <1>2, <1>4 DEF Settled
<1>8. \A p \in Threads : Answered(p, e)' => remote'[e] = wanted'[e]
  BY <1>3 DEF Settled
<1> QED
  BY <1>5, <1>6, <1>7, <1>8 DEF Settled, Entry

\* An entry is settled while one thread alone has a change of it to queue.
LEMMA SettledBySave ==
  ASSUME TypeOK', NEW e \in Entries, NEW p \in Threads, Unsaved(p, e)',
         \A q \in Threads \ {p} : ~Busy(q, e)',
         pc'[p] = "enqueue" => draft'[p].version = wanted'[e],
         pc'[p] = "reread" => local'[e].version = wanted'[e]
  PROVE  Settled(e)'
<1>1. \A q \in Threads : Unsaved(q, e)' => q = p
  BY DEF Unsaved, Busy, Drafting
<1>2. \A q \in Threads : ~Answered(q, e)'
  <2>1. ASSUME NEW q \in Threads, Answered(q, e)' PROVE FALSE
    <3>1. pc'[q] \in Sending /\ Entry(Head(jobs[q]))' = e
      BY <2>1 DEF Answered, Sending
    <3>2. HeadBusy'
      BY HeadIsBusy, PTL
    <3>3. Busy(q, e)'
      BY <3>1, <3>2 DEF HeadBusy
    <3>4. q = p
      BY <3>3
    <3> QED
      BY <2>1, <3>4 DEF Answered, Unsaved
  <2> QED
    BY <2>1
<1> QED
  BY <1>1, <1>2 DEF Settled

-----------------------------------------------------------------------------
(* The list operations preserve Serial.                                    *)

\* Unchanged threads and tables, all that Begin leaves to the rest of a step.
LEMMA BeginSerial ==
  ASSUME TypeOK, Serial, NEW p \in Threads, NEW e \in Entries, NEW mal, NEW action,
         NEW version, NEW label \in Drafting,
         Begin(p, e, mal, action, version, label), UNCHANGED <<outbox, nextId, jobs>>
  PROVE  /\ IdsAgree'
         /\ pc[p] = "idle" /\ pc'[p] = label /\ draft'[p].entry = e
         /\ draft'[p].version = version
         /\ \A q \in Threads \ {p} : pc'[q] = pc[q] /\ draft'[q] = draft[q] /\ jobs'[q] = jobs[q]
         /\ \A x \in Calm' :
              /\ x \in Calm /\ Alone(x)' /\ Held(x)' /\ Settled(x)
              /\ x = e => \A q \in Threads : ~Busy(q, e) /\ (q # p => ~Busy(q, e)')
              /\ \A q \in Threads :
                   \/ pc'[q] = pc[q] /\ draft'[q] = draft[q] /\ jobs'[q] = jobs[q]
                   \/ ~Unsaved(q, x) /\ (x # e => ~Unsaved(q, x)') /\ ~Answered(q, x)'
<1>1. /\ pc[p] = "idle" /\ pc' = [pc EXCEPT ![p] = label]
      /\ draft' = [draft EXCEPT ![p] =
                     [entry |-> e, mal |-> mal, action |-> action, version |-> version]]
      /\ tangled' = tangled \cup Overlap({e})
      /\ label \notin Sending /\ label # "idle"
  BY DEF Begin, Goto, Drafting, Sending
<1>2. /\ pc'[p] = label /\ draft'[p].entry = e /\ draft'[p].version = version
      /\ \A q \in Threads \ {p} : pc'[q] = pc[q] /\ draft'[q] = draft[q] /\ jobs'[q] = jobs[q]
  BY <1>1 DEF TypeOK
<1>3. Queue' = Queue
  BY DEF Queue
<1>4. IdsAgree'
  BY <1>3, IdsKept DEF Serial
<1>5. ASSUME NEW x \in Calm' PROVE x \in Calm
  BY <1>1, <1>5 DEF Calm
<1>6. ASSUME NEW x \in Calm'
      PROVE  /\ \A q \in Threads \ {p} : Busy(q, x)' <=> Busy(q, x)
             /\ Busy(p, x)' => x = e
             /\ x = e => \A q \in Threads : ~Busy(q, e)
  <2>1. \A q \in Threads \ {p} : Busy(q, x)' <=> Busy(q, x)
    BY <1>2 DEF Busy
  <2>2. Busy(p, x)' => x = e
    BY <1>1, <1>2 DEF Busy
  <2>3. x = e => \A q \in Threads : ~Busy(q, e)
    BY <1>1 DEF Calm, Overlap
  <2> QED
    BY <2>1, <2>2, <2>3
<1>7. ASSUME NEW x \in Calm' PROVE Alone(x)'
  <2>1. x \in Calm /\ Alone(x)
    BY <1>5 DEF Serial
  <2>2. CASE x = e
    BY <1>6, <2>2, AloneBegun
  <2>3. CASE x # e
    BY <1>6, <2>1, <2>3, AloneKept
  <2> QED
    BY <2>2, <2>3
<1>8. ASSUME NEW x \in Calm' PROVE Held(x)' /\ Settled(x)
  BY <1>3, <1>5, HeldKept DEF Serial
<1>9. ASSUME NEW x \in Calm', NEW q \in Threads
      PROVE  \/ pc'[q] = pc[q] /\ draft'[q] = draft[q] /\ jobs'[q] = jobs[q]
             \/ ~Unsaved(q, x) /\ (x # e => ~Unsaved(q, x)') /\ ~Answered(q, x)'
  <2>1. CASE q # p
    BY <1>2, <2>1
  <2>2. CASE q = p
    BY <1>1, <1>2, <2>2 DEF Unsaved, Answered, Sending
  <2> QED
    BY <2>1, <2>2
<1>10. ASSUME NEW x \in Calm', x = e
       PROVE  \A q \in Threads : ~Busy(q, e) /\ (q # p => ~Busy(q, e)')
  BY <1>6, <1>10
<1> QED
  BY <1>1, <1>2, <1>4, <1>5, <1>7, <1>8, <1>9, <1>10

LEMMA StartSerial ==
  ASSUME TypeOK, TypeOK', Serial, NEW p \in Threads, Start(p)
  PROVE  Serial'
<1>1. ASSUME NEW e \in Entries, NEW mal \in MalIds, Add(p, e, mal) PROVE Serial'
  <2>1. Begin(p, e, mal, "upsert", changes + 1, "enqueue") /\ UNCHANGED <<outbox, nextId, jobs>>
    BY <1>1 DEF Add
  <2>2. "enqueue" \in Drafting
    BY DEF Drafting
  <2>3. /\ remote' = remote /\ wanted'[e] = changes + 1
        /\ \A x \in Entries \ {e} : local'[x] = local[x] /\ wanted'[x] = wanted[x]
    BY <1>1 DEF Add, Save, TypeOK
  <2>4. ASSUME NEW x \in Calm' PROVE Settled(x)'
    <3>1. CASE x = e
      <4>1. Unsaved(p, e)'
        BY <2>1, <2>2, BeginSerial DEF Unsaved
      <4>2. /\ \A q \in Threads \ {p} : ~Busy(q, e)'
            /\ pc'[p] = "enqueue" /\ draft'[p].version = wanted'[e]
        BY <2>1, <2>2, <2>3, <3>1, BeginSerial
      <4> QED
        BY <3>1, <4>1, <4>2, SettledBySave
    <3>2. CASE x # e
      <4>1. x \in Entries
        BY DEF Calm
      <4>2. /\ Settled(x)
            /\ \A q \in Threads :
                 \/ pc'[q] = pc[q] /\ draft'[q] = draft[q] /\ jobs'[q] = jobs[q]
                 \/ ~Unsaved(q, x) /\ ~Unsaved(q, x)' /\ ~Answered(q, x)'
        BY <2>1, <2>2, <3>2, BeginSerial
      <4>3. local'[x] = local[x] /\ wanted'[x] = wanted[x] /\ remote'[x] = remote[x] /\ Queue' = Queue
        BY <2>1, <2>3, <3>2, <4>1 DEF Queue
      <4> QED
        BY <4>1, <4>2, <4>3, SettledKept
    <3> QED
      BY <3>1, <3>2
  <2> QED
    BY <2>1, <2>2, <2>4, BeginSerial DEF Serial
<1>2. ASSUME NEW e \in Entries, NEW mal, NEW action, NEW version,
             NEW label \in {"track", "store", "remove", "purge"},
             Begin(p, e, mal, action, version, label),
             UNCHANGED <<local, remote, outbox, nextId, jobs, changes, wanted>>
      PROVE  Serial'
  <2>1. label \in Drafting
    BY DEF Drafting
  <2>2. ASSUME NEW x \in Calm' PROVE Settled(x)'
    <3>1. /\ x \in Entries /\ Queue' = Queue
          /\ local'[x] = local[x] /\ wanted'[x] = wanted[x] /\ remote'[x] = remote[x]
      BY <1>2 DEF Calm, Queue
    <3>2. ~Unsaved(p, x) /\ ~Unsaved(p, x)' /\ ~Answered(p, x)'
      BY <1>2, <2>1, BeginSerial DEF Unsaved, Answered
    <3>3. /\ Settled(x)
          /\ \A q \in Threads \ {p} : pc'[q] = pc[q] /\ draft'[q] = draft[q] /\ jobs'[q] = jobs[q]
      BY <1>2, <2>1, BeginSerial
    <3> QED
      BY <3>1, <3>2, <3>3, SettledKept
  <2> QED
    BY <1>2, <2>1, <2>2, BeginSerial DEF Serial
<1>3. ASSUME NEW e \in Entries, NEW mal \in MalIds, Track(p, e, mal) PROVE Serial'
  <2> DEFINE m == IF local[e].mal # 0 THEN local[e].mal ELSE mal
  <2>1. Begin(p, e, m, "upsert", 0, "track")
    BY <1>3 DEF Track
  <2> HIDE DEF m
  <2> QED
    BY <1>2, <1>3, <2>1 DEF Track
<1>4. ASSUME NEW e \in Entries, NEW mal \in MalIds, Pull(p, e, mal) PROVE Serial'
  BY <1>2, <1>4 DEF Pull
<1>5. ASSUME NEW e \in Entries, ReadToRemove(p, e) PROVE Serial'
  <2> DEFINE label == IF local[e].version = 0 THEN "purge" ELSE "remove"
  <2>1. Begin(p, e, local[e].mal, "delete", 0, label) /\ label \in {"remove", "purge"}
    BY <1>5 DEF ReadToRemove
  <2> HIDE DEF label
  <2> QED
    BY <1>2, <1>5, <2>1 DEF ReadToRemove
<1>6. ASSUME NEW e \in Entries, Edit(p, e) PROVE Serial'
  <2>1. Begin(p, e, 0, "upsert", 0, "reread") /\ UNCHANGED <<outbox, nextId, jobs>>
    BY <1>6 DEF Edit
  <2>2. "reread" \in Drafting
    BY DEF Drafting
  <2>3. /\ remote' = remote
        /\ \A x \in Entries \ {e} : local'[x] = local[x] /\ wanted'[x] = wanted[x]
        /\ \/ local'[e].version # 0 /\ local'[e].version = wanted'[e]
           \/ local'[e].version = 0 /\ UNCHANGED <<local, wanted>>
    BY <1>6 DEF Edit, Save, Change, TypeOK
  <2>4. ASSUME NEW x \in Calm' PROVE Settled(x)'
    <3>1. CASE x = e /\ local'[e].version # 0
      <4>1. Unsaved(p, e)'
        BY <2>1, <2>2, <3>1, BeginSerial DEF Unsaved
      <4>2. /\ \A q \in Threads \ {p} : ~Busy(q, e)'
            /\ pc'[p] = "reread" /\ local'[e].version = wanted'[e]
        BY <2>1, <2>2, <2>3, <3>1, BeginSerial
      <4> QED
        BY <3>1, <4>1, <4>2, SettledBySave
    <3>2. CASE x # e \/ local'[e].version = 0
      <4>1. x \in Entries
        BY DEF Calm
      <4>2. ~Unsaved(p, x) /\ ~Unsaved(p, x)' /\ ~Answered(p, x)'
        BY <2>1, <2>2, <3>2, BeginSerial DEF Unsaved, Answered
      <4>3. /\ Settled(x)
            /\ \A q \in Threads \ {p} : pc'[q] = pc[q] /\ draft'[q] = draft[q] /\ jobs'[q] = jobs[q]
        BY <2>1, <2>2, BeginSerial
      <4>4. local'[x] = local[x] /\ wanted'[x] = wanted[x] /\ remote'[x] = remote[x] /\ Queue' = Queue
        BY <2>1, <2>3, <3>2, <4>1 DEF Queue
      <4> QED
        BY <4>1, <4>2, <4>3, <4>4, SettledKept
    <3> QED
      BY <3>1, <3>2
  <2> QED
    BY <2>1, <2>2, <2>4, BeginSerial DEF Serial
<1>7. CASE Clear(p)
  <2>1. /\ Queue' = Queue /\ \A x \in Calm' : x \in Calm /\ x \in Entries
        /\ UNCHANGED <<remote, nextId, pc, draft, jobs, wanted>>
    BY <1>7 DEF Clear, Queue, Calm
  <2>2. \A x \in Calm', q \in Threads : ~Busy(q, x) /\ ~Busy(q, x)'
    BY <1>7, <2>1 DEF Clear, Calm, Overlap, Busy
  <2>3. ASSUME NEW x \in Calm' PROVE Alone(x)' /\ Held(x)' /\ Settled(x)'
    <3>1. Alone(x)'
      BY <2>2 DEF Alone
    <3>2. Held(x)'
      BY <2>1, HeldKept DEF Serial
    <3>3. \A q \in Threads : ~(Busy(q, x) /\ pc[q] = "reread")
      BY <2>2
    <3>4. Settled(x) /\ x \in Entries
      BY <2>1 DEF Serial
    <3> QED
      BY <2>1, <3>1, <3>2, <3>3, <3>4, SettledKept
  <2>4. IdsAgree'
    BY <2>1, IdsKept DEF Serial
  <2> QED
    BY <2>3, <2>4 DEF Serial
<1> QED
  BY <1>1, <1>3, <1>4, <1>5, <1>6, <1>7 DEF Start

\* A thread goes on with the change it has in hand.
LEMMA DraftSerial ==
  ASSUME TypeOK, Serial, NEW p \in Threads, pc[p] \in Drafting, pc'[p] \notin Sending,
         pc'[p] \in Drafting => draft'[p].entry = draft[p].entry,
         \A q \in Threads \ {p} : pc'[q] = pc[q] /\ draft'[q] = draft[q],
         UNCHANGED <<outbox, nextId, jobs, tangled>>
  PROVE  /\ IdsAgree'
         /\ \A x \in Calm' :
              /\ x \in Entries /\ Alone(x)' /\ Held(x)' /\ Settled(x)
              /\ x = draft[p].entry =>
                   \A q \in Threads \ {p} : ~Busy(q, x) /\ ~Busy(q, x)'
              /\ x # draft[p].entry => ~Unsaved(p, x) /\ ~Unsaved(p, x)'
              /\ ~Answered(p, x)'
<1>1. Queue' = Queue /\ Calm' = Calm
  BY DEF Queue, Calm
<1>2. IdsAgree'
  BY <1>1, IdsKept DEF Serial
<1>3. \A x, q : Busy(q, x)' /\ q \in Threads => Busy(q, x)
  BY DEF Busy
<1>4. ASSUME NEW x \in Calm
      PROVE  x \in Entries /\ Alone(x)' /\ Held(x)' /\ Settled(x)
  BY <1>1, <1>3, AloneKept, HeldKept DEF Serial, Calm
<1>5. ASSUME NEW x \in Calm, x = draft[p].entry, NEW q \in Threads \ {p}
      PROVE  ~Busy(q, x) /\ ~Busy(q, x)'
  BY <1>3, <1>5 DEF Serial, Alone, Busy
<1>6. ASSUME NEW x \in Calm, x # draft[p].entry
      PROVE  ~Unsaved(p, x) /\ ~Unsaved(p, x)'
  BY <1>6 DEF Unsaved, Drafting
<1>7. \A x \in Calm : ~Answered(p, x)'
  BY DEF Answered, Sending
<1> QED
  BY <1>1, <1>2, <1>4, <1>5, <1>6, <1>7

\* The entry in hand is settled as well, with a saved change ...
LEMMA DraftSaved ==
  ASSUME TypeOK, TypeOK', Serial, NEW p \in Threads, pc[p] \in Drafting,
         pc'[p] \in {"complete", "enqueue"}, draft'[p].entry = draft[p].entry,
         pc'[p] = "enqueue" =>
           draft'[p].version = wanted'[draft[p].entry] \/ draft[p].entry \notin Calm,
         \A q \in Threads \ {p} : pc'[q] = pc[q] /\ draft'[q] = draft[q],
         \A x \in Entries \ {draft[p].entry} : local'[x] = local[x] /\ wanted'[x] = wanted[x],
         UNCHANGED <<remote, outbox, nextId, jobs, tangled>>
  PROVE  Serial'
<1>1. pc'[p] \notin Sending
  BY DEF Sending
<1>2. ASSUME NEW x \in Calm' PROVE Settled(x)'
  <2>1. x \in Calm /\ x \in Entries /\ Settled(x) /\ Queue' = Queue /\ ~Answered(p, x)'
    BY <1>1, DraftSerial DEF Calm, Queue
  <2>2. CASE x = draft[p].entry
    <3>1. Unsaved(p, x)' /\ \A q \in Threads \ {p} : ~Busy(q, x)'
      BY <1>1, <2>2, DraftSerial DEF Unsaved
    <3>2. pc'[p] = "enqueue" => draft'[p].version = wanted'[x]
      BY <2>1, <2>2
    <3>3. pc'[p] = "reread" => local'[x].version = wanted'[x]
      OBVIOUS
    <3> QED
      BY <2>1, <3>1, <3>2, <3>3, SettledBySave
  <2>3. CASE x # draft[p].entry
    <3>1. ~Unsaved(p, x) /\ ~Unsaved(p, x)'
      BY <1>1, <2>3, DraftSerial
    <3> QED
      BY <2>1, <2>3, <3>1, SettledKept
  <2> QED
    BY <2>2, <2>3
<1> QED
  BY <1>1, <1>2, DraftSerial DEF Serial

\* ... or with none.
LEMMA DraftOver ==
  ASSUME TypeOK, Serial, NEW p \in Threads, pc[p] \in Drafting, pc'[p] = "idle",
         ~Unsaved(p, draft[p].entry),
         \A q \in Threads \ {p} : pc'[q] = pc[q] /\ draft'[q] = draft[q],
         \A x \in Entries \ {draft[p].entry} : local'[x] = local[x],
         local'[draft[p].entry] = local[draft[p].entry] \/ pc[p] # "reread",
         UNCHANGED <<remote, outbox, nextId, jobs, wanted, tangled>>
  PROVE  Serial'
<1>1. pc'[p] \notin Sending /\ pc'[p] \notin Drafting
  BY DEF Sending, Drafting
<1>2. ASSUME NEW x \in Calm' PROVE Settled(x)'
  <2>1. x \in Entries /\ Settled(x) /\ Queue' = Queue /\ ~Answered(p, x)'
    BY <1>1, DraftSerial DEF Queue
  <2>2. ~Unsaved(p, x) /\ ~Unsaved(p, x)'
    BY <1>1, DraftSerial DEF Unsaved
  <2>3. local'[x] = local[x] \/ \A q \in Threads : ~(Busy(q, x) /\ pc[q] = "reread")
    BY <1>1, <2>1, DraftSerial
  <2> QED
    BY <2>1, <2>2, <2>3, SettledKept
<1> QED
  BY <1>1, <1>2, DraftSerial DEF Serial

LEMMA RereadSerial ==
  ASSUME TypeOK, TypeOK', Serial, NEW p \in Threads, Reread(p)
  PROVE  Serial'
<1> DEFINE e == draft[p].entry
<1>1. pc[p] = "reread" /\ pc[p] \in Drafting /\ e \in Entries /\ draft[p] \in Changes
  BY DEF Reread, Drafting, TypeOK, Changes
<1>2. UNCHANGED <<local, remote, outbox, nextId, jobs, changes, wanted, tangled>>
  BY DEF Reread
<1>3. CASE local[e].version = 0
  <2>1. pc' = [pc EXCEPT ![p] = "idle"] /\ draft' = [draft EXCEPT ![p] = NoDraft]
    BY <1>3 DEF Reread, Return, Goto
  <2>2. ~Unsaved(p, draft[p].entry)
    BY <1>1, <1>3 DEF Unsaved
  <2>3. /\ pc'[p] = "idle"
        /\ \A q \in Threads \ {p} : pc'[q] = pc[q] /\ draft'[q] = draft[q]
    BY <2>1 DEF TypeOK
  <2> QED
    BY <1>1, <1>2, <2>2, <2>3, DraftOver
<1>4. CASE local[e].version # 0
  <2>1. /\ \E label \in {"enqueue", "complete"} : pc' = [pc EXCEPT ![p] = label]
        /\ draft' = [draft EXCEPT ![p] =
                       [@ EXCEPT !.mal = local[e].mal, !.version = local[e].version]]
    BY <1>4 DEF Reread, Goto
  <2>2. /\ pc'[p] \in {"complete", "enqueue"}
        /\ draft'[p].entry = e /\ draft'[p].version = local[e].version
        /\ \A q \in Threads \ {p} : pc'[q] = pc[q] /\ draft'[q] = draft[q]
    BY <1>1, <2>1 DEF TypeOK, Changes
  <2>3. e \in Calm => local[e].version = wanted[e]
    <3>1. Unsaved(p, e)
      BY <1>1, <1>4 DEF Unsaved
    <3> QED
      BY <1>1, <3>1 DEF Serial, Settled
  <2> QED
    BY <1>1, <1>2, <2>2, <2>3, DraftSaved
<1> QED
  BY <1>3, <1>4

LEMMA WriteBackSerial ==
  ASSUME TypeOK, TypeOK', Serial, NEW p \in Threads, WriteBack(p)
  PROVE  Serial'
<1> DEFINE e == draft[p].entry
<1>1. pc[p] \in Drafting /\ e \in Entries /\ draft[p] \in Changes
  BY DEF WriteBack, Drafting, TypeOK, Changes
<1>2. /\ UNCHANGED <<remote, outbox, nextId, jobs, tangled>>
      /\ draft' = [draft EXCEPT ![p].version = changes + 1]
      /\ pc' = [pc EXCEPT ![p] = "enqueue"]
      /\ wanted' = [wanted EXCEPT ![e] = changes + 1]
      /\ \A x \in Entries \ {e} : local'[x] = local[x]
  BY DEF WriteBack, Goto, Save, TypeOK
<1>3. /\ pc'[p] = "enqueue" /\ draft'[p].entry = e
      /\ draft'[p].version = wanted'[e]
      /\ \A q \in Threads \ {p} : pc'[q] = pc[q] /\ draft'[q] = draft[q]
      /\ \A x \in Entries \ {e} : wanted'[x] = wanted[x]
  BY <1>1, <1>2 DEF TypeOK, Changes
<1> QED
  BY <1>1, <1>2, <1>3, DraftSaved

LEMMA StoreSerial ==
  ASSUME TypeOK, Serial, NEW p \in Threads, Store(p)
  PROVE  Serial'
<1>1. /\ pc[p] = "store" /\ pc[p] \in Drafting
      /\ UNCHANGED <<remote, outbox, nextId, jobs, wanted, tangled>>
      /\ pc' = [pc EXCEPT ![p] = "idle"] /\ draft' = [draft EXCEPT ![p] = NoDraft]
      /\ \A x \in Entries \ {draft[p].entry} : local'[x] = local[x]
  BY DEF Store, Return, Goto, Drafting, TypeOK
<1>2. ~Unsaved(p, draft[p].entry)
  BY <1>1 DEF Unsaved
<1>3. /\ pc'[p] = "idle"
      /\ \A q \in Threads \ {p} : pc'[q] = pc[q] /\ draft'[q] = draft[q]
  BY <1>1 DEF TypeOK
<1> QED
  BY <1>1, <1>2, <1>3, DraftOver

\* A thread that removes an entry carries no version.
RemovalIsBare == \A p \in Threads : pc[p] = "remove" => draft[p].version = 0

LEMMA RemovalStep == TypeOK /\ RemovalIsBare /\ [Next]_vars => RemovalIsBare'
<1> SUFFICES ASSUME TypeOK, RemovalIsBare, [Next]_vars PROVE RemovalIsBare'
  OBVIOUS
<1> USE DEF RemovalIsBare, TypeOK, Goto, Return, Begin
<1>1. ASSUME NEW p \in Calls, Start(p) PROVE RemovalIsBare'
  <2>1. ASSUME NEW e \in Entries, NEW mal, NEW action, NEW version, NEW label,
               label = "remove" => version = 0, Begin(p, e, mal, action, version, label)
        PROVE  RemovalIsBare'
    BY <2>1
  <2>2. ASSUME NEW e \in Entries, NEW mal \in MalIds, Add(p, e, mal) PROVE RemovalIsBare'
    BY <2>1, <2>2 DEF Add
  <2>3. ASSUME NEW e \in Entries, NEW mal \in MalIds, Track(p, e, mal) PROVE RemovalIsBare'
    BY <2>1, <2>3 DEF Track
  <2>4. ASSUME NEW e \in Entries, NEW mal \in MalIds, Pull(p, e, mal) PROVE RemovalIsBare'
    BY <2>1, <2>4 DEF Pull
  <2>5. ASSUME NEW e \in Entries, Edit(p, e) PROVE RemovalIsBare'
    BY <2>1, <2>5 DEF Edit
  <2>6. ASSUME NEW e \in Entries, ReadToRemove(p, e) PROVE RemovalIsBare'
    BY <2>1, <2>6 DEF ReadToRemove
  <2>7. CASE Clear(p)
    BY <2>7 DEF Clear
  <2> QED
    BY <1>1, <2>2, <2>3, <2>4, <2>5, <2>6, <2>7 DEF Start
<1>2. ASSUME NEW p \in Retriers, Retry(p) PROVE RemovalIsBare'
  BY <1>2 DEF Retry, Threads
<1>3. ASSUME NEW p \in Threads, Continue(p) PROVE RemovalIsBare'
  <2>1. ASSUME NEW syncRemote \in BOOLEAN, Remove(p, syncRemote) PROVE RemovalIsBare'
    BY <2>1 DEF Remove
  <2>2. CASE Reread(p) \/ WriteBack(p) \/ Store(p)
    BY <2>2 DEF Reread, WriteBack, Store
  <2>3. CASE Enqueue(p)
    BY <2>3 DEF Enqueue
  <2>4. CASE Attempt(p) \/ Apply(p) \/ Fail(p)
    BY <2>4 DEF Attempt, Apply, Fail
  <2>5. CASE Drop(p) \/ Note(p)
    BY <2>5 DEF Drop, Note, NextJob
  <2> QED
    BY <1>3, <2>1, <2>2, <2>3, <2>4, <2>5 DEF Continue
<1>4. CASE NextSecond
  BY <1>4 DEF NextSecond
<1>5. CASE Crash
  BY <1>5 DEF Crash
<1>6. CASE UNCHANGED vars
  BY <1>6 DEF vars
<1> QED
  BY <1>1, <1>2, <1>3, <1>4, <1>5, <1>6 DEF Next

LEMMA RemoveSerial ==
  ASSUME TypeOK, TypeOK', Serial, RemovalIsBare, NEW p \in Threads,
         NEW syncRemote \in BOOLEAN, Remove(p, syncRemote)
  PROVE  Serial'
<1> DEFINE e == draft[p].entry
<1>1. /\ pc[p] \in {"remove", "purge"} /\ pc[p] \in Drafting
      /\ UNCHANGED <<remote, outbox, nextId, jobs, tangled>>
      /\ \A x \in Entries \ {e} : local'[x] = local[x]
  BY DEF Remove, Drafting, TypeOK
<1>2. CASE pc[p] = "remove" /\ syncRemote
  <2>1. /\ wanted' = [wanted EXCEPT ![e] = 0] /\ e \in Entries
        /\ pc' = [pc EXCEPT ![p] = "enqueue"] /\ draft' = draft
    BY <1>2 DEF Remove, Goto, TypeOK, Changes
  <2>2. /\ pc'[p] = "enqueue" /\ draft'[p].version = wanted'[e]
        /\ \A q \in Threads \ {p} : pc'[q] = pc[q] /\ draft'[q] = draft[q]
        /\ \A x \in Entries \ {e} : wanted'[x] = wanted[x]
    BY <1>2, <2>1 DEF RemovalIsBare, TypeOK
  <2> QED
    BY <1>1, <2>1, <2>2, DraftSaved
<1>3. CASE ~(pc[p] = "remove" /\ syncRemote)
  <2>1. /\ UNCHANGED wanted
        /\ pc' = [pc EXCEPT ![p] = "idle"] /\ draft' = [draft EXCEPT ![p] = NoDraft]
    BY <1>1, <1>3 DEF Remove, Return, Goto
  <2>2. ~Unsaved(p, draft[p].entry)
    BY <1>1 DEF Unsaved
  <2>3. /\ pc'[p] = "idle"
        /\ \A q \in Threads \ {p} : pc'[q] = pc[q] /\ draft'[q] = draft[q]
    BY <2>1 DEF TypeOK
  <2> QED
    BY <1>1, <2>1, <2>2, <2>3, DraftOver
<1> QED
  BY <1>2, <1>3

-----------------------------------------------------------------------------
(* The outbox and the requests preserve Serial.                            *)

\* A thread goes on with the job it is sending.
LEMMA SendSerial ==
  ASSUME TypeOK, Serial, NEW p \in Threads, pc[p] \in Sending, pc'[p] \in Sending,
         \A q \in Threads \ {p} : pc'[q] = pc[q],
         Queue' = Queue, UNCHANGED <<nextId, draft, jobs, tangled>>
  PROVE  /\ IdsAgree'
         /\ \A x \in Calm' : x \in Calm /\ x \in Entries /\ Alone(x)' /\ Held(x)' /\ Settled(x)
         /\ \A x : ~Unsaved(p, x) /\ ~Unsaved(p, x)'
<1>1. IdsAgree' /\ Calm' = Calm
  BY IdsKept DEF Serial, Calm
<1>2. \A x, q : Busy(q, x)' /\ q \in Threads => Busy(q, x)
  BY DEF Busy, Drafting, Sending
<1>3. ASSUME NEW x \in Calm
      PROVE  x \in Entries /\ Alone(x)' /\ Held(x)' /\ Settled(x)
  BY <1>2, AloneKept, HeldKept DEF Serial, Calm
<1>4. \A x : ~Unsaved(p, x) /\ ~Unsaved(p, x)'
  BY DEF Unsaved, Sending
<1> QED
  BY <1>1, <1>3, <1>4

LEMMA AttemptSerial ==
  ASSUME TypeOK, Serial, NEW p \in Threads, Attempt(p) \/ Fail(p)
  PROVE  Serial'
<1>1. /\ pc[p] \in Sending /\ pc'[p] \in {"sent", "note"}
      /\ \A q \in Threads \ {p} : pc'[q] = pc[q]
      /\ UNCHANGED <<local, remote, nextId, draft, jobs, changes, wanted, tangled>>
  BY DEF Attempt, Fail, Goto, Sending, TypeOK
<1>2. Queue' = Queue
  <2>1. CASE Attempt(p)
    BY <2>1, TouchType DEF Attempt, TypeOK
  <2>2. CASE Fail(p)
    BY <2>2 DEF Fail, Queue
  <2> QED
    BY <2>1, <2>2
<1>3. pc'[p] \in Sending
  BY <1>1 DEF Sending
<1>4. ASSUME NEW x \in Calm' PROVE Settled(x)'
  <2>1. x \in Entries /\ Settled(x) /\ ~Unsaved(p, x) /\ ~Unsaved(p, x)' /\ ~Answered(p, x)'
    BY <1>1, <1>2, <1>3, SendSerial DEF Answered
  <2> QED
    BY <1>1, <1>2, <2>1, SettledKept
<1> QED
  BY <1>1, <1>2, <1>3, <1>4, SendSerial DEF Serial

\* What a thread sends for a calm entry is what the user wants.
LEMMA SentIsWanted ==
  ASSUME TypeOK, Serial, NEW p \in Threads, pc[p] \in Sending,
         Entry(Head(jobs[p])) \in Calm
  PROVE  /\ Head(jobs[p]) \in Queue
         /\ Head(jobs[p]).change.version = wanted[Entry(Head(jobs[p]))]
         /\ \A q \in Threads \ {p} : ~Busy(q, Entry(Head(jobs[p])))
<1> DEFINE x == Entry(Head(jobs[p]))
<1>1. 1 \in DOMAIN jobs[p] /\ Head(jobs[p]) = jobs[p][1] /\ Busy(p, x)
  BY JobsType
<1>2. Head(jobs[p]) \in Queue
  BY <1>1 DEF Serial, Held
<1>3. \A q \in Threads \ {p} : ~Busy(q, x)
  BY <1>1 DEF Serial, Alone
<1>4. \A q \in Threads : ~Unsaved(q, x)
  BY <1>3, UnsavedIsBusy DEF Sending
<1>5. Head(jobs[p]).change.version = wanted[x]
  BY <1>2, <1>4 DEF Serial, Settled
<1> QED
  BY <1>2, <1>3, <1>5

LEMMA ApplySerial ==
  ASSUME TypeOK, Serial, NEW p \in Threads, Apply(p)
  PROVE  Serial'
<1> DEFINE e == Entry(Head(jobs[p]))
<1>1. /\ pc[p] \in Sending /\ pc[p] = "sent" /\ pc'[p] = "applied" /\ pc'[p] \in Sending
      /\ \A q \in Threads \ {p} : pc'[q] = pc[q]
      /\ Queue' = Queue
      /\ UNCHANGED <<local, nextId, draft, jobs, changes, wanted, tangled>>
  BY DEF Apply, Goto, Sending, TypeOK, Queue
<1>2. e \in Entries
  BY <1>1, JobsType
<1>3. remote' = [remote EXCEPT ![e] = Head(jobs[p]).change.version]
  BY DEF Apply, Entry
<1>4. ASSUME NEW x \in Calm' PROVE Settled(x)'
  <2>1. /\ x \in Calm /\ x \in Entries /\ Settled(x)
        /\ ~Unsaved(p, x) /\ ~Unsaved(p, x)'
    BY <1>1, SendSerial
  <2>2. CASE x = e
    <3>1. remote'[x] = wanted'[x]
      BY <1>1, <1>2, <1>3, <2>1, <2>2, SentIsWanted DEF TypeOK
    <3>2. \A q \in Threads : Unsaved(q, x)' <=> Unsaved(q, x)
      BY <1>1, <2>1 DEF Unsaved
    <3> QED
      BY <1>1, <2>1, <3>1, <3>2 DEF Settled, Unsaved
  <2>3. CASE x # e
    <3>1. remote'[x] = remote[x] /\ ~Answered(p, x)'
      BY <1>1, <1>2, <1>3, <2>1, <2>3 DEF TypeOK, Answered, Entry
    <3> QED
      BY <1>1, <2>1, <3>1, SettledKept
  <2> QED
    BY <2>2, <2>3
<1> QED
  BY <1>1, <1>4, SendSerial DEF Serial

\* The jobs left are jobs it had.
LEMMA NextJobLeft ==
  ASSUME TypeOK, NEW p \in Threads, pc[p] \in Sending, NextJob(p)
  PROVE  /\ pc'[p] \in {"idle", "attempt"}
         /\ \A q \in Threads \ {p} : pc'[q] = pc[q] /\ jobs'[q] = jobs[q]
         /\ 1 \in DOMAIN jobs[p] /\ jobs[p][1] = Head(jobs[p])
         /\ \A i \in DOMAIN jobs'[p] :
              i \in Nat /\ i + 1 \in DOMAIN jobs[p] /\ i + 1 # 1 /\ jobs'[p][i] = jobs[p][i + 1]
<1>1. jobs[p] \in Seq(Jobs) /\ jobs[p] # <<>>
  BY DEF TypeOK
<1>2. jobs'[p] = Tail(jobs[p]) /\ pc'[p] \in {"idle", "attempt"}
  BY DEF NextJob, Goto, TypeOK
<1> DEFINE rest == Tail(jobs[p])
<1>3. /\ rest \in Seq(Jobs) /\ Len(rest) = Len(jobs[p]) - 1
      /\ \A i \in 1..Len(rest) : rest[i] = jobs[p][i + 1]
  BY <1>1, HeadTailProperties
<1>4. Len(jobs[p]) \in Nat \ {0} /\ DOMAIN jobs[p] = 1..Len(jobs[p]) /\ DOMAIN rest = 1..Len(rest)
  BY <1>1, <1>3, EmptySeq, LenProperties
<1> HIDE DEF rest
<1>5. \A i \in DOMAIN rest :
        i \in Nat /\ i + 1 \in DOMAIN jobs[p] /\ i + 1 # 1 /\ rest[i] = jobs[p][i + 1]
  BY <1>3, <1>4
<1>6. \A q \in Threads \ {p} : pc'[q] = pc[q] /\ jobs'[q] = jobs[q]
  BY DEF NextJob, Goto, TypeOK
<1>7. 1 \in DOMAIN jobs[p] /\ jobs[p][1] = Head(jobs[p])
  BY JobsType
<1> QED
  BY <1>2, <1>5, <1>6, <1>7 DEF rest

\* A thread is done with a job; Drop takes the row away, Note leaves it.
LEMMA NextJobSerial ==
  ASSUME TypeOK, Serial, NEW p \in Threads, pc[p] \in Sending, NextJob(p),
         \/ Queue' = Queue
         \/ Queue' = {j \in Queue : j.id # Head(jobs[p]).id} /\ pc[p] = "applied",
         UNCHANGED <<local, remote, nextId, draft, wanted, tangled>>
  PROVE  Serial'
<1> DEFINE h == Head(jobs[p])
<1>1. Calm' = Calm /\ Queue' \subseteq Queue
  BY DEF Calm
<1>2. IdsAgree'
  BY <1>1, NextJobLeft DEF Serial, IdsAgree
<1>3. \A x, q : Busy(q, x)' /\ q \in Threads => Busy(q, x)
  <2> SUFFICES ASSUME NEW x, NEW q \in Threads, Busy(q, x)' PROVE Busy(q, x)
    OBVIOUS
  <2>1. CASE q # p
    BY <2>1, NextJobLeft DEF Busy
  <2>2. CASE q = p
    BY <2>2, NextJobLeft DEF Busy, Drafting, Sending
  <2> QED
    BY <2>1, <2>2
<1>4. ASSUME NEW x \in Calm PROVE x \in Entries /\ Alone(x)' /\ Held(x) /\ Settled(x)
  BY <1>3, AloneKept DEF Serial, Calm
<1>5. ASSUME NEW x \in Calm, NEW j \in Queue, Entry(j) = x, Entry(h) # x PROVE j \in Queue'
  <2>1. j.id # h.id
    <3>1. j.id = jobs[p][1].id => SameKey(j.change, h.change)
      BY NextJobLeft DEF Serial, IdsAgree
    <3> QED
      BY <3>1, <1>5, NextJobLeft DEF SameKey, Entry
  <2> QED
    BY <2>1
<1>6. ASSUME NEW x \in Calm PROVE Held(x)'
  <2>1. \A j, k \in Queue' : Entry(j) = x /\ Entry(k) = x => j = k
    BY <1>1, <1>4 DEF Held
  <2>2. ASSUME NEW q \in Threads, NEW i \in DOMAIN jobs'[q], Entry(jobs'[q][i]) = x
        PROVE  jobs'[q][i] \in Queue'
    <3>1. CASE q # p
      <4>1. jobs'[q] = jobs[q] /\ jobs[q][i] \in Queue /\ Busy(q, x)
        <5>1. jobs'[q] = jobs[q]
          BY <3>1, NextJobLeft
        <5>2. jobs[q][i] \in Queue
          BY <1>4, <2>2, <5>1 DEF Held
        <5>3. pc[q] \in Sending
          BY <2>2, <5>1 DEF TypeOK
        <5> QED
          BY <2>2, <5>1, <5>2, <5>3 DEF Busy, Entry
      <4>2. Entry(h) # x
        <5>1. Busy(p, Entry(h))
          BY JobsType
        <5> QED
          BY <1>4, <3>1, <4>1, <5>1 DEF Serial, Alone
      <4> QED
        BY <1>5, <2>2, <4>1, <4>2
    <3>2. CASE q = p
      <4>1. /\ i + 1 \in DOMAIN jobs[p] /\ i + 1 # 1 /\ jobs'[p][i] = jobs[p][i + 1]
            /\ 1 \in DOMAIN jobs[p] /\ jobs[p][1] = h
        BY <2>2, <3>2, NextJobLeft
      <4>2. jobs[p][i + 1] \in Queue /\ Entry(jobs[p][i + 1]) = x
        BY <1>4, <2>2, <3>2, <4>1 DEF Held
      <4>3. Entry(h) # x
        BY <1>4, <4>1, <4>2 DEF Held
      <4> QED
        BY <1>5, <3>2, <4>1, <4>2, <4>3
    <3> QED
      BY <3>1, <3>2
  <2>3. ASSUME NEW q \in Threads, NEW i \in DOMAIN jobs'[q], NEW k \in DOMAIN jobs'[q],
               Entry(jobs'[q][i]) = x, Entry(jobs'[q][k]) = x
        PROVE  i = k
    <3>1. CASE q # p
      BY <1>4, <2>3, <3>1, NextJobLeft DEF Held
    <3>2. CASE q = p
      <4>1. /\ i + 1 \in DOMAIN jobs[p] /\ jobs'[p][i] = jobs[p][i + 1] /\ i \in Nat
            /\ k + 1 \in DOMAIN jobs[p] /\ jobs'[p][k] = jobs[p][k + 1] /\ k \in Nat
        BY <2>3, <3>2, NextJobLeft
      <4>2. i + 1 = k + 1
        BY <1>4, <2>3, <3>2, <4>1 DEF Held
      <4> QED
        BY <4>1, <4>2
    <3> QED
      BY <3>1, <3>2
  <2> QED
    BY <2>1, <2>2, <2>3 DEF Held, Entry
<1>7. ASSUME NEW x \in Calm PROVE Settled(x)'
  <2>1. ~Unsaved(p, x) /\ ~Unsaved(p, x)' /\ ~Answered(p, x)'
    BY NextJobLeft DEF Unsaved, Answered, Sending
  <2>2. CASE \A j : Entry(j) = x => (j \in Queue' <=> j \in Queue)
    BY <1>4, <2>1, <2>2, NextJobLeft, SettledKept
  <2>3. CASE ~(\A j : Entry(j) = x => (j \in Queue' <=> j \in Queue))
    <3>1. Entry(h) = x /\ pc[p] = "applied" /\ Queue' = {j \in Queue : j.id # h.id}
      BY <1>1, <1>5, <2>3
    <3>2. /\ h \in Queue /\ \A q \in Threads \ {p} : ~Busy(q, x)
      BY <3>1, SentIsWanted
    <3>3. \A j \in Queue' : Entry(j) # x
      BY <1>1, <1>4, <3>1, <3>2 DEF Held
    <3>4. remote[x] = wanted[x]
      BY <1>4, <3>1 DEF Settled, Answered
    <3>5. \A q \in Threads : Unsaved(q, x)' => FALSE
      BY <2>1, <3>2, NextJobLeft, UnsavedIsBusy DEF Unsaved
    <3> QED
      BY <3>3, <3>4, <3>5 DEF Settled
  <2> QED
    BY <2>2, <2>3
<1> QED
  BY <1>1, <1>2, <1>4, <1>6, <1>7 DEF Serial

LEMMA DropSerial ==
  ASSUME TypeOK, Serial, NEW p \in Threads, Drop(p) \/ Note(p)
  PROVE  Serial'
<1>1. /\ pc[p] \in Sending /\ NextJob(p)
      /\ UNCHANGED <<local, remote, nextId, draft, wanted, tangled>>
  BY DEF Drop, Note, Sending
<1>2. CASE Drop(p)
  <2>1. Queue' = {j \in Queue : j.id # Head(jobs[p]).id} /\ pc[p] = "applied"
    BY <1>2 DEF Drop, Queue
  <2> QED
    BY <1>1, <2>1, NextJobSerial
<1>3. CASE Note(p)
  <2>1. Queue' = Queue
    BY <1>3, TouchType DEF Note, TypeOK
  <2> QED
    BY <1>1, <2>1, NextJobSerial
<1> QED
  BY <1>2, <1>3

LEMMA EnqueueSerial ==
  ASSUME TypeOK, TypeOK', Serial, NEW p \in Threads, Enqueue(p)
  PROVE  Serial'
<1>0. PICK c, e : c = draft[p] /\ e = c.entry
  OBVIOUS
<1> DEFINE old == {r \in outbox : SameKey(r.job.change, c)}
           other == {r \in outbox \ old : r.job.change.entry = e}
<1>1. PICK i \in IF old = {} THEN {nextId} ELSE {r.job.id : r \in old} :
        /\ outbox' = (outbox \ old) \cup {[job |-> [id |-> i, change |-> c], age |-> 0]}
        /\ nextId' = IF old = {} THEN nextId + 1 ELSE nextId
        /\ jobs' = [jobs EXCEPT ![p] = <<[id |-> i, change |-> c]>>]
        /\ tangled' = tangled \cup {r.job.change.entry : r \in other}
  BY <1>0 DEF Enqueue
<1> DEFINE job == [id |-> i, change |-> c]
<1>2. /\ pc[p] = "enqueue" /\ pc'[p] = "attempt" /\ jobs'[p] = <<job>>
      /\ \A q \in Threads \ {p} : pc'[q] = pc[q] /\ draft'[q] = draft[q] /\ jobs'[q] = jobs[q]
      /\ UNCHANGED <<local, remote, changes, wanted>>
  BY <1>1 DEF Enqueue, Goto, TypeOK
<1>3. c \in Changes /\ Entry(job) = e /\ job.id = i /\ job.change = c /\ job \in Queue'
  <2>1. [job |-> job, age |-> 0] \in outbox'
    BY <1>1
  <2>2. job \in Queue'
    BY <2>1 DEF Queue
  <2> QED
    BY <1>0, <2>2 DEF TypeOK, Entry
<1>4. Queue' = {j \in Queue : ~SameKey(j.change, c)} \cup {job}
  BY <1>1, <1>3 DEF Queue
<1>5. ASSUME old # {}
      PROVE  \E j \in Queue : j.id = i /\ SameKey(j.change, c)
  BY <1>1, <1>5 DEF Queue
<1>6. IdsAgree'
  <2>1. nextId \in Nat /\ nextId' \in Nat /\ nextId <= nextId'
    BY <1>1 DEF TypeOK, OutboxOK
  <2>2. ASSUME NEW q \in Threads \ {p}, NEW k \in DOMAIN jobs[q]
        PROVE  /\ jobs[q][k].id < nextId'
               /\ \A j \in Queue' : j.id = jobs[q][k].id => SameKey(j.change, jobs[q][k].change)
    <3>1. jobs[q][k].id < nextId /\ jobs[q][k].id \in Nat
      BY JobsType DEF Serial, IdsAgree, Jobs
    <3>2. ASSUME i = jobs[q][k].id PROVE SameKey(c, jobs[q][k].change)
      <4>1. old # {}
        BY <1>1, <2>1, <3>1, <3>2
      <4>2. PICK j \in Queue : j.id = i /\ SameKey(j.change, c)
        BY <1>5, <4>1
      <4>3. SameKey(j.change, jobs[q][k].change)
        BY <3>2, <4>2 DEF Serial, IdsAgree
      <4> QED
        BY <4>2, <4>3 DEF SameKey
    <3>3. \A j \in Queue : j.id = jobs[q][k].id => SameKey(j.change, jobs[q][k].change)
      BY DEF Serial, IdsAgree
    <3>4. jobs[q][k].id < nextId'
      BY <2>1, <3>1
    <3> HIDE DEF job
    <3> QED
      BY <1>3, <1>4, <3>2, <3>3, <3>4
  <2>3. job.id < nextId' /\ \A j \in Queue' : j.id = job.id => SameKey(j.change, job.change)
    <3>1. /\ \A j, k \in Queue' : j.id = k.id \/ SameKey(j.change, k.change) => j = k
          /\ \A j \in Queue' : j.id < nextId'
      <4>1. KeysDiffer'
        BY QueueKeys, PTL
      <4> QED
        BY <4>1 DEF KeysDiffer
    <3> QED
      BY <1>3, <3>1 DEF SameKey
  <2>4. \A k \in DOMAIN jobs'[p] : jobs'[p][k] = job
    BY <1>2
  <2> HIDE DEF job
  <2> QED
    BY <1>2, <2>2, <2>3, <2>4 DEF IdsAgree
<1> HIDE DEF job
<1>7. \A k \in DOMAIN jobs'[p] : k = 1 /\ jobs'[p][k] = job
  BY <1>2
<1>8. ASSUME NEW x \in Calm' PROVE x \in Calm /\ x \in Entries /\ Alone(x) /\ Held(x) /\ Settled(x)
  BY <1>1 DEF Calm, Serial
<1>9. Busy(p, e)
  BY <1>0, <1>2 DEF Busy, Drafting
<1>10. ASSUME NEW x \in Calm' PROVE Alone(x)'
  <2>1. ASSUME NEW q \in Threads, Busy(q, x)' PROVE Busy(q, x)
    <3>1. CASE q # p
      BY <1>2, <2>1, <3>1 DEF Busy
    <3>2. CASE q = p
      <4>1. x = e
        BY <1>0, <1>2, <1>3, <1>7, <2>1, <3>2 DEF Busy, Drafting, Entry
      <4> QED
        BY <1>9, <3>2, <4>1
    <3> QED
      BY <3>1, <3>2
  <2> QED
    BY <1>8, <2>1, AloneKept
<1>11. ASSUME e \in Calm'
       PROVE  /\ \A j \in Queue' : Entry(j) = e => j = job
              /\ \A q \in Threads \ {p} : ~Busy(q, e) /\ ~Busy(q, e)'
  <2>1. other = {}
    BY <1>1, <1>11 DEF Calm
  <2>2. \A j \in Queue : Entry(j) = e => SameKey(j.change, c)
    BY <2>1 DEF Queue, Entry
  <2>3. \A q \in Threads \ {p} : ~Busy(q, e)
    BY <1>8, <1>9, <1>11 DEF Alone
  <2>4. \A q \in Threads \ {p} : ~Busy(q, e)'
    BY <1>2, <2>3 DEF Busy
  <2> QED
    BY <1>4, <2>2, <2>3, <2>4
<1>12. \A x, j : x # e /\ Entry(j) = x => (j \in Queue' <=> j \in Queue)
  BY <1>3, <1>4 DEF SameKey, Entry
<1>13. ASSUME NEW q \in Threads, NEW k \in DOMAIN jobs'[q], Entry(jobs'[q][k]) = e, q # p
       PROVE  Busy(q, e)'
  <2>1. jobs'[q] # <<>>
    BY <1>13
  <2>2. pc'[q] \in Sending
    BY <2>1 DEF TypeOK
  <2> QED
    BY <1>13, <2>2 DEF Busy, Entry
<1>14. ASSUME NEW x \in Calm' PROVE Held(x)'
  <2>1. CASE x = e
    <3>1. \A q \in Threads \ {p} : \A k \in DOMAIN jobs'[q] : Entry(jobs'[q][k]) # e
      BY <1>11, <1>13, <2>1
    <3> QED
      BY <1>3, <1>7, <1>11, <2>1, <3>1 DEF Held, Entry
  <2>2. CASE x # e
    <3>1. \A k \in DOMAIN jobs'[p] : Entry(jobs'[p][k]) # x
      BY <1>3, <1>7, <2>2
    <3>2. Held(x) /\ \A q \in Threads \ {p} : jobs'[q] = jobs[q]
      BY <1>2, <1>8
    <3>3. \A j, k \in Queue' : Entry(j) = x /\ Entry(k) = x => j = k
      BY <1>12, <2>2, <3>2 DEF Held
    <3>4. \A q \in Threads : \A k \in DOMAIN jobs'[q] :
            Entry(jobs'[q][k]) = x => jobs'[q][k] \in Queue'
      BY <1>12, <2>2, <3>1, <3>2 DEF Held
    <3>5. \A q \in Threads : \A k, l \in DOMAIN jobs'[q] :
            Entry(jobs'[q][k]) = x /\ Entry(jobs'[q][l]) = x => k = l
      BY <3>1, <3>2 DEF Held
    <3> QED
      BY <3>3, <3>4, <3>5 DEF Held, Entry
  <2> QED
    BY <2>1, <2>2
<1>15. ASSUME NEW x \in Calm' PROVE Settled(x)'
  <2>1. ~Unsaved(p, x)' /\ ~Answered(p, x)'
    BY <1>2 DEF Unsaved, Answered
  <2>2. CASE x = e
    <3>1. job.change.version = wanted'[e]
      <4>1. Unsaved(p, e)
        BY <1>0, <1>2 DEF Unsaved
      <4> QED
        BY <1>0, <1>2, <1>3, <1>8, <2>2, <4>1 DEF Settled
    <3>2. \A q \in Threads : ~Unsaved(q, e)'
      BY <1>11, <2>1, <2>2, UnsavedIsBusy DEF Unsaved, Busy, Drafting
    <3>3. \A q \in Threads : ~Answered(q, e)'
      <4>1. HeadBusy'
        BY HeadIsBusy, PTL
      <4> QED
        BY <1>11, <2>1, <2>2, <4>1 DEF HeadBusy, Answered, Sending
    <3>4. job \in Queue' /\ Entry(job) = e /\ \A j \in Queue' : Entry(j) = e => j = job
      BY <1>3, <1>11, <2>2
    <3> QED
      BY <2>2, <3>1, <3>2, <3>3, <3>4 DEF Settled, Entry
  <2>3. CASE x # e
    <3>1. ~Unsaved(p, x)
      BY <1>0, <2>3 DEF Unsaved
    <3> QED
      BY <1>2, <1>8, <1>12, <2>1, <2>3, <3>1, SettledKept
  <2> QED
    BY <2>2, <2>3
<1> QED
  BY <1>6, <1>10, <1>14, <1>15 DEF Serial

LEMMA RetrySerial ==
  ASSUME TypeOK, Serial, NEW p \in Threads, Retry(p)
  PROVE  Serial'
<1> DEFINE n == IF Cardinality(outbox) < BatchLimit THEN Cardinality(outbox) ELSE BatchLimit
<1>1. n \in Nat
  BY FS_CardinalityType, ConstantsAssumption DEF ConstantsAssumption, TypeOK, OutboxOK
<1> HIDE DEF n
<1>2. PICK s \in Oldest(n) :
        /\ jobs' = [jobs EXCEPT ![p] = [i \in 1..n |-> s[i].job]]
        /\ tangled' = tangled \cup Overlap({s[i].job.change.entry : i \in 1..n})
  BY DEF Retry, n
<1>3. /\ DOMAIN jobs'[p] = 1..n
      /\ \A i \in 1..n : s[i] \in outbox /\ jobs'[p][i] = s[i].job /\ jobs'[p][i] \in Queue
  BY <1>2 DEF TypeOK, Oldest, Queue
<1>4. /\ pc[p] = "idle" /\ pc'[p] = "attempt" /\ Queue' = Queue
      /\ \A q \in Threads \ {p} : pc'[q] = pc[q] /\ jobs'[q] = jobs[q]
      /\ UNCHANGED <<local, remote, nextId, draft, wanted>>
  BY <1>2 DEF Retry, Goto, TypeOK, Queue
<1>5. IdsAgree'
  <2>1. \A i \in DOMAIN jobs'[p] :
          /\ jobs'[p][i].id < nextId
          /\ \A j \in Queue : j.id = jobs'[p][i].id => SameKey(j.change, jobs'[p][i].change)
    BY <1>3, QueueType DEF SameKey
  <2> QED
    BY <1>4, <2>1 DEF Serial, IdsAgree
<1>6. ASSUME NEW x \in Calm' PROVE x \in Entries /\ Alone(x) /\ Held(x) /\ Settled(x)
  BY <1>2 DEF Calm, Serial
<1>7. \A x : \A q \in Threads \ {p} : Busy(q, x)' <=> Busy(q, x)
  BY <1>4 DEF Busy
<1>8. ASSUME NEW x \in Calm', Busy(p, x)' PROVE \A q \in Threads : ~Busy(q, x)
  <2>1. PICK i \in DOMAIN jobs'[p] : Entry(jobs'[p][i]) = x
    BY <1>4, <1>8 DEF Busy, Drafting, Entry
  <2>2. x \in {s[k].job.change.entry : k \in 1..n}
    BY <1>3, <2>1 DEF Entry
  <2> QED
    BY <1>2, <2>2 DEF Calm, Overlap
<1>9. ASSUME NEW x \in Calm' PROVE Alone(x)'
  <2>1. CASE Busy(p, x)'
    BY <1>7, <1>8, <2>1, AloneBegun
  <2>2. CASE ~Busy(p, x)'
    BY <1>6, <1>7, <2>2, AloneKept
  <2> QED
    BY <2>1, <2>2
<1>10. ASSUME NEW x \in Calm' PROVE Held(x)'
  <2>1. \A j, k \in Queue' : Entry(j) = x /\ Entry(k) = x => j = k
    BY <1>4, <1>6 DEF Held
  <2>2. \A q \in Threads : \A i \in DOMAIN jobs'[q] :
          Entry(jobs'[q][i]) = x => jobs'[q][i] \in Queue'
    BY <1>3, <1>4, <1>6 DEF Held
  <2>3. ASSUME NEW i \in DOMAIN jobs'[p], NEW k \in DOMAIN jobs'[p],
               Entry(jobs'[p][i]) = x, Entry(jobs'[p][k]) = x
        PROVE  i = k
    <3>1. s[i].job = s[k].job
      BY <1>3, <1>4, <2>1, <2>3
    <3>2. s[i] = s[k]
      BY <1>3, <3>1 DEF TypeOK, OutboxOK
    <3>3. s[i] \in Rows
      BY <1>3 DEF TypeOK, OutboxOK
    <3>4. ~Before(s[i], s[k]) /\ ~Before(s[k], s[i])
      BY <3>2, <3>3 DEF Before, Rows, Jobs
    <3>5. ~(i < k) /\ ~(k < i)
      BY <1>3, <3>4 DEF Oldest
    <3> QED
      BY <1>1, <1>3, <3>5
  <2>4. \A q \in Threads : \A i, k \in DOMAIN jobs'[q] :
          Entry(jobs'[q][i]) = x /\ Entry(jobs'[q][k]) = x => i = k
    BY <1>4, <1>6, <2>3 DEF Held
  <2> QED
    BY <2>1, <2>2, <2>4 DEF Held, Entry
<1>11. ASSUME NEW x \in Calm' PROVE Settled(x)'
  <2>1. ~Unsaved(p, x) /\ ~Unsaved(p, x)' /\ ~Answered(p, x)'
    BY <1>4 DEF Unsaved, Answered
  <2> QED
    BY <1>4, <1>6, <2>1, SettledKept
<1> QED
  BY <1>5, <1>9, <1>10, <1>11 DEF Serial

LEMMA CrashSerial ==
  ASSUME TypeOK, Serial, Crash
  PROVE  Serial'
<1>1. /\ Queue' = Queue /\ UNCHANGED <<local, nextId, remote, wanted>>
      /\ \A q \in Threads : pc'[q] = "idle" /\ DOMAIN jobs'[q] = {}
  BY DEF Crash, Queue
<1>2. ASSUME NEW x \in Calm'
      PROVE  x \in Entries /\ Held(x) /\ Settled(x) /\ \A q \in Threads : ~Unsaved(q, x)
  BY DEF Crash, Calm, Serial, Unsaved
<1>3. IdsAgree'
  BY <1>1 DEF IdsAgree
<1>4. ASSUME NEW x \in Calm' PROVE Alone(x)' /\ Held(x)' /\ Settled(x)'
  <2>1. Alone(x)'
    BY <1>1 DEF Alone, Busy, Drafting, Sending
  <2>2. Held(x)'
    BY <1>1, <1>2 DEF Held
  <2>3. \A q \in Threads : ~Unsaved(q, x)' /\ ~Answered(q, x)'
    BY <1>1 DEF Unsaved, Answered
  <2>4. Settled(x)'
    BY <1>1, <1>2, <2>3, SettledKept
  <2> QED
    BY <2>1, <2>2, <2>4
<1> QED
  BY <1>3, <1>4 DEF Serial

LEMMA AgingSerial ==
  ASSUME TypeOK, Serial, Queue' = Queue,
         UNCHANGED <<local, remote, nextId, pc, draft, jobs, wanted, tangled>>
  PROVE  Serial'
BY DEF Serial, IdsAgree, Calm, Alone, Busy, Held, Settled, Unsaved, Answered, Entry

-----------------------------------------------------------------------------
(* Serial is an invariant, and what follows from it.                       *)

Quiet == Serial /\ RemovalIsBare

LEMMA SerialStep == TypeOK /\ TypeOK' /\ Quiet /\ [Next]_vars => Quiet'
<1> SUFFICES ASSUME TypeOK, TypeOK', Serial, RemovalIsBare, [Next]_vars PROVE Serial'
  BY RemovalStep DEF Quiet
<1>1. ASSUME NEW p \in Calls, Start(p) PROVE Serial'
  BY <1>1, StartSerial DEF Threads
<1>2. ASSUME NEW p \in Retriers, Retry(p) PROVE Serial'
  BY <1>2, RetrySerial DEF Threads
<1>3. ASSUME NEW p \in Threads, Continue(p) PROVE Serial'
  BY <1>3, RereadSerial, WriteBackSerial, StoreSerial, EnqueueSerial, RemoveSerial,
     AttemptSerial, ApplySerial, DropSerial DEF Continue
<1>4. CASE NextSecond
  <2>1. Queue' = Queue
    BY <1>4, NextSecondType DEF TypeOK
  <2> QED
    BY <1>4, <2>1, AgingSerial DEF NextSecond
<1>5. CASE Crash
  BY <1>5, CrashSerial
<1>6. CASE UNCHANGED vars
  BY <1>6, AgingSerial DEF vars, Queue
<1> QED
  BY <1>1, <1>2, <1>3, <1>4, <1>5, <1>6 DEF Next

LEMMA InitSerial == Init => Quiet
<1> SUFFICES ASSUME Init PROVE Serial /\ RemovalIsBare
  BY DEF Quiet
<1>1. /\ Queue = {} /\ local = [e \in Entries |-> Absent]
      /\ \A e \in Entries : wanted[e] = 0 /\ remote[e] = 0
      /\ \A p \in Threads : pc[p] = "idle" /\ DOMAIN jobs[p] = {}
  BY DEF Init, Queue
<1>2. IdsAgree
  BY <1>1 DEF IdsAgree
<1>3. ASSUME NEW e \in Calm PROVE Alone(e) /\ Held(e) /\ Settled(e)
  <2>1. e \in Entries
    BY DEF Calm
  <2>2. \A p \in Threads : ~Busy(p, e) /\ ~Unsaved(p, e) /\ ~Answered(p, e)
    BY <1>1 DEF Busy, Unsaved, Answered, Drafting, Sending
  <2> QED
    BY <1>1, <2>1, <2>2 DEF Alone, Held, Settled
<1> QED
  BY <1>1, <1>2, <1>3 DEF Serial, RemovalIsBare

\* While an entry is changed by one thread at a time, the list, the outbox, the
\* threads and AniList agree about it as Serial says.
THEOREM SerialInvariant == Spec => []Quiet
BY TypeCorrect, InitSerial, SerialStep, PTL DEF Spec

\* No saved change is lost between the list, the outbox and AniList, as long
\* as its entry is changed by one thread at a time.
THEOREM SavedChangesNotLost == Spec => []SavedChangesArrive
<1>1. Quiet => SavedChangesArrive
  <2> SUFFICES ASSUME Serial, NEW e \in Entries \ tangled, wanted[e] # remote[e]
               PROVE  \/ \E r \in outbox : r.job.change.entry = e /\ r.job.change.version = wanted[e]
                      \/ \E p \in Threads : pc[p] \in {"reread", "complete", "enqueue"} /\ draft[p].entry = e
    BY DEF Quiet, SavedChangesArrive
  <2>1. \/ \E j \in Queue : Entry(j) = e /\ j.change.version = wanted[e]
        \/ \E p \in Threads : Unsaved(p, e)
    BY DEF Serial, Calm, Settled
  <2> QED
    BY <2>1 DEF Queue, Entry, Unsaved
<1> QED
  BY <1>1, SerialInvariant, PTL

\* A change on AniList is always to what the user wants, never to an older
\* version, as long as the entry is changed by one thread at a time.
THEOREM NothingStaleIsSent == Spec => OnlyTheWantedIsSent
<1> DEFINE Wanted == \A e \in Entries \ tangled : remote'[e] # remote[e] => remote'[e] = wanted[e]
<1>1. TypeOK /\ Quiet /\ [Next]_vars => [Wanted]_vars
  <2> SUFFICES ASSUME TypeOK, Serial, [Next]_vars, NEW e \in Calm, remote'[e] # remote[e]
               PROVE  remote'[e] = wanted[e]
    BY DEF Quiet, Calm
  <2>1. PICK p \in Threads : Apply(p)
    BY DEF Next, vars, Start, Add, Edit, Track, ReadToRemove, Clear, Pull, Retry, Continue,
           Reread, WriteBack, Store, Enqueue, Remove, Attempt, Fail, Drop, Note,
           NextSecond, Crash
  <2>2. pc[p] \in Sending
    BY <2>1 DEF Apply, Sending
  <2>3. Entry(Head(jobs[p])) = e /\ remote'[e] = Head(jobs[p]).change.version
    BY <2>1 DEF Apply, Entry, TypeOK, Calm
  <2> QED
    BY <2>2, <2>3, SentIsWanted
<1> QED
  BY <1>1, TypeCorrect, SerialInvariant, PTL DEF Spec, OnlyTheWantedIsSent

----------------------------------------------------------------------------
(* OAuthLogin: the logins that connect the account the outbox is for. *)
CONSTANTS Logins, MaxPages, None
VARIABLES port, channel, told, login, token, pages

OL == INSTANCE OAuthLogin

(* StartCallbackServer and WaitForCode: whatever pages come back, and to whom, the
   port is with the one login that waits for a page, or with none. *)
THEOREM LoginTypeCorrect ==
  ASSUME OL!OAuthLoginAssumption
  PROVE  OL!Spec => []OL!TypeOK
<1>1. OL!Init => OL!TypeOK
  BY DEF OL!Init, OL!TypeOK, OL!OAuthLoginAssumption
<1>2. OL!TypeOK /\ [OL!Next]_(OL!vars) => OL!TypeOK'
  <2> SUFFICES ASSUME OL!TypeOK, [OL!Next]_(OL!vars) PROVE OL!TypeOK'
    OBVIOUS
  <2> USE DEF OL!TypeOK, OL!OAuthLoginAssumption, OL!Becomes
  <2>1. ASSUME NEW l \in Logins, OL!Start(l) PROVE OL!TypeOK'
    BY <2>1 DEF OL!Start
  <2>2. ASSUME NEW l \in Logins, OL!WaitForCode(l) PROVE OL!TypeOK'
    BY <2>2 DEF OL!WaitForCode, OL!Close
  <2>3. ASSUME NEW l \in Logins, OL!Exchange(l) \/ OL!View(l) PROVE OL!TypeOK'
    BY <2>3 DEF OL!Exchange, OL!View, OL!Advance
  <2>4. ASSUME NEW l \in Logins, OL!Save(l) PROVE OL!TypeOK'
    BY <2>4 DEF OL!Save
  <2>5. CASE OL!Page
    BY <2>5 DEF OL!Page
  <2>6. CASE OL!Logout \/ UNCHANGED OL!vars
    BY <2>6 DEF OL!Logout, OL!vars
  <2> QED
    BY <2>1, <2>2, <2>3, <2>4, <2>5, <2>6 DEF OL!Next, OL!Step
<1> QED
  BY <1>1, <1>2, PTL DEF OL!Spec
=============================================================================
