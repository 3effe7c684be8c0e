------------------------------- MODULE ListSync -------------------------------
(***************************************************************************)
(* The user's list and its copy on AniList: the list operations of app.go, *)
(* the outbox of listsync.go and backend/db/remote_sync.go.  An operation  *)
(* saves the entry, puts the change in the outbox and sends it; a row that *)
(* could not be sent stays for "retry".                                    *)
(*                                                                         *)
(* An entry is one anime or manga.  Its contents are the number of the     *)
(* change that wrote them; 0 is "not in the list".  A payload is the       *)
(* version it carries, 0 for a deletion.  The status and retry_count of a  *)
(* row only feed the settings page and are left out: every row is listed   *)
(* for retry.                                                              *)
(***************************************************************************)
EXTENDS Integers, Sequences, FiniteSets

CONSTANTS
  Entries,     \* AniList ids (of one media type)
  MalIds,      \* MyAnimeList ids an entry may be given; 0 is unknown
  Calls,       \* threads of list operations, each any number of times
  Retriers,    \* threads of RetryRemoteListSync
  BatchLimit,  \* rows one retry takes (100)
  MaxChanges   \* bound: changes made by list operations

ASSUME ConstantsAssumption ==
  /\ Entries # {}
  /\ MalIds \subseteq Nat
  /\ 0 \in MalIds
  /\ Calls \cap Retriers = {}
  /\ BatchLimit \in Nat \ {0}
  /\ MaxChanges \in Nat

Threads == Calls \cup Retriers
Actions == {"upsert", "delete"}
Changes == [entry: Entries, mal: MalIds, action: Actions, version: Nat]
Jobs    == [id: Nat \ {0}, change: Changes]
Rows    == [job: Jobs, age: Nat]

Absent  == [version |-> 0, mal |-> 0]

VARIABLES
  local,    \* local[e]: the row of anime_list or manga_list
  remote,   \* remote[e]: the version AniList has
  outbox,   \* remote_list_sync_queue; age counts later seconds of updated_at
  nextId,   \* AUTOINCREMENT of the outbox
  pc,       \* pc[p]: where thread p is
  draft,    \* draft[p]: the change p is making, before it is in the outbox
  jobs,     \* jobs[p]: what p has still to send, in order
  changes,  \* the number of the latest change
  \* History, read by the properties only:
  wanted,   \* wanted[e]: the version the user asked AniList to have
  tangled   \* entries not changed one at a time, or with a change lost by a crash

memory == <<pc, draft, jobs>>
disk   == <<local, outbox, nextId>>
asked  == <<changes, wanted>>
vars   == <<local, remote, outbox, nextId, pc, draft, jobs, changes, wanted, tangled>>

NoDraft == [entry |-> CHOOSE e \in Entries : TRUE, mal |-> 0,
            action |-> "upsert", version |-> 0]

Init ==
  /\ local = [e \in Entries |-> Absent]
  /\ remote = [e \in Entries |-> 0]
  /\ outbox = {}
  /\ nextId = 1
  /\ pc = [p \in Threads |-> "idle"]
  /\ draft = [p \in Threads |-> NoDraft]
  /\ jobs = [p \in Threads |-> <<>>]
  /\ changes = 0
  /\ wanted = [e \in Entries |-> 0]
  /\ tangled = {}

-----------------------------------------------------------------------------
(* What the operations are made of.                                        *)

Drafting == {"reread", "complete", "track", "remove", "purge", "store", "enqueue"}
Sending  == {"attempt", "sent", "applied", "note"}

\* Thread p is in the middle of something about entry e.
Busy(p, e) ==
  \/ pc[p] \in Drafting /\ draft[p].entry = e
  \/ pc[p] \in Sending /\ \E i \in DOMAIN jobs[p] : jobs[p][i].change.entry = e

\* Entries of S that a thread is already busy with.
Overlap(S) == {e \in S : \E p \in Threads : Busy(p, e)}

\* UNIQUE(provider, media_type, action, media_key); the key holds both ids.
SameKey(c, d) == c.entry = d.entry /\ c.mal = d.mal /\ c.action = d.action

\* Mutant: last_attempt_at is updated and updated_at is not.
TouchNothing(i) == outbox

\* UPDATE ... SET updated_at = CURRENT_TIMESTAMP WHERE id = i
Touch(i) == {IF r.job.id = i THEN [r EXCEPT !.age = 0] ELSE r : r \in outbox}

\* ORDER BY updated_at ASC, id ASC
Before(q, r) == q.age > r.age \/ (q.age = r.age /\ q.job.id < r.job.id)

\* The first n rows in that order.
Oldest(n) ==
  {s \in [1..n -> outbox] :
     /\ \A i, j \in 1..n : i < j => Before(s[i], s[j])
     /\ \A r \in outbox : r \in {s[i] : i \in 1..n} \/ \A i \in 1..n : Before(s[i], r)}

Goto(p, label) == pc' = [pc EXCEPT ![p] = label]

Return(p) ==
  /\ Goto(p, "idle")
  /\ draft' = [draft EXCEPT ![p] = NoDraft]

\* p goes to label with a change of e in hand; chooseResolvedInt keeps a known mal.
Begin(p, e, mal, action, version, label) ==
  /\ pc[p] = "idle"
  /\ tangled' = tangled \cup Overlap({e})
  /\ draft' = [draft EXCEPT ![p] =
                 [entry |-> e, mal |-> mal, action |-> action, version |-> version]]
  /\ Goto(p, label)

\* One more change by the user.
Change ==
  /\ changes < MaxChanges
  /\ changes' = changes + 1

\* A save of e that AniList is to receive.
Save(e, mal) ==
  /\ Change
  /\ local' = [local EXCEPT ![e] = [version |-> changes + 1, mal |-> mal]]
  /\ wanted' = [wanted EXCEPT ![e] = changes + 1]

-----------------------------------------------------------------------------
(* List operations.                                                        *)

\* AddToAnimeList, AddToMangaList: save, then on to the outbox.
Add(p, e, mal) ==
  /\ Begin(p, e, mal, "upsert", changes + 1, "enqueue")
  /\ Save(e, mal)
  /\ UNCHANGED <<remote, outbox, nextId, jobs>>

\* UpdateAnimeListStatus, ...Progress, ...Score: one UPDATE of the entry.
Edit(p, e) ==
  /\ Begin(p, e, 0, "upsert", 0, "reread")
  /\ \/ local[e].version # 0 /\ Save(e, local[e].mal)
     \/ local[e].version = 0 /\ Change /\ UNCHANGED <<local, wanted>>
  /\ UNCHANGED <<remote, outbox, nextId, jobs>>

\* The entry is read back.  UpdateAnimeListProgress may find it finished.
Reread(p) ==
  /\ pc[p] = "reread"
  /\ LET e == draft[p].entry
     IN  \/ /\ local[e].version # 0
            /\ draft' = [draft EXCEPT ![p] =
                           [@ EXCEPT !.mal = local[e].mal, !.version = local[e].version]]
            /\ \E label \in {"enqueue", "complete"} : Goto(p, label)
         \/ local[e].version = 0 /\ Return(p)
  /\ UNCHANGED <<local, remote, outbox, nextId, jobs, changes, wanted, tangled>>

\* ensurePassiveAnimeTracked, ensurePassiveMangaTracked: read the entry, or make one.
Track(p, e, mal) ==
  /\ Begin(p, e, IF local[e].mal # 0 THEN local[e].mal ELSE mal, "upsert", 0, "track")
  /\ UNCHANGED <<local, remote, outbox, nextId, jobs, changes, wanted>>

\* Write back the whole entry that was read, changed.
WriteBack(p) ==
  /\ pc[p] \in {"complete", "track"}
  /\ Save(draft[p].entry, draft[p].mal)
  /\ draft' = [draft EXCEPT ![p].version = changes + 1]
  /\ Goto(p, "enqueue")
  /\ UNCHANGED <<remote, outbox, nextId, jobs, tangled>>

\* RemoveFromAnimeList, RemoveFromMangaList: read the entry ...
ReadToRemove(p, e) ==
  /\ Begin(p, e, local[e].mal, "delete", 0,
           IF local[e].version = 0 THEN "purge" ELSE "remove")
  /\ UNCHANGED <<local, remote, outbox, nextId, jobs, changes, wanted>>

\* ... and delete it, on AniList too if it was there and the user says so.
Remove(p, syncRemote) ==
  /\ pc[p] \in {"remove", "purge"}
  /\ LET e == draft[p].entry
     IN  /\ local' = [local EXCEPT ![e] = Absent]
         /\ \/ /\ pc[p] = "remove" /\ syncRemote
               /\ Change
               /\ wanted' = [wanted EXCEPT ![e] = 0]
               /\ Goto(p, "enqueue")
               /\ UNCHANGED draft
            \/ /\ pc[p] = "purge" \/ ~syncRemote
               /\ UNCHANGED <<changes, wanted>>
               /\ Return(p)
  /\ UNCHANGED <<remote, outbox, nextId, jobs, tangled>>

\* ClearAnimeList, ClearMangaList: local only.
Clear(p) ==
  /\ pc[p] = "idle"
  /\ local' = [e \in Entries |-> Absent]
  /\ tangled' = tangled \cup Overlap(Entries)
  /\ UNCHANGED <<remote, outbox, nextId, memory, changes, wanted>>

\* SyncAniListLists, for one entry of the list it downloads: read there ...
Pull(p, e, mal) ==
  /\ remote[e] # 0
  /\ Begin(p, e, mal, "upsert", remote[e], "store")
  /\ UNCHANGED <<local, remote, outbox, nextId, jobs, changes, wanted>>

\* ... and store here, whatever is queued for it.
Store(p) ==
  /\ pc[p] = "store"
  /\ local' = [local EXCEPT ![draft[p].entry] =
                 [version |-> draft[p].version, mal |-> draft[p].mal]]
  /\ Return(p)
  /\ UNCHANGED <<remote, outbox, nextId, jobs, changes, wanted, tangled>>

-----------------------------------------------------------------------------
(* The outbox and AniList.                                                 *)

\* Mutant: ON CONFLICT DO NOTHING, the old payload stays.
EnqueueKeepsOld(p) ==
  /\ pc[p] = "enqueue"
  /\ LET c     == draft[p]
         old   == {r \in outbox : SameKey(r.job.change, c)}
         other == {r \in outbox \ old : r.job.change.entry = c.entry}
         new   == [id |-> nextId, change |-> c]
     IN  \E job \in IF old = {} THEN {new} ELSE {r.job : r \in old} :
           /\ outbox' = (outbox \ old) \cup {[job |-> job, age |-> 0]}
           /\ nextId' = IF old = {} THEN nextId + 1 ELSE nextId
           /\ jobs' = [jobs EXCEPT ![p] = <<job>>]
           /\ tangled' = tangled \cup {r.job.change.entry : r \in other}
  /\ Goto(p, "attempt")
  /\ draft' = [draft EXCEPT ![p] = NoDraft]
  /\ UNCHANGED <<local, remote, changes, wanted>>

\* enqueueRemoteSyncJob: one row for a key; a row that is there keeps its id.
Enqueue(p) ==
  /\ pc[p] = "enqueue"
  /\ LET c     == draft[p]
         old   == {r \in outbox : SameKey(r.job.change, c)}
         other == {r \in outbox \ old : r.job.change.entry = c.entry}
     IN  \E i \in IF old = {} THEN {nextId} ELSE {r.job.id : r \in old} :
           /\ outbox' = (outbox \ old) \cup
                          {[job |-> [id |-> i, change |-> c], age |-> 0]}
           /\ nextId' = IF old = {} THEN nextId + 1 ELSE nextId
           /\ jobs' = [jobs EXCEPT ![p] = <<[id |-> i, change |-> c]>>]
           /\ tangled' = tangled \cup {r.job.change.entry : r \in other}
  /\ Goto(p, "attempt")
  /\ draft' = [draft EXCEPT ![p] = NoDraft]
  /\ UNCHANGED <<local, remote, changes, wanted>>

\* Mutant: the query has no LIMIT.
RetryAll(p) ==
  /\ pc[p] = "idle"
  /\ outbox # {}
  /\ \E s \in Oldest(Cardinality(outbox)) :
       /\ jobs' = [jobs EXCEPT ![p] = [i \in DOMAIN s |-> s[i].job]]
       /\ tangled' = tangled \cup Overlap({s[i].job.change.entry : i \in DOMAIN s})
  /\ Goto(p, "attempt")
  /\ UNCHANGED <<local, remote, outbox, nextId, draft, changes, wanted>>

\* RetryRemoteListSync: the rows that waited longest.
Retry(p) ==
  /\ pc[p] = "idle"
  /\ outbox # {}
  /\ LET n == IF Cardinality(outbox) < BatchLimit THEN Cardinality(outbox) ELSE BatchLimit
     IN  \E s \in Oldest(n) :
           /\ jobs' = [jobs EXCEPT ![p] = [i \in 1..n |-> s[i].job]]
           /\ tangled' = tangled \cup Overlap({s[i].job.change.entry : i \in 1..n})
  /\ Goto(p, "attempt")
  /\ UNCHANGED <<local, remote, outbox, nextId, draft, changes, wanted>>

\* executeRemoteSyncJob: MarkRemoteListSyncJobAttempted, then the request.
Attempt(p) ==
  /\ pc[p] = "attempt"
  /\ outbox' = Touch(Head(jobs[p]).id)
  /\ Goto(p, "sent")
  /\ UNCHANGED <<local, remote, nextId, draft, jobs, changes, wanted, tangled>>

\* AniList carries out the request.
Apply(p) ==
  /\ pc[p] = "sent"
  /\ LET c == Head(jobs[p]).change
     IN  remote' = [remote EXCEPT ![c.entry] = c.version]
  /\ Goto(p, "applied")
  /\ UNCHANGED <<local, outbox, nextId, draft, jobs, changes, wanted, tangled>>

\* No token, no network, an error, or an answer that does not arrive.
Fail(p) ==
  /\ pc[p] \in {"sent", "applied"}
  /\ Goto(p, "note")
  /\ UNCHANGED <<local, remote, outbox, nextId, draft, jobs, changes, wanted, tangled>>

\* The loop goes on with the next job, if any.
NextJob(p) ==
  /\ jobs' = [jobs EXCEPT ![p] = Tail(jobs[p])]
  /\ Goto(p, IF Len(jobs[p]) = 1 THEN "idle" ELSE "attempt")

\* The answer arrives: DeleteRemoteListSyncJob.
Drop(p) ==
  /\ pc[p] = "applied"
  /\ outbox' = {r \in outbox : r.job.id # Head(jobs[p]).id}
  /\ NextJob(p)
  /\ UNCHANGED <<local, remote, nextId, draft, changes, wanted, tangled>>

\* Mutant: a failed job is not kept.
NoteForgets(p) ==
  /\ pc[p] = "note"
  /\ outbox' = {r \in outbox : r.job.id # Head(jobs[p]).id}
  /\ NextJob(p)
  /\ UNCHANGED <<local, remote, nextId, draft, changes, wanted, tangled>>

\* MarkRemoteListSyncJobFailed
Note(p) ==
  /\ pc[p] = "note"
  /\ outbox' = Touch(Head(jobs[p]).id)
  /\ NextJob(p)
  /\ UNCHANGED <<local, remote, nextId, draft, changes, wanted, tangled>>

-----------------------------------------------------------------------------
(* The clock of updated_at, and the end of the process.                    *)

\* CURRENT_TIMESTAMP counts seconds.  Ages are kept dense.
NextSecond ==
  /\ \E r \in outbox : r.age = 0
  /\ outbox' = {[r EXCEPT !.age = 1 + Cardinality({q.age : q \in {x \in outbox : x.age < r.age}})]
                  : r \in outbox}
  /\ UNCHANGED <<local, remote, nextId, memory, changes, wanted, tangled>>

\* The app ends at any point; what it had saved and not put in the outbox is
\* known to nobody.
Crash ==
  /\ pc' = [p \in Threads |-> "idle"]
  /\ draft' = [p \in Threads |-> NoDraft]
  /\ jobs' = [p \in Threads |-> <<>>]
  /\ tangled' = tangled \cup
       {draft[p].entry : p \in {q \in Threads : pc[q] \in {"reread", "complete", "enqueue"}}}
  /\ UNCHANGED <<disk, remote, asked>>

Start(p) ==
  \/ \E e \in Entries, mal \in MalIds : Add(p, e, mal) \/ Track(p, e, mal) \/ Pull(p, e, mal)
  \/ \E e \in Entries : Edit(p, e) \/ ReadToRemove(p, e)
  \/ Clear(p)

Continue(p) ==
  \/ Reread(p) \/ WriteBack(p) \/ Store(p) \/ Enqueue(p)
  \/ \E syncRemote \in BOOLEAN : Remove(p, syncRemote)
  \/ Attempt(p) \/ Apply(p) \/ Fail(p) \/ Drop(p) \/ Note(p)

Next ==
  \/ \E p \in Calls : Start(p)
  \/ \E p \in Retriers : Retry(p)
  \/ \E p \in Threads : Continue(p)
  \/ NextSecond
  \/ Crash

Spec == Init /\ [][Next]_vars

\* A request ends with an answer or its client's timeout, and time passes.
FairSpec == Spec /\ WF_vars(NextSecond) /\ \A p \in Threads : WF_vars(Continue(p))

-----------------------------------------------------------------------------
(* Properties.                                                             *)

\* The table: ids are unique and were handed out, and a key has one row.
OutboxOK ==
  /\ outbox \subseteq Rows
  /\ IsFiniteSet(outbox)
  /\ \A q, r \in outbox :
       q # r => q.job.id # r.job.id /\ ~SameKey(q.job.change, r.job.change)
  /\ nextId \in Nat \ {0}
  /\ \A r \in outbox : r.job.id < nextId

\* Types; a thread has jobs exactly while it sends, and a retry never takes
\* more than the limit.
TypeOK ==
  /\ local \in [Entries -> [version: Nat, mal: MalIds]]
  /\ remote \in [Entries -> Nat]
  /\ OutboxOK
  /\ pc \in [Threads -> {"idle"} \cup Drafting \cup Sending]
  /\ draft \in [Threads -> Changes]
  /\ jobs \in [Threads -> Seq(Jobs)]
  /\ \A p \in Threads : Len(jobs[p]) <= BatchLimit
  /\ \A p \in Threads : pc[p] \in Sending <=> jobs[p] # <<>>
  /\ changes \in Nat
  /\ wanted \in [Entries -> Nat]
  /\ tangled \subseteq Entries

\* As long as an entry is changed by one thread at a time and has its changes
\* queued under one key, what AniList lacks of it is in the outbox, whatever
\* requests fail, answers get lost and crashes follow the enqueue
\* (enqueueAndAttemptRemoteSync and RetryRemoteListSync together).
SavedChangesArrive ==
  \A e \in Entries \ tangled :
    wanted[e] # remote[e] =>
      \/ \E r \in outbox : r.job.change.entry = e /\ r.job.change.version = wanted[e]
      \/ \E p \in Threads : pc[p] \in {"reread", "complete", "enqueue"} /\ draft[p].entry = e

\* Under the same condition a retry never puts an older version on AniList
\* over a newer one, and never brings back a removed entry.
OnlyTheWantedIsSent ==
  [][\A e \in Entries \ tangled : remote'[e] # remote[e] => remote'[e] = wanted[e]]_vars

\* When the user keeps pressing retry and the app is not closed, every row is
\* sent or leaves, however many others fail: MarkRemoteListSyncJobAttempted
\* sends a tried row to the end of the order that the limit cuts.
Queued(e, m, a) == \E r \in outbox : SameKey(r.job.change, [entry |-> e, mal |-> m, action |-> a])

Tried(e, m, a) ==
  \E p \in Threads : pc[p] = "sent" /\ SameKey(Head(jobs[p]).change, [entry |-> e, mal |-> m, action |-> a])

EveryRowIsTried ==
  ((\A p \in Retriers : []<><<Retry(p)>>_vars) /\ <>[][~Crash]_vars) =>
    \A e \in Entries, m \in MalIds, a \in Actions :
      Queued(e, m, a) ~> (Tried(e, m, a) \/ ~Queued(e, m, a))

\* frontend/src/pages/MyLists.jsx:186, "Some changes could not be synced and
\* were queued for retry.": when an operation reports a failure, its change is
\* queued, unless AniList has it or the user has asked for something else.
ReportedQueuedIsQueued ==
  \A p \in Calls :
    pc[p] = "note" =>
      LET c == Head(jobs[p]).change
      IN  \/ \E r \in outbox : SameKey(r.job.change, c)
          \/ remote[c.entry] = c.version
          \/ wanted[c.entry] # c.version
=============================================================================
