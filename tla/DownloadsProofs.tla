-------------------------- MODULE DownloadsProofs --------------------------
(* Theorems about Downloads, for any set of downloads and files.           *)
EXTENDS Downloads, TLAPS

\* Unfolds the abbreviations that group variables.
USE DEF calls, disk, manager, table, download, import

----------------------------------------------------------------------------
(* What the helpers guarantee.                                             *)

LEMMA SetStatusType ==
  ASSUME TypeOK, NEW id \in Ids, NEW s \in Statuses, SetStatus(id, s)
  PROVE  /\ row' \in [Ids -> Statuses \cup {"unused", "removed"}]
         /\ \A i \in Ids \ {id} : row'[i] = row[i]
         /\ row'[id] = IF Listed(id) THEN s ELSE row[id]
  BY DEF TypeOK, SetStatus, Listed

LEMMA UnlinkType ==
  ASSUME TypeOK, NEW p \in Paths, NEW open \in SUBSET Ids, Unlink(p, open)
  PROVE  /\ file' \in [Paths -> {"absent", "partial", "mixed", "whole"}]
         /\ linked' \in SUBSET Ids
  BY DEF TypeOK, Unlink, Handles

LEMMA FileType ==
  ASSUME TypeOK, NEW id \in Ids
  PROVE  /\ Created(id) \in [Paths -> {"absent", "partial", "mixed", "whole"}]
         /\ Finished(id) \in [Paths -> {"absent", "partial", "mixed", "whole"}]
  BY DEF TypeOK, Created, Finished

----------------------------------------------------------------------------
(* Type correctness.                                                       *)

LEMMA InitType == Init => TypeOK
<1> SUFFICES ASSUME Init PROVE TypeOK
  OBVIOUS
<1>1. exits \in 0..MaxExits
  BY ConstantsAssumption DEF ConstantsAssumption, Init
<1>2. panicked \in BOOLEAN
  BY DEF Init
<1> QED
  BY <1>1, <1>2 DEF Init, TypeOK, Statuses

LEMMA NextType == TypeOK /\ [Next]_vars => TypeOK'
<1> SUFFICES ASSUME TypeOK, [Next]_vars PROVE TypeOK'
  OBVIOUS
<1>1. ASSUME NEW id \in Ids, InsertDownload(id) PROVE TypeOK'
  BY <1>1 DEF InsertDownload, TypeOK, Statuses
<1>2. ASSUME NEW id \in Ids, Start(id) PROVE TypeOK'
  BY <1>2, SetStatusType DEF Start, Goto, TypeOK, Statuses, Live
<1>3. ASSUME NEW id \in Ids, Cancel(id) PROVE TypeOK'
  BY <1>3 DEF Cancel, TypeOK
<1>4. ASSUME NEW id \in Ids, MarkCancelled(id) PROVE TypeOK'
  BY <1>4, SetStatusType DEF MarkCancelled, TypeOK, Statuses
<1>5. ASSUME NEW id \in Ids, RemoveFile(id) PROVE TypeOK'
  <2>1. target[id] \in Paths /\ linked \in SUBSET Ids
    BY DEF TypeOK
  <2>2. /\ file' \in [Paths -> {"absent", "partial", "mixed", "whole"}]
        /\ linked' \in SUBSET Ids
    BY <1>5, <2>1, UnlinkType DEF RemoveFile, TypeOK
  <2>3. /\ removing' \in SUBSET Ids
        /\ UNCHANGED <<row, saved, target, hls, active, cancel, panicked, pc,
                       verdict, starting, cancelling, importer, library, exits>>
    BY <1>5 DEF RemoveFile, TypeOK
  <2> QED
    BY <2>2, <2>3 DEF TypeOK
<1>6. ASSUME NEW id \in Ids, RemoveDownload(id) PROVE TypeOK'
  BY <1>6 DEF RemoveDownload, TypeOK
<1>7. ASSUME NEW id \in Ids, Worker(id) PROVE TypeOK'
  <2> USE DEF Goto, Live
  <2>1. CASE Resolve(id)
    BY <2>1 DEF Resolve, TypeOK
  <2>2. CASE RequestHTTP(id)
    BY <2>2, FileType DEF RequestHTTP, TypeOK
  <2>3. CASE RequestHLS(id)
    <3>1. Created(id) \in [Paths -> {"absent", "partial", "mixed", "whole"}]
      BY FileType
    <3>2. /\ file' = file \/ file' = Created(id)
          /\ linked' = linked \/ linked' = linked \cup {id}
          /\ \E next \in Live : pc' = [pc EXCEPT ![id] = next]
      BY <2>3 DEF RequestHLS
    <3> QED
      BY <2>3, <3>1, <3>2 DEF RequestHLS, TypeOK
  <2>4. CASE CheckCancel(id)
    <3>1. target[id] \in Paths /\ linked \ {id} \in SUBSET Ids
      BY DEF TypeOK
    <3>2. /\ file' \in [Paths -> {"absent", "partial", "mixed", "whole"}]
          /\ linked' \in SUBSET Ids
      BY <2>4, <3>1, UnlinkType DEF CheckCancel, TypeOK
    <3> QED
      BY <2>4, <3>2 DEF CheckCancel, TypeOK
  <2>5. CASE ReadHTTP(id)
    BY <2>5, FileType, SetStatusType DEF ReadHTTP, Report, TypeOK, Statuses
  <2>6. CASE ReadHLS(id)
    <3>1. Finished(id) \in [Paths -> {"absent", "partial", "mixed", "whole"}]
      BY FileType
    <3>2. row' \in [Ids -> Statuses \cup {"unused", "removed"}]
      BY <2>6, SetStatusType DEF ReadHLS, Report, TypeOK, Statuses
    <3>3. /\ file' = file \/ file' = Finished(id)
          /\ linked' = linked \/ linked' = linked \ {id}
          /\ \E next \in Live : pc' = [pc EXCEPT ![id] = next]
      BY <2>6 DEF ReadHLS
    <3> QED
      BY <2>6, <3>1, <3>2, <3>3 DEF ReadHLS, TypeOK
  <2>7. CASE Cleanup(id)
    <3>1. target[id] \in Paths /\ linked \in SUBSET Ids
      BY DEF TypeOK
    <3>2. /\ file' \in [Paths -> {"absent", "partial", "mixed", "whole"}]
          /\ linked' \in SUBSET Ids
      BY <2>7, <3>1, UnlinkType DEF Cleanup
    <3> QED
      BY <2>7, <3>2 DEF Cleanup, TypeOK
  <2>8. CASE Fail(id)
    BY <2>8, SetStatusType DEF Fail, TypeOK, Statuses
  <2>9. CASE Complete(id)
    BY <2>9, SetStatusType DEF Complete, TypeOK, Statuses
  <2>10. CASE Unwind(id)
    BY <2>10 DEF Unwind, TypeOK
  <2> QED
    BY <1>7, <2>1, <2>2, <2>3, <2>4, <2>5, <2>6, <2>7, <2>8, <2>9, <2>10
    DEF Worker
<1>8. ASSUME NEW id \in Ids, ImportLookup(id) PROVE TypeOK'
  BY <1>8 DEF ImportLookup, TypeOK
<1>9. ASSUME NEW id \in Ids, ImportStat(id) \/ ImportIndex(id) PROVE TypeOK'
  BY <1>9 DEF ImportStat, ImportIndex, TypeOK
<1>10. CASE Exit
  BY <1>10, ConstantsAssumption DEF ConstantsAssumption, Exit, TypeOK
<1>11. CASE UNCHANGED vars
  BY <1>11 DEF vars, TypeOK
<1> QED
  BY <1>1, <1>2, <1>3, <1>4, <1>5, <1>6, <1>7, <1>8, <1>9, <1>10, <1>11
  DEF Next

\* Every reachable state is well typed.
THEOREM TypeCorrect == Spec => []TypeOK
  BY InitType, NextType, PTL DEF Spec

----------------------------------------------------------------------------
(* The inductive invariant behind the manager's guarantees.                *)

\* A worker is spawned once, by the one StartDownload that holds the id.
SpawnedOnce ==
  \A id \in Ids :
    /\ row[id] = "unused" => pc[id] = "none" /\ id \notin starting
    /\ id \in starting => pc[id] = "none"
    /\ pc[id] = "none" => cancel[id] = "none"

\* Where a worker is determines whether it has made its callback.
OneCallback ==
  \A id \in Ids :
    /\ pc[id] \in {"none"} \cup (Live \ {"unwinding"}) =>
         verdict[id] = "none" /\ row[id] \notin {"completed", "failed"}
    /\ pc[id] \in {"unwinding", "done"} =>
         verdict[id] # "none" \/ cancel[id] = "closed"

IInv ==
  /\ TypeOK
  /\ ActiveIsRunning
  /\ RunningIsStoppable
  /\ NeverClosedTwice
  /\ SpawnedOnce
  /\ OneCallback

LEMMA InitIInv == Init => IInv
  BY InitType
  DEF Init, IInv, ActiveIsRunning, RunningIsStoppable, NeverClosedTwice,
      SpawnedOnce, OneCallback, Live

\* One conjunct at a time for one worker step: it moves one goroutine.
LEMMA WorkerIInv ==
  ASSUME IInv, TypeOK', NEW id \in Ids, Worker(id)
  PROVE  IInv'
<1> USE DEF Goto, Live
<1> DEFINE Moves(from, to) == /\ pc[id] \in from
                              /\ \E next \in to : pc' = [pc EXCEPT ![id] = next]
           Row(status) == /\ \A i \in Ids \ {id} : row'[i] = row[i]
                          /\ row'[id] \in {row[id], status}
           Early == {"resolve", "request", "check", "read", "cleanup",
                     "failing", "completing"}
<1>1. CASE Resolve(id) \/ RequestHTTP(id) \/ RequestHLS(id) \/ Cleanup(id)
  <2>1. /\ Moves(Early, Early)
        /\ UNCHANGED <<row, starting, active, cancel, panicked, verdict>>
    BY <1>1 DEF Resolve, RequestHTTP, RequestHLS, Cleanup
  <2> QED
    BY <2>1 DEF IInv, TypeOK, ActiveIsRunning, RunningIsStoppable,
                NeverClosedTwice, SpawnedOnce, OneCallback
<1>2. CASE CheckCancel(id)
  <2>1. /\ \/ Moves(Early, Early)
           \/ Moves(Early, {"unwinding"}) /\ cancel[id] = "closed"
        /\ UNCHANGED <<row, starting, active, cancel, panicked, verdict>>
    BY <1>2 DEF CheckCancel
  <2> QED
    BY <2>1 DEF IInv, TypeOK, ActiveIsRunning, RunningIsStoppable,
                NeverClosedTwice, SpawnedOnce, OneCallback
<1>3. CASE ReadHTTP(id) \/ ReadHLS(id)
  <2>1. /\ Moves(Early, Early)
        /\ UNCHANGED <<starting, active, cancel, panicked, verdict>>
    BY <1>3 DEF ReadHTTP, ReadHLS
  <2>2. \/ row' = row
        \/ SetStatus(id, "downloading")
    BY <1>3 DEF ReadHTTP, ReadHLS, Report
  <2>3. Row("downloading")
    BY <2>2, SetStatusType DEF IInv, Statuses, TypeOK
  <2>4. row[id] = "unused" <=> row'[id] = "unused"
    BY <2>2, SetStatusType DEF IInv, Statuses, TypeOK, Listed
  <2> QED
    BY <2>1, <2>3, <2>4
    DEF IInv, TypeOK, ActiveIsRunning, RunningIsStoppable,
        NeverClosedTwice, SpawnedOnce, OneCallback
<1>4. CASE Fail(id) \/ Complete(id)
  <2>1. /\ Moves(Early, {"unwinding"})
        /\ UNCHANGED <<starting, active, cancel, panicked>>
        /\ \E outcome \in {"completed", "failed"} :
             /\ verdict' = [verdict EXCEPT ![id] = outcome]
             /\ SetStatus(id, outcome)
    BY <1>4 DEF Fail, Complete
  <2>2. /\ \A i \in Ids \ {id} : row'[i] = row[i]
        /\ row'[id] # "unused"
    BY <2>1, SetStatusType DEF IInv, Statuses, TypeOK, Listed, SpawnedOnce
  <2> QED
    BY <2>1, <2>2
    DEF IInv, TypeOK, ActiveIsRunning, RunningIsStoppable,
        NeverClosedTwice, SpawnedOnce, OneCallback
<1>5. CASE Unwind(id)
  BY <1>5 DEF Unwind, IInv, TypeOK, ActiveIsRunning, RunningIsStoppable,
              NeverClosedTwice, SpawnedOnce, OneCallback
<1> QED
  BY <1>1, <1>2, <1>3, <1>4, <1>5 DEF Worker

LEMMA NextIInv == IInv /\ [Next]_vars => IInv'
<1> SUFFICES ASSUME IInv, [Next]_vars PROVE IInv'
  OBVIOUS
<1> TypeOK'
  BY NextType DEF IInv
<1> USE DEF IInv, TypeOK, ActiveIsRunning, RunningIsStoppable,
            NeverClosedTwice, SpawnedOnce, OneCallback, Live
<1>1. ASSUME NEW id \in Ids, InsertDownload(id) PROVE IInv'
  BY <1>1 DEF InsertDownload
<1>2. ASSUME NEW id \in Ids, Start(id) PROVE IInv'
  BY <1>2 DEF Start, Goto
<1>3. ASSUME NEW id \in Ids, Cancel(id) PROVE IInv'
  BY <1>3 DEF Cancel
<1>4. ASSUME NEW id \in Ids, MarkCancelled(id) PROVE IInv'
  <2>1. /\ \A i \in Ids \ {id} : row'[i] = row[i]
        /\ row'[id] = IF Listed(id) THEN "cancelled" ELSE row[id]
    BY <1>4, SetStatusType DEF MarkCancelled, Statuses
  <2> QED
    BY <1>4, <2>1 DEF MarkCancelled, Listed, Statuses
<1>5. ASSUME NEW id \in Ids, RemoveFile(id) PROVE IInv'
  <2>1. UNCHANGED <<row, starting, active, cancel, panicked, pc, verdict>>
    BY <1>5 DEF RemoveFile
  <2> QED
    BY <2>1
<1>6. ASSUME NEW id \in Ids, RemoveDownload(id) PROVE IInv'
  BY <1>6 DEF RemoveDownload, Listed, Statuses
<1>7. ASSUME NEW id \in Ids, Worker(id) PROVE IInv'
  BY <1>7, WorkerIInv
<1>8. ASSUME NEW id \in Ids, ImportLookup(id) \/ ImportStat(id) \/ ImportIndex(id) PROVE IInv'
  <2>1. UNCHANGED <<row, starting, active, cancel, panicked, pc, verdict>>
    BY <1>8 DEF ImportLookup, ImportStat, ImportIndex
  <2> QED
    BY <2>1
<1>9. CASE Exit
  BY <1>9 DEF Exit
<1>10. CASE UNCHANGED vars
  BY <1>10 DEF vars
<1> QED
  BY <1>1, <1>2, <1>3, <1>4, <1>5, <1>6, <1>7, <1>8, <1>9, <1>10 DEF Next

\* The invariant, and with it each of the manager's guarantees below, holds
\* in every reachable state.
THEOREM ManagerInvariant == Spec => []IInv
  BY InitIInv, NextIInv, PTL DEF Spec

\* Every registered id has a live goroutine and an open channel; no live
\* goroutine is out of Cancel's reach unless it was cancelled already; and no
\* interleaving of cancels, callbacks and exits closes a channel twice.
THEOREM CancelIsSafeHolds == Spec => []CancelIsSafe
<1>1. IInv => CancelIsSafe
  BY DEF IInv, CancelIsSafe
<1> QED
  BY <1>1, ManagerInvariant, PTL

----------------------------------------------------------------------------
(* The outcome in the row.                                                 *)

\* No report or callback of a worker overwrites the outcome it has recorded:
\* from completed or failed, only the user moves a row.
THEOREM OutcomeIsFinalHolds == Spec => OutcomeIsFinal
<1> DEFINE Final == \A id \in Ids : row[id] \in {"completed", "failed"} =>
                      row'[id] \in {row[id], "cancelled", "removed"}
<1>1. IInv /\ [Next]_vars => Final \/ UNCHANGED vars
  <2> SUFFICES ASSUME IInv, Next PROVE Final
    BY DEF vars
  <2> USE DEF IInv, TypeOK
  <2>1. ASSUME NEW id \in Ids, InsertDownload(id) PROVE Final
    BY <2>1 DEF InsertDownload
  <2>2. ASSUME NEW id \in Ids, Start(id) PROVE Final
    <3>1. id \notin active
      BY <2>2 DEF Start, SpawnedOnce, ActiveIsRunning, Live
    <3> QED
      BY <2>2, <3>1 DEF Start
  <2>3. ASSUME NEW id \in Ids, Cancel(id) \/ RemoveFile(id) PROVE Final
    BY <2>3 DEF Cancel, RemoveFile
  <2>4. ASSUME NEW id \in Ids, MarkCancelled(id) PROVE Final
    BY <2>4 DEF MarkCancelled, SetStatus
  <2>5. ASSUME NEW id \in Ids, RemoveDownload(id) PROVE Final
    BY <2>5 DEF RemoveDownload
  <2>6. ASSUME NEW id \in Ids, Worker(id) PROVE Final
    <3>1. CASE /\ pc[id] \in Live \ {"unwinding"}
               /\ row' = row \/ \E s \in Statuses : SetStatus(id, s)
      <4>1. row[id] \notin {"completed", "failed"}
        BY <3>1 DEF OneCallback
      <4>2. \A i \in Ids \ {id} : row'[i] = row[i]
        BY <3>1, SetStatusType
      <4> QED
        BY <4>1, <4>2
    <3>2. CASE row' = row
      BY <3>2
    <3> QED
      BY <2>6, <3>1, <3>2
      DEF Worker, Resolve, RequestHTTP, RequestHLS, CheckCancel, ReadHTTP,
          ReadHLS, Cleanup, Fail, Complete, Unwind, Report, Live, Statuses
  <2>7. ASSUME NEW id \in Ids, ImportLookup(id) \/ ImportStat(id) \/ ImportIndex(id) PROVE Final
    BY <2>7 DEF ImportLookup, ImportStat, ImportIndex
  <2>8. CASE Exit
    BY <2>8 DEF Exit
  <2> QED
    BY <2>1, <2>2, <2>3, <2>4, <2>5, <2>6, <2>7, <2>8 DEF Next
<1> QED
  BY <1>1, ManagerInvariant, PTL DEF Spec, OutcomeIsFinal

----------------------------------------------------------------------------
(* The files.                                                              *)

\* A step of a worker is its own.
LEMMA WorkerFrame ==
  ASSUME TypeOK, NEW id \in Ids, Worker(id)
  PROVE  /\ \A i \in Ids \ {id} : pc'[i] = pc[i]
         /\ target' = target /\ hls' = hls /\ exits' = exits /\ removing' = removing
<1>1. /\ target' = target /\ hls' = hls /\ exits' = exits /\ removing' = removing
      /\ \E next : pc' = [pc EXCEPT ![id] = next]
  BY DEF Worker, Resolve, RequestHTTP, RequestHLS, CheckCancel, ReadHTTP, ReadHLS,
         Cleanup, Fail, Complete, Unwind, Goto
<1> QED
  BY <1>1 DEF TypeOK

\* A step of id leaves the files at other paths, and who holds them, alone.
LEMMA OtherFiles ==
  ASSUME TypeOK, NEW id \in Ids, Worker(id) \/ RemoveFile(id)
  PROVE  /\ \A p \in Paths \ {target[id]} : file'[p] = file[p]
         /\ \A i \in Ids : target[i] # target[id] => (i \in linked' <=> i \in linked)
         /\ linked' \subseteq linked \cup {id}
<1> DEFINE Same == /\ \A p \in Paths \ {target[id]} : file'[p] = file[p]
                   /\ \A i \in Ids : target[i] # target[id] => (i \in linked' <=> i \in linked)
                   /\ linked' \subseteq linked \cup {id}
<1>1. ASSUME NEW open \in SUBSET Ids, Unlink(target[id], open),
             open = linked \/ open = linked \ {id}
      PROVE  Same
  BY <1>1 DEF Unlink, Handles, TypeOK
<1>2. \A p \in Paths \ {target[id]} : Created(id)[p] = file[p] /\ Finished(id)[p] = file[p]
  BY DEF Created, Finished, TypeOK
<1>3. CASE file' = file \/ file' = Created(id) \/ file' = Finished(id)
  <2>1. ASSUME linked' = linked \/ linked' = linked \cup {id} \/ linked' = linked \ {id}
        PROVE  Same
    BY <1>2, <1>3, <2>1
  <2>2. CASE Unlink(target[id], linked)
    BY <1>1, <2>2 DEF TypeOK
  <2>3. CASE Unlink(target[id], linked \ {id})
    <3>1. linked \ {id} \in SUBSET Ids
      BY DEF TypeOK
    <3> QED
      BY <1>1, <2>3, <3>1
  <2> QED
    BY <2>1, <2>2, <2>3
    DEF Worker, Resolve, RequestHTTP, RequestHLS, CheckCancel, ReadHTTP, ReadHLS,
        Cleanup, Fail, Complete, Unwind, RemoveFile
<1>4. CASE Unlink(target[id], linked)
  BY <1>1, <1>4 DEF TypeOK
<1>5. CASE Unlink(target[id], linked \ {id})
  <2>1. linked \ {id} \in SUBSET Ids
    BY DEF TypeOK
  <2> QED
    BY <1>1, <1>5, <2>1
<1> QED
  BY <1>3, <1>4, <1>5
  DEF Worker, Resolve, RequestHTTP, RequestHLS, CheckCancel, ReadHTTP, ReadHLS,
      Cleanup, Fail, Complete, Unwind, RemoveFile

\* A partial file belongs to a worker that writes it or is about to remove it.
PartialIsOwned ==
  \A p \in Paths : file[p] = "partial" /\ exits = 0 =>
    \E id \in Ids : /\ target[id] = p
                    /\ \/ id \in linked /\ pc[id] \in Writing
                       \/ pc[id] = "cleanup"

\* Where an open file can be removed, no worker leaves half a file behind.
THEOREM NoOrphanPartialHolds ==
  ASSUME Posix
  PROVE  Spec => []NoOrphanPartial
<1>1. Init => PartialIsOwned
  BY DEF Init, PartialIsOwned
<1>2. IInv /\ PartialIsOwned /\ [Next]_vars => PartialIsOwned'
  <2> SUFFICES ASSUME IInv, PartialIsOwned, [Next]_vars,
                      NEW p \in Paths, file'[p] = "partial", exits' = 0
               PROVE  \E id \in Ids : /\ target'[id] = p
                                      /\ \/ id \in linked' /\ pc'[id] \in Writing
                                         \/ pc'[id] = "cleanup"
    BY DEF PartialIsOwned
  <2> DEFINE Owned == \E id \in Ids : /\ target'[id] = p
                                      /\ \/ id \in linked' /\ pc'[id] \in Writing
                                         \/ pc'[id] = "cleanup"
  <2> USE DEF TypeOK, IInv
  <2>1. CASE UNCHANGED <<target, file, linked, pc, exits>>
    BY <2>1 DEF PartialIsOwned
  <2>2. ASSUME NEW id \in Ids, Start(id) PROVE Owned
    <3>1. pc[id] = "none" /\ id \notin active
      BY <2>2 DEF Start, SpawnedOnce, ActiveIsRunning, Live
    <3> QED
      BY <2>2, <3>1 DEF Start, Goto, PartialIsOwned, Writing
  <2>3. ASSUME NEW id \in Ids, Unlink(target[id], linked) \/ Unlink(target[id], linked \ {id}),
               target[id] = p
        PROVE  FALSE
    BY <2>3 DEF Unlink
  <2>4. ASSUME NEW id \in Ids, RemoveFile(id) PROVE Owned
    <3>1. CASE target[id] = p
      BY <2>1, <2>3, <2>4, <3>1 DEF RemoveFile
    <3>2. CASE target[id] # p
      BY <2>4, <3>2, OtherFiles DEF RemoveFile, PartialIsOwned
    <3> QED
      BY <3>1, <3>2
  <2>5. ASSUME NEW id \in Ids, Worker(id) PROVE Owned
    <3>1. /\ \A i \in Ids \ {id} : pc'[i] = pc[i]
          /\ target' = target /\ exits' = exits
      BY <2>5, WorkerFrame
    <3>2. CASE target[id] # p
      <4>1. file'[p] = file[p]
        BY <2>5, <3>2, OtherFiles
      <4>2. PICK i \in Ids : /\ target[i] = p
                             /\ \/ i \in linked /\ pc[i] \in Writing
                                \/ pc[i] = "cleanup"
        BY <3>1, <4>1 DEF PartialIsOwned
      <4> QED
        BY <2>5, <3>1, <3>2, <4>2, OtherFiles
    <3>3. CASE target[id] = p
      <4>1. ASSUME file[p] = "partial", file'[p] = file[p],
                   \A i \in Ids \ {id} : i \in linked => i \in linked',
                   ~(pc[id] = "cleanup" \/ (id \in linked /\ pc[id] \in Writing))
            PROVE  Owned
        BY <3>1, <4>1 DEF PartialIsOwned
      <4>2. CASE Resolve(id) \/ Fail(id) \/ Complete(id) \/ Unwind(id)
        BY <4>1, <4>2 DEF Resolve, Fail, Complete, Unwind, Writing
      <4>3. CASE RequestHTTP(id) \/ RequestHLS(id)
        <5>1. CASE pc'[id] = "failing"
          BY <4>1, <4>3, <5>1 DEF RequestHTTP, RequestHLS, Goto, Writing
        <5>2. CASE pc'[id] = "cleanup"
          BY <3>1, <3>3, <5>2
        <5>3. CASE pc'[id] = "check" /\ linked' = linked \cup {id}
          BY <3>1, <3>3, <5>3 DEF Writing
        <5> QED
          BY <4>3, <5>1, <5>2, <5>3 DEF RequestHTTP, RequestHLS, Goto
      <4>4. CASE CheckCancel(id)
        <5>1. CASE pc'[id] = "read" /\ UNCHANGED disk
          <6>1. CASE id \in linked
            BY <3>1, <3>3, <5>1, <6>1 DEF Writing
          <6>2. CASE id \notin linked
            BY <4>1, <4>4, <5>1, <6>2 DEF CheckCancel
          <6> QED
            BY <6>1, <6>2
        <5> QED
          BY <2>3, <3>3, <4>4, <5>1 DEF CheckCancel, Goto
      <4>5. CASE ReadHTTP(id) \/ ReadHLS(id)
        <5>1. CASE pc'[id] = "cleanup"
          BY <3>1, <3>3, <5>1
        <5>2. CASE pc'[id] = "check" /\ UNCHANGED disk
          <6>1. CASE id \in linked
            BY <3>1, <3>3, <5>2, <6>1 DEF Writing
          <6>2. CASE id \notin linked
            BY <4>1, <4>5, <5>2, <6>2 DEF ReadHTTP, ReadHLS
          <6> QED
            BY <6>1, <6>2
        <5>3. CASE file' = Finished(id) /\ linked' = linked
          <6>1. id \notin linked /\ file' = file
            BY <3>3, <5>3 DEF Finished
          <6> QED
            BY <4>1, <4>5, <5>3, <6>1 DEF ReadHTTP, ReadHLS
        <5> QED
          BY <4>5, <5>1, <5>2, <5>3 DEF ReadHTTP, ReadHLS, Goto
      <4>6. CASE Cleanup(id)
        BY <2>3, <3>3, <4>6 DEF Cleanup
      <4> QED
        BY <2>5, <4>2, <4>3, <4>4, <4>5, <4>6 DEF Worker
    <3> QED
      BY <3>2, <3>3
  <2> QED
    BY <2>1, <2>2, <2>4, <2>5
    DEF Next, vars, InsertDownload, Cancel, MarkCancelled, RemoveDownload,
        ImportLookup, ImportStat, ImportIndex, Exit
<1>3. PartialIsOwned => NoOrphanPartial
  BY DEF PartialIsOwned, NoOrphanPartial, Writing, Live
<1> QED
  BY <1>1, <1>2, <1>3, ManagerInvariant, PTL DEF Spec

\* A download was started that no other shares its file with.
Started(id) == row[id] # "unused"
Sole(id)    == Started(id) /\ \A i \in Ids \ {id} : target[i] = target[id] => ~Started(i)

\* The callback was made by a worker that has nothing left to do but return,
\* and what follows from completion comes after it.
OutcomeComesLast ==
  \A id \in Ids :
    /\ pc[id] # "none" \/ id \in linked => Started(id)
    /\ verdict[id] = "completed" => pc[id] \in {"unwinding", "done", "killed"}
    /\ row[id] = "completed" \/ id \in saved \/ importer[id] # "none" =>
         verdict[id] = "completed"

\* What is at the path of a download that has it alone.
SoleFile(id) ==
  LET f == file[target[id]] IN
  /\ pc[id] \in {"none", "resolve", "request"} => f = "absent"
  /\ pc[id] \in Writing => f = "partial" /\ id \in linked
  /\ pc[id] = "completing" => f = "whole"
  /\ verdict[id] = "completed" =>
       \/ f = "whole"
       \/ f = "absent" /\ \/ id \in removing \/ row[id] = "removed"
                          \/ exits > 0 /\ importer[id] = "none"

FilesAreSound ==
  /\ OutcomeComesLast
  /\ \A p \in Paths : (\A id \in Ids : target[id] = p => ~Started(id)) => file[p] = "absent"
  /\ \A id \in Ids : Sole(id) => SoleFile(id)

LEMMA InitFiles == Init => FilesAreSound
BY DEF Init, FilesAreSound, OutcomeComesLast, Started, Sole, SoleFile, Writing

LEMMA NextOutcome ==
  ASSUME IInv, OutcomeComesLast, [Next]_vars
  PROVE  OutcomeComesLast'
<1> USE DEF IInv, TypeOK, OutcomeComesLast, Started
<1>1. ASSUME NEW id \in Ids, InsertDownload(id) PROVE OutcomeComesLast'
  BY <1>1 DEF InsertDownload
<1>2. ASSUME NEW id \in Ids, Start(id) PROVE OutcomeComesLast'
  <2>1. pc[id] = "none" /\ id \notin active /\ Started(id) /\ verdict[id] = "none"
    BY <1>2 DEF Start, SpawnedOnce, OneCallback, ActiveIsRunning, Live
  <2> QED
    BY <1>2, <2>1 DEF Start, Goto
<1>3. ASSUME NEW id \in Ids, Cancel(id) PROVE OutcomeComesLast'
  BY <1>3 DEF Cancel
<1>4. ASSUME NEW id \in Ids, MarkCancelled(id) PROVE OutcomeComesLast'
  BY <1>4 DEF MarkCancelled, SetStatus, Listed, Statuses
<1>5. ASSUME NEW id \in Ids, RemoveFile(id) PROVE OutcomeComesLast'
  BY <1>5 DEF RemoveFile, Unlink, Handles
<1>6. ASSUME NEW id \in Ids, RemoveDownload(id) PROVE OutcomeComesLast'
  BY <1>6 DEF RemoveDownload
<1>7. ASSUME NEW id \in Ids, Worker(id) PROVE OutcomeComesLast'
  <2>1. Started(id)
    BY <1>7 DEF Worker, Resolve, RequestHTTP, RequestHLS, CheckCancel, ReadHTTP,
                ReadHLS, Cleanup, Fail, Complete, Unwind
  <2>2. linked' \subseteq linked \cup {id}
    BY <1>7, OtherFiles
  <2>3. CASE Complete(id)
    BY <2>1, <2>2, <2>3 DEF Complete, SetStatus, Goto, Listed, Statuses
  <2>4. CASE Fail(id)
    <3>1. verdict[id] = "none"
      BY <2>4 DEF Fail, OneCallback, Live
    <3> QED
      BY <2>1, <2>2, <2>4, <3>1 DEF Fail, SetStatus, Goto, Listed, Statuses
  <2>5. CASE Unwind(id)
    BY <2>1, <2>2, <2>5 DEF Unwind, Goto
  <2>6. ASSUME \E next : pc' = [pc EXCEPT ![id] = next],
               pc[id] \in Live \ {"unwinding"}, pc'[id] # "none",
               row' = row \/ SetStatus(id, "downloading"),
               UNCHANGED <<saved, importer, verdict>>
        PROVE  OutcomeComesLast'
    <3>1. verdict[id] = "none" /\ row[id] # "completed" /\ id \notin saved /\ importer[id] = "none"
      BY <2>6 DEF OneCallback, Live
    <3>2. /\ \A i \in Ids : row[i] # "unused" => row'[i] # "unused"
          /\ \A i \in Ids : row'[i] = "completed" => row[i] = "completed"
      BY <2>6 DEF SetStatus, Listed, Statuses
    <3> QED
      BY <2>1, <2>2, <2>6, <3>1, <3>2
  <2>7. CASE Resolve(id) \/ RequestHTTP(id) \/ RequestHLS(id) \/ CheckCancel(id)
               \/ Cleanup(id)
    BY <2>6, <2>7
    DEF Resolve, RequestHTTP, RequestHLS, CheckCancel, Cleanup, Goto, Live
  <2>8. CASE ReadHTTP(id) \/ ReadHLS(id)
    BY <2>6, <2>8 DEF ReadHTTP, ReadHLS, Report, Goto, Live
  <2> QED
    BY <1>7, <2>3, <2>4, <2>5, <2>7, <2>8 DEF Worker
<1>8. ASSUME NEW id \in Ids, ImportLookup(id) \/ ImportStat(id) \/ ImportIndex(id) PROVE OutcomeComesLast'
  BY <1>8 DEF ImportLookup, ImportStat, ImportIndex
<1>9. CASE Exit
  BY <1>9 DEF Exit, Live
<1>10. CASE UNCHANGED vars
  BY <1>10 DEF vars
<1> QED
  BY <1>1, <1>2, <1>3, <1>4, <1>5, <1>6, <1>7, <1>8, <1>9, <1>10 DEF Next

\* Who has a file alone is the only one that may hold it.
LEMMA SoleHolder ==
  ASSUME TypeOK, OutcomeComesLast, NEW id \in Ids, Sole(id)
  PROVE  /\ Handles(target[id], linked) \subseteq {id}
         /\ \A i \in Ids \ {id} : Started(i) => target[i] # target[id]
BY DEF Handles, Sole, OutcomeComesLast, TypeOK

\* A worker's own step on a file it has alone.
LEMMA OwnStep ==
  ASSUME IInv, FilesAreSound, NEW id \in Ids, Sole(id), Worker(id), OutcomeComesLast'
  PROVE  SoleFile(id)'
<1> DEFINE f == file[target[id]]
<1> USE DEF IInv, TypeOK, Goto
<1>1. /\ SoleFile(id) /\ OutcomeComesLast
      /\ Handles(target[id], linked) \subseteq {id}
  BY SoleHolder DEF FilesAreSound
<1>2. target'[id] = target[id] /\ removing' = removing /\ exits' = exits
  BY WorkerFrame
<1>3. CASE Resolve(id)
  BY <1>1, <1>2, <1>3 DEF Resolve, SoleFile, Writing
<1>4. CASE RequestHTTP(id) \/ RequestHLS(id)
  <2>1. Created(id)[target[id]] = "partial"
    BY <1>1 DEF Created
  <2>2. pc[id] = "request" /\ verdict'[id] = "none"
    BY <1>4 DEF RequestHTTP, RequestHLS, OneCallback, Live
  <2>3. CASE pc'[id] \in {"failing", "cleanup"}
    BY <2>2, <2>3 DEF SoleFile, Writing
  <2>4. CASE pc'[id] = "check" /\ file' = Created(id) /\ linked' = linked \cup {id}
    BY <1>2, <2>1, <2>2, <2>4 DEF SoleFile, Writing
  <2> QED
    BY <1>4, <2>3, <2>4 DEF RequestHTTP, RequestHLS
<1>5. CASE CheckCancel(id)
  <2>1. verdict'[id] = "none"
    BY <1>5 DEF CheckCancel, OneCallback, Live
  <2>2. CASE pc'[id] \in {"cleanup", "unwinding"}
    BY <2>1, <2>2 DEF SoleFile, Writing
  <2>3. CASE pc'[id] = "read" /\ UNCHANGED disk
    BY <1>1, <1>2, <1>5, <2>1, <2>3 DEF CheckCancel, SoleFile, Writing
  <2> QED
    BY <1>5, <2>2, <2>3 DEF CheckCancel
<1>6. CASE ReadHTTP(id) \/ ReadHLS(id)
  <2>1. verdict'[id] = "none"
    BY <1>6 DEF ReadHTTP, ReadHLS, OneCallback, Live
  <2>2. f = "partial" /\ id \in linked
    BY <1>1, <1>6 DEF ReadHTTP, ReadHLS, SoleFile, Writing
  <2>3. Finished(id)[target[id]] = "whole"
    BY <2>2 DEF Finished
  <2>4. CASE pc'[id] = "cleanup"
    BY <2>1, <2>4 DEF SoleFile, Writing
  <2>5. CASE pc'[id] = "check" /\ UNCHANGED disk
    BY <1>2, <2>1, <2>2, <2>5 DEF SoleFile, Writing
  <2>6. CASE pc'[id] = "completing" /\ file' = Finished(id)
    BY <1>2, <2>1, <2>3, <2>6 DEF SoleFile, Writing
  <2> QED
    BY <1>6, <2>4, <2>5, <2>6 DEF ReadHTTP, ReadHLS
<1>7. CASE Cleanup(id) \/ Fail(id)
  <2>1. verdict'[id] # "completed"
    BY <1>7 DEF Cleanup, Fail, OneCallback, Live
  <2> QED
    BY <1>7, <2>1 DEF Cleanup, Fail, SoleFile, Writing
<1>8. CASE Complete(id)
  BY <1>1, <1>2, <1>8 DEF Complete, SoleFile, Writing
<1>9. CASE Unwind(id)
  <2>1. /\ UNCHANGED <<row, file, verdict, importer>>
        /\ pc'[id] = "done"
    BY <1>9 DEF Unwind
  <2> QED
    BY <1>1, <1>2, <2>1 DEF SoleFile, Writing
<1> QED
  BY <1>3, <1>4, <1>5, <1>6, <1>7, <1>8, <1>9 DEF Worker

\* A step of others on a file a download has alone.
LEMMA OthersStep ==
  ASSUME IInv, FilesAreSound, NEW id \in Ids, Sole(id),
         NEW i \in Ids \ {id}, Worker(i) \/ RemoveFile(i)
  PROVE  SoleFile(id)'
<1> USE DEF IInv, TypeOK
<1>1. Started(i)
  BY DEF Started, FilesAreSound, OutcomeComesLast, Worker, Resolve, RequestHTTP,
         RequestHLS, CheckCancel, ReadHTTP, ReadHLS, Cleanup, Fail, Complete, Unwind,
         RemoveFile, Listed, Statuses
<1>2. target[i] # target[id]
  BY <1>1 DEF Sole
<1>3. file'[target[id]] = file[target[id]] /\ (id \in linked' <=> id \in linked)
  BY <1>2, OtherFiles
<1>4. /\ target' = target /\ pc'[id] = pc[id] /\ exits' = exits
      /\ id \in removing => id \in removing'
  BY WorkerFrame DEF RemoveFile
<1>5. verdict'[id] = verdict[id] /\ row'[id] = row[id] /\ importer'[id] = importer[id]
  BY SetStatusType
  DEF Worker, Resolve, RequestHTTP, RequestHLS, CheckCancel, ReadHTTP, ReadHLS,
      Cleanup, Fail, Complete, Unwind, RemoveFile, Report, Statuses
<1>6. SoleFile(id)
  BY DEF FilesAreSound
<1> QED
  BY <1>3, <1>4, <1>5, <1>6 DEF SoleFile

\* A download stays started, on its file; only StartDownload makes it so.
LEMMA StatusStep ==
  ASSUME IInv, FilesAreSound, NEW i \in Ids, Worker(i)
  PROVE  row' = row \/ \E s \in Statuses : SetStatus(i, s)
BY DEF Worker, Resolve, RequestHTTP, RequestHLS, CheckCancel, ReadHTTP, ReadHLS,
       Cleanup, Fail, Complete, Unwind, Report, Statuses

LEMMA StartedStays ==
  ASSUME IInv, FilesAreSound, Next
  PROVE  target' = target /\ \A i \in Ids : Started(i) => Started(i)'
<1> USE DEF IInv, TypeOK, Started
<1>1. ASSUME NEW i \in Ids, Worker(i)
      PROVE  target' = target /\ \A j \in Ids : Started(j) => Started(j)'
  BY <1>1, StatusStep, WorkerFrame DEF SetStatus, Listed, Statuses
<1> QED
  BY <1>1
  DEF Next, InsertDownload, Start, Cancel, MarkCancelled, RemoveFile, RemoveDownload,
      ImportLookup, ImportStat, ImportIndex, Exit, SetStatus, Listed, Statuses

LEMMA OnlyInsertStarts ==
  ASSUME IInv, FilesAreSound, Next, NEW id \in Ids, ~InsertDownload(id), Started(id)'
  PROVE  Started(id)
<1> USE DEF IInv, TypeOK, Started
<1>1. ASSUME NEW i \in Ids, Worker(i) PROVE Started(id)
  BY <1>1, StatusStep DEF SetStatus, Listed, Statuses
<1> QED
  BY <1>1
  DEF Next, InsertDownload, Start, Cancel, MarkCancelled, RemoveFile, RemoveDownload,
      ImportLookup, ImportStat, ImportIndex, Exit, SetStatus, Listed, Statuses

\* Files nobody was started on stay absent.
LEMMA UntouchedFiles ==
  ASSUME IInv, FilesAreSound, [Next]_vars, NEW p \in Paths,
         \A id \in Ids : target'[id] = p => ~Started(id)'
  PROVE  file'[p] = "absent"
<1> USE DEF IInv, TypeOK, Started
<1>1. CASE file' = file /\ target' = target /\ \A id \in Ids : Started(id) => Started(id)'
  BY <1>1 DEF FilesAreSound
<1>2. ASSUME NEW id \in Ids, Worker(id) \/ RemoveFile(id) PROVE file'[p] = "absent"
  <2>1. Started(id) /\ target' = target /\ \A i \in Ids : Started(i) <=> Started(i)'
    BY <1>2, WorkerFrame, SetStatusType
    DEF FilesAreSound, OutcomeComesLast, Worker, Resolve, RequestHTTP, RequestHLS,
        CheckCancel, ReadHTTP, ReadHLS, Cleanup, Fail, Complete, Unwind, RemoveFile,
        Report, Listed, Statuses, SetStatus
  <2>2. target[id] # p
    BY <2>1
  <2> QED
    BY <1>2, <2>1, <2>2, OtherFiles DEF FilesAreSound
<1> QED
  BY <1>1, <1>2
  DEF Next, vars, InsertDownload, Start, Cancel, MarkCancelled, RemoveDownload,
      ImportLookup, ImportStat, ImportIndex, Exit, SetStatus

LEMMA NextFiles == IInv /\ FilesAreSound /\ [Next]_vars => FilesAreSound'
<1> SUFFICES ASSUME IInv, FilesAreSound, [Next]_vars PROVE FilesAreSound'
  OBVIOUS
<1>1. OutcomeComesLast'
  BY NextOutcome DEF FilesAreSound
<1>2. \A p \in Paths : (\A id \in Ids : target'[id] = p => ~Started(id)') => file'[p] = "absent"
  BY UntouchedFiles
<1>3. ASSUME NEW id \in Ids, Sole(id)' PROVE SoleFile(id)'
  <2> USE DEF IInv, TypeOK
  <2>1. CASE UNCHANGED vars
    BY <1>3, <2>1 DEF vars, FilesAreSound, Sole, Started, SoleFile
  <2>2. CASE InsertDownload(id)
    <3>1. /\ pc[id] = "none" /\ verdict[id] = "none"
          /\ UNCHANGED <<target, file, pc, verdict>>
      BY <2>2 DEF InsertDownload, SpawnedOnce, OneCallback
    <3>2. \A i \in Ids : target[i] = target[id] => ~Started(i)
      BY <1>3, <2>2 DEF InsertDownload, Sole, Started
    <3>3. file[target[id]] = "absent"
      BY <3>2 DEF FilesAreSound
    <3> QED
      BY <3>1, <3>3 DEF SoleFile, Writing
  <2>3. ASSUME Next, ~InsertDownload(id) PROVE Sole(id)
    <3>1. target' = target /\ \A i \in Ids : Started(i) => Started(i)'
      BY <2>3, StartedStays
    <3>2. Started(id)' => Started(id)
      BY <2>3, OnlyInsertStarts
    <3> QED
      BY <1>3, <3>1, <3>2 DEF Sole
  <2>4. ASSUME Sole(id), file' = file, target' = target, linked' = linked, pc' = pc,
               verdict' = verdict, exits' = exits,
               importer[id] = "none" => importer'[id] = "none",
               id \in removing => id \in removing' \/ row'[id] = "removed",
               row[id] = "removed" => row'[id] = "removed"
        PROVE  SoleFile(id)'
    BY <2>4 DEF FilesAreSound, SoleFile
  <2>5. ASSUME NEW i \in Ids, Sole(id),
               \/ InsertDownload(i) \/ Cancel(i) \/ MarkCancelled(i)
               \/ RemoveDownload(i) \/ ImportLookup(i) \/ ImportStat(i) \/ ImportIndex(i)
        PROVE  SoleFile(id)'
    BY <2>4, <2>5
    DEF InsertDownload, Cancel, MarkCancelled, RemoveDownload, ImportLookup, ImportStat,
        ImportIndex, SetStatus, Listed, Statuses, Sole, Started
  <2>6. ASSUME NEW i \in Ids, Sole(id), Start(i) PROVE SoleFile(id)'
    <3>1. /\ pc[i] = "none" /\ pc' = [pc EXCEPT ![i] = "resolve"]
          /\ UNCHANGED <<row, target, file, linked, verdict, exits, removing, importer>>
      BY <2>6 DEF Start, SpawnedOnce, ActiveIsRunning, Live, Goto
    <3> QED
      BY <2>6, <3>1 DEF FilesAreSound, SoleFile, Writing
  <2>7. ASSUME NEW i \in Ids, i = id, Sole(id), RemoveFile(i) PROVE SoleFile(id)'
    <3>1. /\ removing' = removing \cup {id}
          /\ UNCHANGED <<row, target, pc, verdict, exits>>
      BY <2>7 DEF RemoveFile
    <3>2. CASE id \notin saved
      BY <2>7, <3>1, <3>2 DEF RemoveFile, FilesAreSound, SoleFile
    <3>3. CASE id \in saved
      <4>1. verdict[id] = "completed" /\ pc[id] \in {"unwinding", "done", "killed"}
        BY <3>3 DEF FilesAreSound, OutcomeComesLast
      <4>2. file'[target[id]] \in {"absent", file[target[id]]}
        BY <2>7, <3>3 DEF RemoveFile, Unlink
      <4> QED
        BY <2>7, <3>1, <4>1, <4>2 DEF FilesAreSound, SoleFile, Writing
    <3> QED
      BY <3>2, <3>3
  <2>8. ASSUME NEW i \in Ids, Sole(id), Worker(i) PROVE SoleFile(id)'
    <3>1. CASE i = id
      BY <1>1, <2>8, <3>1, OwnStep
    <3>2. CASE i # id
      BY <2>8, <3>2, OthersStep
    <3> QED
      BY <3>1, <3>2
  <2>9. ASSUME Sole(id), Exit PROVE SoleFile(id)'
    <3>1. exits \in 0 .. MaxExits /\ exits' > 0
      BY <2>9, ConstantsAssumption DEF ConstantsAssumption, Exit
    <3>2. /\ pc'[id] = IF pc[id] \in Live THEN "killed" ELSE pc[id]
          /\ importer'[id] = "none"
          /\ UNCHANGED <<row, target, verdict, file>>
      BY <2>9 DEF Exit
    <3> QED
      BY <2>9, <3>1, <3>2 DEF FilesAreSound, SoleFile, Writing, Live
  <2>10. ASSUME Next, ~InsertDownload(id) PROVE SoleFile(id)'
    <3>1. Sole(id)
      BY <2>3, <2>10
    <3>2. CASE Exit
      BY <2>9, <3>1, <3>2
    <3>3. ASSUME NEW i \in Ids,
                 \/ InsertDownload(i) \/ Start(i) \/ Cancel(i) \/ MarkCancelled(i)
                 \/ RemoveFile(i) \/ RemoveDownload(i) \/ Worker(i)
                 \/ ImportLookup(i) \/ ImportStat(i) \/ ImportIndex(i)
          PROVE  SoleFile(id)'
      <4>1. CASE \/ InsertDownload(i) \/ Cancel(i) \/ MarkCancelled(i)
                 \/ RemoveDownload(i) \/ ImportLookup(i) \/ ImportStat(i) \/ ImportIndex(i)
        BY <2>5, <3>1, <4>1
      <4>2. CASE Start(i)
        BY <2>6, <3>1, <4>2
      <4>3. CASE Worker(i)
        BY <2>8, <3>1, <4>3
      <4>4. CASE RemoveFile(i)
        <5>1. CASE i = id
          BY <2>7, <3>1, <4>4, <5>1
        <5>2. CASE i # id
          BY <3>1, <4>4, <5>2, OthersStep
        <5> QED
          BY <5>1, <5>2
      <4> QED
        BY <3>3, <4>1, <4>2, <4>3, <4>4
    <3> QED
      BY <2>10, <3>2, <3>3 DEF Next
  <2> QED
    BY <2>1, <2>2, <2>10
<1> QED
  BY <1>1, <1>2, <1>3 DEF FilesAreSound

LEMMA FilesInvariant == Spec => [](IInv /\ FilesAreSound)
BY InitIInv, NextIInv, InitFiles, NextFiles, PTL DEF Spec

\* A file that is not shared is alone to the download it belongs to.
LEMMA UnsharedIsSole ==
  ASSUME TypeOK, NEW id \in Ids, Started(id), ~Shared(target[id])
  PROVE  Sole(id)
BY DEF Shared, Sole, Started, TypeOK

\* A completed row that has its path alone has the whole file there, unless the
\* user is deleting it.
THEOREM CompletedIsWholeHolds == Spec => []CompletedIsWhole
<1>1. IInv /\ FilesAreSound => CompletedIsWhole
  <2> SUFFICES ASSUME IInv, FilesAreSound, NEW id \in Ids,
                      row[id] = "completed", ~Shared(target[id])
               PROVE  \/ file[target[id]] = "whole"
                      \/ file[target[id]] = "absent" /\ (id \in removing \/ exits > 0)
    BY DEF CompletedIsWhole
  <2>1. Sole(id) /\ verdict[id] = "completed"
    BY UnsharedIsSole DEF IInv, Started, FilesAreSound, OutcomeComesLast
  <2> QED
    BY <2>1 DEF FilesAreSound, SoleFile
<1> QED
  BY <1>1, FilesInvariant, PTL

\* While a download that has its path alone is imported, what is there is the
\* file it finished, unless the user has taken it.
LEMMA ImportedFile ==
  ASSUME IInv, FilesAreSound, NEW id \in Ids, importer[id] # "none", ~Shared(target[id])
  PROVE  \/ file[target[id]] = "whole"
         \/ file[target[id]] = "absent" /\ Taken(target[id])
<1>1. verdict[id] = "completed" /\ Started(id)
  BY DEF FilesAreSound, OutcomeComesLast
<1>2. SoleFile(id)
  BY <1>1, UnsharedIsSole DEF IInv, FilesAreSound
<1> QED
  BY <1>1, <1>2 DEF SoleFile, Taken

\* The importer goes on with finished files only, whatever became of the row, and
\* lists nothing else, unless the user has removed it during the lookups.
THEOREM LibraryIndexesWholeHolds == Spec => LibraryIndexesWhole
<1> DEFINE Seen  == \A id \in Ids : importer[id] = "stat" /\ importer'[id] = "index" =>
                      file[target[id]] = "whole" \/ Shared(target[id])
           Added == \A p \in library' \ library :
                      \/ file[p] = "whole"
                      \/ file[p] = "absent" /\ Taken(p)
                      \/ Shared(p)
<1>1. IInv /\ FilesAreSound /\ [Next]_vars => ((Seen /\ Added) \/ UNCHANGED vars)
  <2> SUFFICES ASSUME IInv, FilesAreSound, Next PROVE Seen /\ Added
    BY DEF vars
  <2> USE DEF IInv, TypeOK
  <2>1. ASSUME NEW id \in Ids, Worker(id)
        PROVE  /\ library' = library
               /\ \A i \in Ids : importer'[i] \in {importer[i], "lookup"}
    BY <2>1 DEF Worker, Resolve, RequestHTTP, RequestHLS, CheckCancel, ReadHTTP,
                ReadHLS, Cleanup, Fail, Complete, Unwind
  <2>2. ASSUME NEW id \in Ids, importer[id] = "stat", importer'[id] = "index",
               ~Shared(target[id])
        PROVE  file[target[id]] = "whole"
    <3>1. ImportStat(id)
      BY <2>1, <2>2
      DEF Next, InsertDownload, Start, Cancel, MarkCancelled, RemoveFile,
          RemoveDownload, ImportLookup, ImportStat, ImportIndex, Exit
    <3> QED
      BY <2>2, <3>1, ImportedFile DEF ImportStat
  <2>3. ASSUME NEW p \in library' \ library, ~Shared(p)
        PROVE  \/ file[p] = "whole"
               \/ file[p] = "absent" /\ Taken(p)
    <3>1. PICK id \in Ids : ImportIndex(id)
      BY <2>1, <2>3
      DEF Next, InsertDownload, Start, Cancel, MarkCancelled, RemoveFile,
          RemoveDownload, ImportLookup, ImportStat, Exit
    <3>2. importer[id] = "index" /\ p = target[id]
      BY <2>3, <3>1 DEF ImportIndex
    <3> QED
      BY <2>3, <3>2, ImportedFile
  <2> QED
    BY <2>2, <2>3
<1> QED
  BY <1>1, FilesInvariant, PTL DEF Spec, LibraryIndexesWhole

----------------------------------------------------------------------------
(* Each worker implements DownloadJob.                                     *)

LEMMA InitJob == Init => Job!Init
<1> SUFFICES ASSUME Init PROVE Job!Init
  OBVIOUS
<1>1. phaseOf = [id \in Ids |-> "idle"]
  BY DEF Init, phaseOf, Live
<1>2. askedOf = {}
  BY DEF Init, askedOf
<1> QED
  BY <1>1, <1>2 DEF Init, Job!Init

\* A step that keeps every goroutine's phase, channel and callback.
LEMMA JobStutter ==
  ASSUME \A id \in Ids : /\ pc'[id] = pc[id] \/ {pc[id], pc'[id]} \subseteq Live
                         /\ cancel'[id] = cancel[id],
         verdict' = verdict,
         exits' = exits
  PROVE  UNCHANGED <<phaseOf, askedOf, verdict, exits>>
<1>1. \A id \in Ids : phaseOf'[id] = phaseOf[id]
  BY DEF phaseOf, Live
<1>2. phaseOf' = phaseOf
  BY <1>1 DEF phaseOf
<1>3. askedOf' = askedOf
  BY DEF askedOf
<1> QED
  BY <1>2, <1>3

LEMMA StepJob == IInv /\ [Next]_vars => [Job!Next]_(Job!vars)
<1> SUFFICES ASSUME IInv, [Next]_vars
             PROVE  Job!Next \/ UNCHANGED <<phaseOf, askedOf, verdict, exits>>
  BY DEF Job!vars
<1> USE DEF IInv, TypeOK, Goto
<1> DEFINE Step == Job!Next \/ UNCHANGED <<phaseOf, askedOf, verdict, exits>>
<1>1. ASSUME NEW id \in Ids,
             InsertDownload(id) \/ MarkCancelled(id) \/ RemoveFile(id)
               \/ RemoveDownload(id) \/ ImportLookup(id) \/ ImportStat(id) \/ ImportIndex(id)
      PROVE  Step
  <2>1. UNCHANGED <<pc, cancel, verdict, exits>>
    BY <1>1 DEF InsertDownload, MarkCancelled, RemoveFile, RemoveDownload,
                ImportLookup, ImportStat, ImportIndex
  <2> QED
    BY <2>1, JobStutter
<1>2. ASSUME NEW id \in Ids, Start(id) PROVE Step
  <2>1. id \notin active /\ pc[id] = "none" /\ cancel[id] = "none"
    BY <1>2 DEF Start, SpawnedOnce, ActiveIsRunning, Live
  <2>2. /\ pc' = [pc EXCEPT ![id] = "resolve"]
        /\ cancel' = [cancel EXCEPT ![id] = "open"]
        /\ verdict' = verdict
        /\ exits' = exits
    BY <1>2, <2>1 DEF Start
  <2>3. askedOf' = askedOf
    BY <2>1, <2>2 DEF askedOf
  <2>4. phaseOf' = [phaseOf EXCEPT ![id] = "running"]
    BY <2>2 DEF phaseOf, Live
  <2>5. phaseOf[id] = "idle"
    BY <2>1 DEF phaseOf, Live
  <2>6. Job!Begin(id)
    BY <2>2, <2>3, <2>4, <2>5 DEF Job!Begin
  <2> QED
    BY <2>6 DEF Job!Next
<1>3. ASSUME NEW id \in Ids, Cancel(id) PROVE Step
  <2>1. UNCHANGED <<pc, verdict, exits>>
    BY <1>3 DEF Cancel
  <2>2. phaseOf' = phaseOf
    BY <2>1 DEF phaseOf
  <2>3. CASE id \in active
    <3>1. askedOf' = askedOf \cup {id}
      BY <1>3, <2>3 DEF Cancel, askedOf
    <3>2. phaseOf[id] = "running"
      BY <2>3 DEF ActiveIsRunning, phaseOf, Live
    <3>3. Job!Ask(id)
      BY <2>1, <2>2, <3>1, <3>2 DEF Job!Ask
    <3> QED
      BY <3>3 DEF Job!Next
  <2>4. CASE id \notin active
    BY <1>3, <2>1, <2>2, <2>4 DEF Cancel, askedOf
  <2> QED
    BY <2>3, <2>4
<1>4. ASSUME NEW id \in Ids, Worker(id) PROVE Step
  <2>1. CASE UNCHANGED <<cancel, verdict, exits>>
             /\ \E next \in Live : pc[id] \in Live /\ pc' = [pc EXCEPT ![id] = next]
    BY <2>1, JobStutter
  <2>2. CASE Fail(id) \/ Complete(id)
    <3>1. /\ pc[id] \in Live \ {"unwinding"}
          /\ pc' = [pc EXCEPT ![id] = "unwinding"]
          /\ cancel' = cancel
          /\ exits' = exits
          /\ \E outcome \in {"completed", "failed"} :
               verdict' = [verdict EXCEPT ![id] = outcome]
      BY <2>2 DEF Fail, Complete, Live
    <3>2. phaseOf' = phaseOf /\ askedOf' = askedOf
      <4>1. \A i \in Ids : phaseOf'[i] = phaseOf[i]
        BY <3>1 DEF phaseOf, Live
      <4> QED
        BY <3>1, <4>1 DEF phaseOf, askedOf
    <3>3. phaseOf[id] = "running" /\ verdict[id] = "none"
      BY <3>1 DEF phaseOf, Live, OneCallback
    <3>4. \E outcome \in {"completed", "failed"} : Job!Deliver(id, outcome)
      BY <3>1, <3>2, <3>3 DEF Job!Deliver
    <3> QED
      BY <3>4 DEF Job!Next
  <2>3. CASE Unwind(id)
    <3>1. /\ pc[id] = "unwinding"
          /\ pc' = [pc EXCEPT ![id] = "done"]
          /\ UNCHANGED <<cancel, verdict, exits>>
      BY <2>3 DEF Unwind
    <3>2. phaseOf' = [phaseOf EXCEPT ![id] = "stopped"]
      BY <3>1 DEF phaseOf, Live
    <3>3. phaseOf[id] = "running" /\ askedOf' = askedOf
      BY <3>1 DEF phaseOf, askedOf, Live
    <3>4. verdict[id] # "none" \/ id \in askedOf
      BY <3>1 DEF OneCallback, askedOf
    <3>5. Job!Stop(id)
      BY <3>1, <3>2, <3>3, <3>4 DEF Job!Stop
    <3> QED
      BY <3>5 DEF Job!Next
  <2> QED
    BY <1>4, <2>1, <2>2, <2>3
    DEF Worker, Resolve, RequestHTTP, RequestHLS, CheckCancel, ReadHTTP,
        ReadHLS, Cleanup, Live
<1>5. CASE Exit
  <2>1. /\ pc' = [id \in Ids |-> IF pc[id] \in Live THEN "killed" ELSE pc[id]]
        /\ exits' = exits + 1
        /\ UNCHANGED <<cancel, verdict>>
    BY <1>5 DEF Exit
  <2>2. phaseOf' = [id \in Ids |-> IF phaseOf[id] = "running" THEN "stopped"
                                   ELSE phaseOf[id]]
    BY <2>1 DEF phaseOf, Live
  <2>3. Job!Abort
    BY <2>1, <2>2 DEF Job!Abort, askedOf
  <2> QED
    BY <2>3 DEF Job!Next
<1>6. CASE UNCHANGED vars
  BY <1>6, JobStutter DEF vars
<1> QED
  BY <1>1, <1>2, <1>3, <1>4, <1>5, <1>6 DEF Next

\* The manager keeps the promise of DownloadJob for each download, however
\* calls, workers and exits interleave and whatever the rows say.
THEOREM Refinement == Spec => JobSpec
  BY InitJob, StepJob, ManagerInvariant, PTL DEF Spec, JobSpec, Job!Spec
=============================================================================
