----------------------------- MODULE Downloads -----------------------------
(***************************************************************************)
(* The download manager, the `downloads` table and the files on disk.      *)
(*                                                                         *)
(* backend/download/manager.go runs one goroutine per download and keeps a *)
(* map of the active ones, each with a channel that Cancel closes.  app.go *)
(* wraps it: it inserts the row before it calls Start, marks the row after *)
(* it calls Cancel, and receives the worker's callbacks, each of which is  *)
(* one unconditional UPDATE by id (backend/db/downloads.go).  The database *)
(* has a single connection, so one statement is one step; everything else  *)
(* interleaves.                                                            *)
(***************************************************************************)
EXTENDS Integers

CONSTANTS
  Ids,      \* identifiers of download rows (AUTOINCREMENT: each used once)
  Paths,    \* target files; the same title and episode give the same file
  Posix,    \* TRUE: an open file can be unlinked; FALSE: removing it fails
  MaxExits  \* bound on process exits (a quit does not wait for downloads)

ASSUME ConstantsAssumption ==
  /\ Paths # {}
  /\ Posix \in BOOLEAN
  /\ MaxExits \in {0, 1}

VARIABLES
  row,        \* row[id]: the status column, or "unused" / "removed"
  saved,      \* ids whose file_path column has been set
  target,     \* target[id]: the file the worker writes
  hls,        \* ids whose resolved URL is an HLS manifest
  active,     \* Manager.active: the ids registered
  cancel,     \* cancel[id]: the cancel channel, "none", "open" or "closed"
  panicked,   \* a closed channel has been closed again
  pc,         \* pc[id]: where the worker goroutine is
  verdict,    \* verdict[id]: the callback the worker has made
  file,       \* file[p]: what is at the path
  linked,     \* ids holding a handle on the file that is at their path
  starting,   \* StartDownload calls between InsertDownload and Start
  cancelling, \* CancelDownload calls between Cancel and the UPDATE
  removing,   \* RemoveDownload calls between os.Remove and the DELETE
  importer,   \* importer[id]: the goroutine OnComplete spawns
  library,    \* files indexed in the local library
  exits       \* process exits so far

calls    == <<starting, cancelling, removing>>
disk     == <<file, linked>>
manager  == <<active, cancel, panicked>>
table    == <<row, saved>>
download == <<target, hls>>
import   == <<importer, library>>
vars     == <<row, saved, target, hls, active, cancel, panicked, pc, verdict,
              file, linked, starting, cancelling, removing, importer, library,
              exits>>

Statuses == {"pending", "downloading", "completed", "failed", "cancelled"}
Live     == {"resolve", "request", "check", "read", "cleanup", "failing",
             "completing", "unwinding"}
Writing  == {"check", "read"}

Init ==
  /\ row = [id \in Ids |-> "unused"]
  /\ saved = {}
  /\ target \in [Ids -> Paths]
  /\ hls \in SUBSET Ids
  \* HLS files end in .ts, others in .mp4: they never share a path
  /\ \A i, j \in Ids : target[i] = target[j] /\ i \in hls => j \in hls
  /\ active = {}
  /\ cancel = [id \in Ids |-> "none"]
  /\ panicked = FALSE
  /\ pc = [id \in Ids |-> "none"]
  /\ verdict = [id \in Ids |-> "none"]
  /\ file = [p \in Paths |-> "absent"]
  /\ linked = {}
  /\ starting = {}
  /\ cancelling = {}
  /\ removing = {}
  /\ importer = [id \in Ids |-> "none"]
  /\ library = {}
  /\ exits = 0

----------------------------------------------------------------------------
(* Statements and system calls the handlers are made of.                   *)

Listed(id) == row[id] \in Statuses

\* Mutant: a status the table's CHECK does not know.
SetStatusMisspelt(id, s) ==
  row' = IF Listed(id) /\ s = "cancelled" THEN [row EXCEPT ![id] = "canceled"]
         ELSE IF Listed(id) THEN [row EXCEPT ![id] = s] ELSE row

\* UPDATE downloads SET status = s WHERE id = ?  (no row, no effect)
SetStatus(id, s) ==
  row' = IF Listed(id) THEN [row EXCEPT ![id] = s] ELSE row

Handles(p, open) == {i \in open : target[i] = p}

\* os.Create: truncates what is there.  Two writers at once leave a mixture.
Created(id) ==
  [file EXCEPT ![target[id]] =
     IF \E i \in Handles(target[id], linked) \ {id} : pc[i] \in Writing
     THEN "mixed" ELSE "partial"]

\* os.Remove while the handles in `open` are open.
Unlink(p, open) ==
  IF Posix \/ Handles(p, open) = {}
  THEN /\ file' = [file EXCEPT ![p] = "absent"]
       /\ linked' = open \ Handles(p, open)
  ELSE /\ file' = file
       /\ linked' = open

Goto(id, label) == pc' = [pc EXCEPT ![id] = label]

----------------------------------------------------------------------------
(* The application's calls.                                                *)

\* StartDownload, up to the INSERT.
InsertDownload(id) ==
  /\ row[id] = "unused"
  /\ row' = [row EXCEPT ![id] = "pending"]
  /\ starting' = starting \cup {id}
  /\ UNCHANGED <<saved, download, manager, pc, verdict, disk, cancelling,
                 removing, import, exits>>

\* StartDownload from Manager.Start on: an id already active is refused and
\* the row failed, otherwise the worker is registered and spawned.
Start(id) ==
  /\ id \in starting
  /\ starting' = starting \ {id}
  /\ IF id \in active
     THEN /\ SetStatus(id, "failed")
          /\ UNCHANGED <<active, cancel, pc>>
     ELSE /\ active' = active \cup {id}
          /\ cancel' = [cancel EXCEPT ![id] = "open"]
          /\ Goto(id, "resolve")
          /\ UNCHANGED row
  /\ UNCHANGED <<saved, download, panicked, verdict, disk, cancelling,
                 removing, import, exits>>

\* Mutant: the entry stays in the map after its channel is closed.
CancelKeepsEntry(id) ==
  /\ Listed(id) /\ id \notin cancelling
  /\ cancelling' = cancelling \cup {id}
  /\ panicked' = (panicked \/ (id \in active /\ cancel[id] = "closed"))
  /\ cancel' = [cancel EXCEPT ![id] = IF id \in active THEN "closed" ELSE @]
  /\ UNCHANGED <<active, table, download, pc, verdict, disk, starting,
                 removing, import, exits>>

\* Mutant: the entry goes but the channel is never closed.
CancelForgetsClose(id) ==
  /\ Listed(id) /\ id \notin cancelling
  /\ cancelling' = cancelling \cup {id}
  /\ active' = active \ {id}
  /\ UNCHANGED <<cancel, panicked, table, download, pc, verdict, disk,
                 starting, removing, import, exits>>

\* CancelDownload, first half: Manager.Cancel under the lock.
Cancel(id) ==
  /\ Listed(id)
  /\ id \notin cancelling
  /\ cancelling' = cancelling \cup {id}
  /\ IF id \in active
     THEN /\ panicked' = (panicked \/ cancel[id] = "closed")
          /\ cancel' = [cancel EXCEPT ![id] = "closed"]
          /\ active' = active \ {id}
     ELSE UNCHANGED manager
  /\ UNCHANGED <<table, download, pc, verdict, disk, starting, removing,
                 import, exits>>

\* CancelDownload, second half: UPDATE ... SET status = 'cancelled'.
MarkCancelled(id) ==
  /\ id \in cancelling
  /\ cancelling' = cancelling \ {id}
  /\ SetStatus(id, "cancelled")
  /\ UNCHANGED <<saved, download, manager, pc, verdict, disk, starting,
                 removing, import, exits>>

\* RemoveDownload with deleteFile: the file goes first, the row later.
RemoveFile(id) ==
  /\ Listed(id)
  /\ id \notin removing
  /\ removing' = removing \cup {id}
  /\ IF id \in saved THEN Unlink(target[id], linked) ELSE UNCHANGED disk
  /\ UNCHANGED <<table, download, manager, pc, verdict, starting, cancelling,
                 import, exits>>

\* DELETE FROM downloads WHERE id = ?, after RemoveFile or without it.
RemoveDownload(id) ==
  /\ Listed(id)
  /\ row' = [row EXCEPT ![id] = "removed"]
  /\ saved' = saved \ {id}
  /\ removing' = removing \ {id}
  /\ UNCHANGED <<download, manager, pc, verdict, disk, starting,
                 cancelling, import, exits>>

----------------------------------------------------------------------------
(* The worker goroutine (downloadFile, downloadHLSFileV2).                 *)

\* Mutant: an unresolved link returns without OnFailed.
ResolveSilently(id) ==
  /\ pc[id] = "resolve"
  /\ \E next \in {"request", "unwinding"} : Goto(id, next)
  /\ UNCHANGED <<table, download, manager, verdict, disk, calls, import,
                 exits>>

Resolve(id) ==
  /\ pc[id] = "resolve"
  /\ \E next \in {"request", "failing"} : Goto(id, next)
  /\ UNCHANGED <<table, download, manager, verdict, disk, calls, import,
                 exits>>

\* Plain HTTP: an error before the file exists fails without any cleanup.
RequestHTTP(id) ==
  /\ pc[id] = "request" /\ id \notin hls
  /\ \/ Goto(id, "failing") /\ UNCHANGED disk
     \/ Goto(id, "check") /\ file' = Created(id) /\ linked' = linked \cup {id}
  /\ UNCHANGED <<table, download, manager, verdict, calls, import, exits>>

\* HLS: playlist, file, then key.  Every error goes through the cleanup, also
\* one that comes before this worker has created the file.
RequestHLS(id) ==
  /\ pc[id] = "request" /\ id \in hls
  /\ \/ Goto(id, "cleanup") /\ UNCHANGED disk
     \/ Goto(id, "cleanup") /\ file' = Created(id) /\ UNCHANGED linked
     \/ Goto(id, "check") /\ file' = Created(id) /\ linked' = linked \cup {id}
  /\ UNCHANGED <<table, download, manager, verdict, calls, import, exits>>

\* The select at the head of the read loop.  A cancelled HTTP worker closes
\* and removes its file and returns without a callback; a cancelled HLS
\* worker removes it and returns an error, which is cleaned up and reported.
CheckCancel(id) ==
  /\ pc[id] = "check"
  /\ IF cancel[id] = "closed"
     THEN /\ Unlink(target[id], linked \ {id})
          /\ Goto(id, IF id \in hls THEN "cleanup" ELSE "unwinding")
     ELSE /\ Goto(id, "read")
          /\ UNCHANGED disk
  /\ UNCHANGED <<table, download, manager, verdict, calls, import, exits>>

\* OnProgress, when 500 ms have passed since the last report.
Report(id, due) ==
  IF due THEN SetStatus(id, "downloading") ELSE UNCHANGED row

\* Mutant: a buffered writer that is not flushed before OnComplete.
FinishedUnflushed(id) == file

\* The file after the last write of a worker that reached the end.
Finished(id) ==
  IF id \in linked /\ file[target[id]] = "partial"
  THEN [file EXCEPT ![target[id]] = "whole"]
  ELSE file

\* Mutant: the loop no longer looks at the cancel channel between reads.
ReadHTTPWithoutRecheck(id) ==
  /\ pc[id] = "read" /\ id \notin hls
  /\ \E due \in BOOLEAN : Report(id, due)
  /\ \/ Goto(id, "read") /\ UNCHANGED file
     \/ Goto(id, "completing") /\ file' = Finished(id)
     \/ Goto(id, "cleanup") /\ UNCHANGED file
  /\ UNCHANGED <<saved, download, manager, verdict, linked, calls, import,
                 exits>>

\* One Read and Write of the plain HTTP loop; a failing read may still have
\* delivered bytes, so any outcome may come with a report.
ReadHTTP(id) ==
  /\ pc[id] = "read" /\ id \notin hls
  /\ \E due \in BOOLEAN : Report(id, due)
  /\ \/ Goto(id, "check") /\ UNCHANGED file
     \/ Goto(id, "completing") /\ file' = Finished(id)
     \/ Goto(id, "cleanup") /\ UNCHANGED file
  /\ UNCHANGED <<saved, download, manager, verdict, linked, calls, import,
                 exits>>

\* One segment.  The last one is always reported; a failed one (a cancel seen
\* while copying included) closes the file on return and reports nothing.
ReadHLS(id) ==
  /\ pc[id] = "read" /\ id \in hls
  /\ \/ /\ \E due \in BOOLEAN : Report(id, due)
        /\ Goto(id, "check")
        /\ UNCHANGED disk
     \/ /\ Report(id, TRUE)
        /\ Goto(id, "completing")
        /\ file' = Finished(id)
        /\ UNCHANGED linked
     \/ /\ Goto(id, "cleanup")
        /\ linked' = linked \ {id}
        /\ UNCHANGED <<row, file>>
  /\ UNCHANGED <<saved, download, manager, verdict, calls, import, exits>>

\* Mutant: the error paths forget the cleanup.
CleanupSkipped(id) ==
  /\ pc[id] = "cleanup"
  /\ Goto(id, "failing")
  /\ UNCHANGED <<table, download, manager, verdict, disk, calls, import, exits>>

\* cleanupPartialDownload; a plain HTTP worker still has the file open.
Cleanup(id) ==
  /\ pc[id] = "cleanup"
  /\ Unlink(target[id], linked)
  /\ Goto(id, "failing")
  /\ UNCHANGED <<table, download, manager, verdict, calls, import, exits>>

\* OnFailed.
Fail(id) ==
  /\ pc[id] = "failing"
  /\ SetStatus(id, "failed")
  /\ verdict' = [verdict EXCEPT ![id] = "failed"]
  /\ Goto(id, "unwinding")
  /\ UNCHANGED <<saved, download, manager, disk, calls, import, exits>>

\* Mutant: downloadHLSFileV2 reports completion and still returns an error.
CompleteThenError(id) ==
  /\ pc[id] = "completing"
  /\ SetStatus(id, "completed")
  /\ saved' = IF Listed(id) THEN saved \cup {id} ELSE saved
  /\ verdict' = [verdict EXCEPT ![id] = "completed"]
  /\ importer' = [importer EXCEPT ![id] = "lookup"]
  /\ Goto(id, IF id \in hls THEN "failing" ELSE "unwinding")
  /\ UNCHANGED <<download, manager, disk, calls, library, exits>>

\* OnComplete: the row, then the goroutine that imports the file.
Complete(id) ==
  /\ pc[id] = "completing"
  /\ SetStatus(id, "completed")
  /\ saved' = IF Listed(id) THEN saved \cup {id} ELSE saved
  /\ verdict' = [verdict EXCEPT ![id] = "completed"]
  /\ importer' = [importer EXCEPT ![id] = "lookup"]
  /\ Goto(id, "unwinding")
  /\ UNCHANGED <<download, manager, disk, calls, library, exits>>

\* Mutant: no deferred delete(m.active, id).
UnwindKeepsEntry(id) ==
  /\ pc[id] = "unwinding"
  /\ linked' = linked \ {id}
  /\ Goto(id, "done")
  /\ UNCHANGED <<table, download, manager, verdict, file, calls, import, exits>>

\* The deferred close and delete(m.active, id).
Unwind(id) ==
  /\ pc[id] = "unwinding"
  /\ linked' = linked \ {id}
  /\ active' = active \ {id}
  /\ Goto(id, "done")
  /\ UNCHANGED <<table, download, cancel, panicked, verdict, file, calls,
                 import, exits>>

Worker(id) ==
  \/ Resolve(id) \/ RequestHTTP(id) \/ RequestHLS(id) \/ CheckCancel(id)
  \/ ReadHTTP(id) \/ ReadHLS(id) \/ Cleanup(id) \/ Fail(id) \/ Complete(id)
  \/ Unwind(id)

----------------------------------------------------------------------------
(* The import goroutine.                                                   *)

\* GetDownloadByID: a row removed meanwhile skips the import.
ImportLookup(id) ==
  /\ importer[id] = "lookup"
  /\ importer' = [importer EXCEPT ![id] = IF Listed(id) THEN "stat" ELSE "none"]
  /\ UNCHANGED <<table, download, manager, pc, verdict, disk, calls, library,
                 exits>>

\* Mutant: the path is indexed without os.Stat.
ImportUnchecked(id) ==
  /\ importer[id] = "stat"
  /\ importer' = [importer EXCEPT ![id] = "index"]
  /\ UNCHANGED <<table, download, manager, pc, verdict, disk, calls, library,
                 exits>>

\* ImportDownloadedAnime looks at the path (.mp4 and .ts are both accepted), and
\* goes on to ask AniList and others which anime it belongs to.
ImportStat(id) ==
  /\ importer[id] = "stat"
  /\ importer' = [importer EXCEPT ![id] =
                    IF file[target[id]] = "absent" THEN "none" ELSE "index"]
  /\ UNCHANGED <<table, download, manager, pc, verdict, disk, calls, library,
                 exits>>

\* The answers are in: the INSERT of the episode, whatever is at the path by now.
ImportIndex(id) ==
  /\ importer[id] = "index"
  /\ importer' = [importer EXCEPT ![id] = "none"]
  /\ library' = library \cup {target[id]}
  /\ UNCHANGED <<table, download, manager, pc, verdict, disk, calls, exits>>

\* The process exits (quit or crash) and starts again: the table and the files
\* stay, everything else is gone, and nothing resumes an unfinished row.
Exit ==
  /\ exits < MaxExits
  /\ exits' = exits + 1
  /\ active' = {}
  /\ pc' = [id \in Ids |-> IF pc[id] \in Live THEN "killed" ELSE pc[id]]
  /\ linked' = {}
  /\ starting' = {}
  /\ cancelling' = {}
  /\ removing' = {}
  /\ importer' = [id \in Ids |-> "none"]
  /\ UNCHANGED <<table, download, cancel, panicked, verdict, file, library>>

Next ==
  \/ \E id \in Ids :
       \/ InsertDownload(id) \/ Start(id) \/ Cancel(id) \/ MarkCancelled(id)
       \/ RemoveFile(id) \/ RemoveDownload(id) \/ Worker(id)
       \/ ImportLookup(id) \/ ImportStat(id) \/ ImportIndex(id)
  \/ Exit

\* The Go scheduler runs every goroutine that can run, and a network call
\* returns in the end; the user and the process owe nothing.
Fairness == \A id \in Ids : WF_vars(Worker(id))

Spec     == Init /\ [][Next]_vars
FairSpec == Spec /\ Fairness

----------------------------------------------------------------------------
(* Properties.                                                             *)

TypeOK ==
  /\ row \in [Ids -> Statuses \cup {"unused", "removed"}]
  /\ saved \in SUBSET Ids
  /\ target \in [Ids -> Paths]
  /\ hls \in SUBSET Ids
  /\ active \in SUBSET Ids
  /\ cancel \in [Ids -> {"none", "open", "closed"}]
  /\ panicked \in BOOLEAN
  /\ pc \in [Ids -> Live \cup {"none", "done", "killed"}]
  /\ verdict \in [Ids -> {"none", "completed", "failed"}]
  /\ file \in [Paths -> {"absent", "partial", "mixed", "whole"}]
  /\ linked \in SUBSET Ids
  /\ starting \in SUBSET Ids
  /\ cancelling \in SUBSET Ids
  /\ removing \in SUBSET Ids
  /\ importer \in [Ids -> {"none", "lookup", "stat", "index"}]
  /\ library \in SUBSET Paths
  /\ exits \in 0..MaxExits

\* Another download was ever started on the same file.
Shared(p) == \E i, j \in Ids : i # j /\ target[i] = p /\ target[j] = p
                              /\ row[i] # "unused" /\ row[j] # "unused"

\* The manager's map is honest: a registered id has a goroutine that has not
\* returned, and a channel that a Cancel can still close.
ActiveIsRunning ==
  \A id \in active : pc[id] \in Live /\ cancel[id] = "open"

\* No goroutine escapes: one that still runs can be cancelled through the map
\* or has already been told to stop.
RunningIsStoppable ==
  \A id \in Ids : pc[id] \in Live => id \in active \/ cancel[id] = "closed"

\* Cancel never closes a channel twice (which would panic), whatever calls and
\* worker exits interleave.
NeverClosedTwice == ~panicked

\* The map, the channels and the goroutines agree through every interleaving of
\* Start, Cancel and the worker's deferred exit.
CancelIsSafe == ActiveIsRunning /\ RunningIsStoppable /\ NeverClosedTwice

\* Once a worker's outcome is in the row, only the user changes it: no late
\* progress report and no second callback overwrites it.
OutcomeIsFinal ==
  [][\A id \in Ids : row[id] \in {"completed", "failed"} =>
       row'[id] \in {row[id], "cancelled", "removed"}]_vars

\* A completed row, cancelled and late-reported as it may have been, has the
\* whole file at its path, unless the user is deleting it (or an exit came
\* between that os.Remove and the DELETE) or a second download used the path.
CompletedIsWhole ==
  \A id \in Ids : row[id] = "completed" /\ ~Shared(target[id]) =>
    \/ file[target[id]] = "whole"
    \/ file[target[id]] = "absent" /\ (id \in removing \/ exits > 0)

\* No path of the worker (cancel, read error, write error, missing key) leaves
\* half a file behind when it returns.  Holds where an open file can be removed.
NoOrphanPartial ==
  \A p \in Paths : file[p] = "partial" /\ exits = 0 =>
    \E id \in Ids : /\ target[id] = p
                    /\ pc[id] \in Live
                    /\ id \in linked \/ pc[id] = "cleanup"

\* RemoveDownload has taken the file at p, or is about to.
Taken(p) == \E id \in Ids : target[id] = p /\ (id \in removing \/ row[id] = "removed")

\* The importer works on a path it was handed before.  It goes on to the lookups
\* with a finished file only, even if the row was cancelled or removed; and what
\* it lists after them is still that file, or one the user has removed since: no
\* cleanup, exit or importer of an older run puts half a file into the library.
LibraryIndexesWhole ==
  [][/\ \A id \in Ids : importer[id] = "stat" /\ importer'[id] = "index" =>
          file[target[id]] = "whole" \/ Shared(target[id])
     /\ \A p \in library' \ library :
          \/ file[p] = "whole"
          \/ file[p] = "absent" /\ Taken(p)
          \/ Shared(p)]_vars

\* A worker whose channel is closed returns, even from an endless stream.
CancelStopsWorker ==
  \A id \in Ids : cancel[id] = "closed" ~> pc[id] \in {"done", "killed"}

\* Each worker is the job the manager promises, whatever its row says.
phaseOf == [id \in Ids |-> CASE pc[id] = "none" -> "idle"
                             [] pc[id] \in Live -> "running"
                             [] OTHER -> "stopped"]
askedOf == {id \in Ids : cancel[id] = "closed"}
Job     == INSTANCE DownloadJob WITH phase <- phaseOf, asked <- askedOf
JobSpec == Job!Spec

\* "GetActiveDownloads returns downloads currently in progress" (app.go): a row
\* it lists, with no CancelDownload under way, is not one whose worker returned.
ListedAsActiveIsRunning ==
  \A id \in Ids \ cancelling :
    row[id] \in {"pending", "downloading"} => pc[id] # "done"

\* "Clean up partial file" (manager.go), cleanupPartialDownload: what a worker
\* removes is not the finished file of a completed download.
CleanupRemovesOnlyPartial ==
  [][\A id \in Ids : Worker(id) =>
       \A other \in Ids :
         row[other] = "completed" /\ file[target[other]] = "whole"
           => file'[target[other]] # "absent"]_vars
=============================================================================
