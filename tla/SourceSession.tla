---------------------------- MODULE SourceSession ----------------------------
(***************************************************************************)
(* sourceaccess: requests to sites that ask for a browser's cookies.       *)
(*                                                                         *)
(* FetchBytes sends a request with the session of its source, if there is  *)
(* one in memory or in the file all sources share.  A blocked request has  *)
(* a browser solve the challenge, once however many requests wait, and is  *)
(* sent again.  Memory is guarded by sessionMu; the file is only guarded   *)
(* while a solve ends, and validSession reads it without the lock.         *)
(***************************************************************************)
EXTENDS Naturals, Sequences

CONSTANTS
  Threads,      \* goroutines that call FetchBytes
  Sources,      \* registered profiles
  Uses,         \* bound: the sources a thread fetches from, one call after another
  MaxRestarts,  \* bound: ends of the process
  None

ASSUME SourceSessionAssumption ==
  /\ MaxRestarts \in Nat
  /\ \A u \in Uses : DOMAIN u = Threads /\ \A t \in Threads : u[t] \in Seq(Sources)
  /\ None \notin Threads \cup Sources \cup (Threads \X Nat)

VARIABLES
  pc,        \* pc[t]: where the call is
  calls,     \* calls[t]: calls begun
  plan,      \* plan[t]: the sources thread t fetches from
  attempt,   \* attempt[t]: "first", "again" after a 429, "last" after a solve
  found,     \* found[t]: the session loadPersistedSession read
  awaits,    \* awaits[t]: the channel it waits on
  sessionMu, \* who holds the lock over several steps
  sessions,  \* sessions[x]: cookies, running and waitCh of a source
  closed,    \* channels that are closed
  file,      \* file[x]: the session of x in the file
  writing,   \* it is truncated and not written to the end
  corrupt,   \* the file is not JSON
  expired,   \* sessions whose time is over
  crashed,   \* a panic has ended the process
  restarts,
  \* History, read by properties only:
  displaced, \* channels of solves whose entry was replaced, or ended by another
  unsaved    \* sources whose write was not made, or undone by an old read

call    == <<pc, calls, plan, attempt, found, awaits>>
disk    == <<file, writing, corrupt>>
process == <<expired, crashed, restarts>>
notes   == <<displaced, unsaved>>
vars    == <<call, sessionMu, sessions, closed, disk, process, notes>>

Solves  == UNION {{t} \X (1 .. Len(plan[t])) : t \in Threads}  \* with channel and cookies
Leases  == Sources \cup Solves           \* a source names the session on file at first
Absent  == [cookies |-> None, running |-> FALSE, waitCh |-> None]
Empty   == [x \in Sources |-> None]
Ours(t) == <<t, calls[t]>>
Src(t)  == plan[t][calls[t]]            \* the source of the call

Init ==
  /\ pc = [t \in Threads |-> "idle"]
  /\ calls = [t \in Threads |-> 0]
  /\ plan \in Uses
  /\ attempt = [t \in Threads |-> "first"]
  /\ found = [t \in Threads |-> None]
  /\ awaits = [t \in Threads |-> None]
  /\ sessionMu = None
  /\ sessions = [x \in Sources |-> Absent]
  /\ closed = {}
  /\ \E S \in SUBSET Sources : file = [x \in Sources |-> IF x \in S THEN x ELSE None]
  /\ writing = FALSE /\ corrupt = FALSE
  /\ expired = {}
  /\ crashed = FALSE
  /\ restarts = 0
  /\ displaced = {} /\ unsaved = {}

Live(l)    == l # None /\ l \notin expired
Goto(t, l) == pc' = [pc EXCEPT ![t] = l]

\* prunePersistedSessionEntries
Prune(f) == [x \in Sources |-> IF Live(f[x]) THEN f[x] ELSE None]

----------------------------------------------------------------------------
(* performRequest: the session to send, then the request.                  *)

FetchBytes(t) ==
  /\ pc[t] = "idle"
  /\ calls[t] < Len(plan[t])
  /\ calls' = [calls EXCEPT ![t] = @ + 1]
  /\ Goto(t, "valid")
  /\ UNCHANGED <<plan, attempt, found, awaits, sessionMu, sessions, closed,
                 disk, process, notes>>

\* validSession, the part under the lock.
ValidSession(t) ==
  /\ pc[t] = "valid"
  /\ sessionMu = None
  /\ Goto(t, IF Live(sessions[Src(t)].cookies) THEN "request" ELSE "load")
  /\ UNCHANGED <<calls, plan, attempt, found, awaits, sessionMu, sessions,
                 closed, disk, process, notes>>

\* loadPersistedSession, without the lock.  The read has pruned the file; that
\* an entry ends between the pruning and the next line is left out.
LoadPersistedSession(t) ==
  /\ pc[t] = "load"
  /\ LET entry == IF corrupt \/ writing THEN None ELSE Prune(file)[Src(t)]
     IN  /\ found' = [found EXCEPT ![t] = entry]
         /\ Goto(t, IF entry = None THEN "request" ELSE "loaded")
  /\ UNCHANGED <<calls, plan, attempt, awaits, sessionMu, sessions, closed, disk,
                 process, notes>>

\* The session read goes into memory, whatever is there by now.
Install(t) ==
  /\ pc[t] = "loaded"
  /\ sessionMu = None
  /\ sessions' = [sessions EXCEPT ![Src(t)] =
       [cookies |-> found[t], running |-> FALSE, waitCh |-> None]]
  /\ displaced' = IF sessions[Src(t)].running
                  THEN displaced \cup {sessions[Src(t)].waitCh} ELSE displaced
  /\ unsaved' = IF file[Src(t)] = found[t] THEN unsaved ELSE unsaved \cup {Src(t)}
  /\ found' = [found EXCEPT ![t] = None]
  /\ Goto(t, "request")
  /\ UNCHANGED <<calls, plan, attempt, awaits, sessionMu, closed,
                 disk, process>>

\* doRequest: the answer, and what follows from it.
Request(t) ==
  /\ pc[t] = "request"
  /\ \/ /\ attempt' = [attempt EXCEPT ![t] = "first"]  \* ok, failed, out of tries
        /\ Goto(t, "idle")
     \/ /\ attempt[t] = "first"                  \* 429: once more after a while
        /\ attempt' = [attempt EXCEPT ![t] = "again"]
        /\ Goto(t, "valid")
     \/ /\ attempt[t] # "last"                   \* looksBlocked
        /\ Goto(t, "ensure")
        /\ UNCHANGED attempt
  /\ UNCHANGED <<calls, plan, found, awaits, sessionMu, sessions, closed,
                 disk, process, notes>>

----------------------------------------------------------------------------
(* ensureSession                                                           *)

Resend(t) ==
  /\ attempt' = [attempt EXCEPT ![t] = "last"]
  /\ Goto(t, "valid")

StartSolve(t) ==
  /\ sessions' = [sessions EXCEPT ![Src(t)] =
       [cookies |-> None, running |-> TRUE, waitCh |-> Ours(t)]]
  /\ Goto(t, "solving")
  /\ UNCHANGED <<attempt, awaits>>

\* Mutant: a solve under way is not looked for.
EnsureAlone(t) ==
  /\ pc[t] = "ensure"
  /\ sessionMu = None
  /\ IF Live(sessions[Src(t)].cookies)
     THEN Resend(t) /\ UNCHANGED <<sessions, awaits>>
     ELSE StartSolve(t)
  /\ UNCHANGED <<calls, plan, found, sessionMu, closed, disk, process,
                 notes>>

EnsureSession(t) ==
  /\ pc[t] = "ensure"
  /\ sessionMu = None
  /\ LET cached == sessions[Src(t)]
     IN  \/ /\ Live(cached.cookies)
            /\ Resend(t)
            /\ UNCHANGED <<sessions, awaits>>
         \/ /\ ~Live(cached.cookies)
            /\ cached.running
            /\ awaits' = [awaits EXCEPT ![t] = cached.waitCh]
            /\ Goto(t, "waiting")
            /\ UNCHANGED <<attempt, sessions>>
         \/ /\ ~Live(cached.cookies)
            /\ ~cached.running
            /\ StartSolve(t)
  /\ UNCHANGED <<calls, plan, found, sessionMu, closed, disk, process,
                 notes>>

\* Mutant: the waiters are told only of a success.
CloseIfSolved(t, solved) ==
  closed' = IF solved THEN closed \cup {sessions[Src(t)].waitCh} ELSE closed

\* close(cache.waitCh) of whatever entry the source has by now.
CloseWaitCh(t, solved) == closed' = closed \cup {sessions[Src(t)].waitCh}

CanClose(t) == sessions[Src(t)].waitCh \notin closed \cup {None}

\* The browser is done; the lock is held until the file is written.
Solved(t) ==
  /\ pc[t] = "solving"
  /\ sessionMu = None
  /\ CanClose(t)
  /\ \E solved \in BOOLEAN :
       /\ CloseWaitCh(t, solved)
       /\ sessions' = [sessions EXCEPT ![Src(t)] =
            [cookies |-> IF solved THEN Ours(t) ELSE None,
             running |-> FALSE, waitCh |-> sessions[Src(t)].waitCh]]
  /\ displaced' = displaced \cup ({sessions[Src(t)].waitCh} \ {Ours(t)})
  /\ sessionMu' = t
  /\ Goto(t, "rewrite")
  /\ UNCHANGED <<calls, plan, attempt, found, awaits, disk, process, unsaved>>

\* The close of nil, or of a closed channel, panics: nothing is saved and the
\* lock is given back.  The server of the image proxy (server.go 338) recovers,
\* the call is over and the process goes on; elsewhere it may end.
Panic(t) ==
  /\ pc[t] = "solving"
  /\ sessionMu = None
  /\ ~CanClose(t)
  /\ sessions' = [sessions EXCEPT ![Src(t)].running = FALSE]
  /\ crashed' \in BOOLEAN
  /\ attempt' = [attempt EXCEPT ![t] = "first"]
  /\ Goto(t, "idle")
  /\ UNCHANGED <<calls, plan, found, awaits, sessionMu, closed, disk, expired,
                 restarts, notes>>

\* The channel is closed; what came of the solve is not asked.
Woken(t) ==
  /\ pc[t] = "waiting"
  /\ awaits[t] \in closed
  /\ Resend(t)
  /\ awaits' = [awaits EXCEPT ![t] = None]
  /\ UNCHANGED <<calls, plan, found, sessionMu, sessions, closed, disk,
                 process, notes>>

----------------------------------------------------------------------------
(* persistSession and clearPersistedSession: read, change, write, all under *)
(* the lock of the solve that has ended.                                   *)

\* Mutant: the entries of the other sources are not kept.
ChangedAlone(t, f) == [Empty EXCEPT ![Src(t)] = sessions[Src(t)].cookies]

\* The contents with the outcome of the solve in them.
Changed(t, f) == [f EXCEPT ![Src(t)] = sessions[Src(t)].cookies]

\* The file is done with: a solve that failed ends the call.
Unlock(t) ==
  /\ sessionMu' = None
  /\ IF sessions[Src(t)].cookies = None
     THEN Goto(t, "idle") /\ attempt' = [attempt EXCEPT ![t] = "first"]
     ELSE Resend(t)

\* An empty file is removed, another truncated and written.
BeginWrite(t) ==
  /\ pc[t] = "rewrite"
  /\ \/ /\ corrupt
        /\ Unlock(t)
        /\ unsaved' = unsaved \cup {Src(t)}
        /\ UNCHANGED <<file, writing>>
     \/ /\ ~corrupt
        /\ IF Changed(t, Prune(file)) = Empty
           THEN file' = Empty /\ Unlock(t) /\ UNCHANGED writing
           ELSE /\ writing' = TRUE
                /\ Goto(t, "writing")
                /\ UNCHANGED <<file, attempt, sessionMu>>
        /\ UNCHANGED unsaved
  /\ UNCHANGED <<calls, plan, found, awaits, sessions, closed, corrupt, process,
                 displaced>>

EndWrite(t) ==
  /\ pc[t] = "writing"
  /\ file' = Changed(t, Prune(file))
  /\ writing' = FALSE
  /\ Unlock(t)
  /\ UNCHANGED <<calls, plan, found, awaits, sessions, closed, corrupt, process,
                 notes>>

----------------------------------------------------------------------------
(* The clock and the process.                                              *)

Expire(l) ==
  /\ l \notin expired
  /\ \/ \E x \in Sources : l \in {sessions[x].cookies, file[x]}
     \/ \E t \in Threads : l = found[t]
  /\ expired' = expired \cup {l}
  /\ UNCHANGED <<call, sessionMu, sessions, closed, disk, crashed, restarts,
                 notes>>

\* It ends, by the panic or otherwise, and starts again.
Restart ==
  /\ restarts < MaxRestarts
  /\ restarts' = restarts + 1
  /\ pc' = [t \in Threads |-> "idle"]
  /\ awaits' = [t \in Threads |-> None]
  /\ found' = [t \in Threads |-> None]
  /\ attempt' = [t \in Threads |-> "first"]
  /\ sessionMu' = None
  /\ sessions' = [x \in Sources |-> Absent]
  /\ writing' = FALSE
  /\ IF ~writing
     THEN UNCHANGED <<file, corrupt, unsaved>>
     ELSE /\ file' = Empty
          /\ corrupt' \in BOOLEAN
          /\ unsaved' = Sources
  /\ crashed' = FALSE /\ displaced' = {}
  /\ UNCHANGED <<calls, plan, closed, expired>>

----------------------------------------------------------------------------
Step(t) ==
  \/ ValidSession(t) \/ LoadPersistedSession(t) \/ Install(t)
  \/ Request(t) \/ EnsureSession(t) \/ Solved(t) \/ Panic(t) \/ Woken(t)
  \/ BeginWrite(t) \/ EndWrite(t)

Next ==
  \/ /\ ~crashed
     /\ \/ \E t \in Threads : FetchBytes(t) \/ Step(t)
        \/ \E l \in Leases : Expire(l)
  \/ Restart

Spec == Init /\ [][Next]_vars

Running(A) == ~crashed /\ A

\* The lock is handed on fairly; requests and solves have deadlines.
FairSpec == Spec /\ \A t \in Threads : SF_vars(Running(Step(t)))

----------------------------------------------------------------------------
Pcs == {"idle", "valid", "load", "loaded", "request", "ensure", "solving",
        "waiting", "rewrite", "writing"}

TypeOK ==
  /\ pc \in [Threads -> Pcs]
  /\ \A t \in Threads : calls[t] \in 0 .. Len(plan[t])
  /\ plan \in Uses
  /\ attempt \in [Threads -> {"first", "again", "last"}]
  /\ found \in [Threads -> Leases \cup {None}]
  /\ awaits \in [Threads -> Solves \cup {None}]
  /\ sessionMu \in Threads \cup {None}
  /\ sessions \in [Sources -> [cookies : Leases \cup {None}, running : BOOLEAN,
                               waitCh : Solves \cup {None}]]
  /\ closed \subseteq Solves
  /\ file \in [Sources -> Leases \cup {None}]
  /\ writing \in BOOLEAN /\ corrupt \in BOOLEAN /\ crashed \in BOOLEAN
  /\ displaced \subseteq Solves /\ unsaved \subseteq Sources
  /\ expired \subseteq Leases
  /\ restarts \in 0 .. MaxRestarts

(* sourceaccess.go 403-430: a source is solved by one browser at a time, and
   who solves holds the entry of the source with a channel nobody has closed.
   validSession may put an old session over an entry that is being solved: only
   that solve, and those whose entry its end takes for its own, are exempt, and
   only they panic. *)
OneSolve ==
  /\ \A t \in Threads : pc[t] = "solving" /\ Ours(t) \notin displaced =>
       /\ sessions[Src(t)].running /\ sessions[Src(t)].waitCh = Ours(t)
       /\ CanClose(t)
       /\ \A u \in Threads \ {t} : pc[u] = "solving" /\ Src(u) = Src(t) =>
            Ours(u) \in displaced
  /\ crashed => displaced # {}

(* sourceaccess.go 439-443, 620-655: a restart finds every session that is in
   use: when no write is under way, a live session in memory is in the file,
   whatever the other sources did to it; unless a write could not be made or
   ran into another. *)
SessionsSurviveRestart ==
  \A x \in Sources \ unsaved :
    /\ sessionMu = None
    /\ Live(sessions[x].cookies)
    => file[x] = sessions[x].cookies

(* The channel t waits on is of an entry that validSession has replaced during
   the solve; no end of a solve closes it. *)
Stranded(t) == pc[t] = "waiting" /\ awaits[t] \in displaced \ closed

\* A fetch is under way, which the code finishes.
Busy(t) == pc[t] # "idle" /\ ~crashed /\ ~Stranded(t)
=============================================================================
