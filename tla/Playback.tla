------------------------------ MODULE Playback ------------------------------
(***************************************************************************)
(* The external player, the current online playback and the two tables     *)
(* that keep positions.                                                    *)
(*                                                                         *)
(* player.Manager.OpenEpisode starts an mpv process, waits for its socket, *)
(* dials it and leaves a watcher goroutine, which starts the event loop.   *)
(* All sessions share one socket path, one connection field and one        *)
(* PlaybackState.  app.go turns the callbacks into rows: those of a library *)
(* episode into one UPDATE, the others into updates of the one "current    *)
(* online playback", which is copied, changed and saved in separate steps. *)
(* The integrated player makes the same updates through calls of its own.  *)
(***************************************************************************)
EXTENDS Integers

CONSTANTS
  Sessions,    \* openings of a video; each is used once
  UiCalls,     \* threads on which the integrated player calls the application
  Online,      \* online episodes
  Library,     \* library episodes (their id is positive)
  Files,       \* downloads and torrents: opened with the id -1 and no context
  Candidates,  \* streams tried for an online episode before giving up
  Length,      \* every video's length, in units of position
  Tail,        \* 90 seconds, in those units
  Plans,       \* bound: what the user may do, one plan per behaviour
  None

Apis == {"stream", "open", "integrated", "library", "file"}

ASSUME ConstantsAssumption ==
  /\ Candidates \in Nat \ {0}
  /\ Length \in Nat \ {0}
  /\ Tail \in Nat
  /\ Plans \subseteq [opens : [Sessions -> SUBSET Apis],
                      reports : [Sessions \cup UiCalls -> SUBSET (0 .. Length)],
                      others : SUBSET {"menus", "pictures", "shutdown"}]
  /\ None \notin Online \cup Library \cup Files \cup (Sessions \X (1 .. Candidates))
  /\ Sessions \cap UiCalls = {}
  /\ Online \cap (Library \cup Files) = {}

VARIABLES
  pc,       \* pc[s]: where the opening, later the watcher, of s is
  video,    \* video[s]: what s plays
  api,      \* api[s]: the call that opened it
  try,      \* try[s]: the candidate in hand
  saved,    \* saved[s]: the row it found, to resume from
  mpv,      \* mpv[p]: the process of a session's candidate
  path,     \* the process whose socket is at ipcPath(), if any
  conn,     \* Manager.conn: the connection, named after the opening that dialed
  peer,     \* peer[c]: the process at the other end of connection c
  closed,   \* connections closed by disconnectIPC
  loop,     \* loop[s]: its event loop
  reading,  \* reading[s]: the connection the loop reads
  observed, \* connections over which properties were observed
  state,    \* Manager.State
  once,     \* sessions whose endedOnce has fired
  ctx,      \* App.onlinePlayback
  task,     \* task[o]: a call that updates or finalizes the playback
  history,  \* history[v]: the row of an online episode in watch_history
  library,  \* library[v]: progress_s and watched of a library episode
  closing,  \* how far shutdown is
  plan,     \* the plan of this behaviour
  \* History, read by properties only:
  ended,    \* ended[s]: how often OnEnded was called for s
  heard,    \* heard[v]: the last position reported while v was played
  edited,   \* episodes whose row was marked or removed from a menu
  mixed     \* two openings or two calls have overlapped

opening  == <<pc, video, api, try, saved>>
ipc      == <<mpv, path, conn, peer, closed, loop, reading, observed>>
rows     == <<history, library>>
notes    == <<ended, heard, edited, mixed>>
vars     == <<opening, ipc, state, once, ctx, task, rows, closing, plan,
              notes>>

Seconds  == 0 .. Length
Videos   == Online \cup Library \cup Files
Procs    == Sessions \X (1 .. Candidates)
Owners   == Sessions \cup UiCalls
Stopped  == [active |-> FALSE, video |-> None, pos |-> 0, dur |-> 0, pct |-> 0]
NoCtx    == [active |-> FALSE, video |-> None, progress |-> 0, duration |-> 0]
NoTask   == [stage |-> "none", kind |-> "update", pos |-> 0, dur |-> 0,
             explicit |-> FALSE, done |-> FALSE, ctx |-> NoCtx]
NoRow    == [known |-> FALSE, progress |-> 0, duration |-> 0, completed |-> FALSE]

Init ==
  /\ pc = [s \in Sessions |-> "idle"]
  /\ video = [s \in Sessions |-> None]
  /\ api = [s \in Sessions |-> "file"]
  /\ try = [s \in Sessions |-> 1]
  /\ saved = [s \in Sessions |-> NoRow]
  /\ mpv = [p \in Procs |-> "none"]
  /\ path = None
  /\ conn = None
  /\ peer = [c \in Procs |-> None]
  /\ closed = {}
  /\ loop = [s \in Sessions |-> "none"]
  /\ reading = [s \in Sessions |-> None]
  /\ observed = {}
  /\ state = Stopped
  /\ once = {}
  /\ ctx = NoCtx
  /\ task = [o \in Owners |-> NoTask]
  /\ history = [v \in Online |-> NoRow]
  /\ library = [v \in Library |-> [progress |-> 0, watched |-> FALSE]]
  /\ closing = "no"
  /\ plan \in Plans
  /\ ended = [s \in Sessions |-> 0]
  /\ heard = [v \in Online |-> 0]
  /\ edited = {}
  /\ mixed = FALSE

----------------------------------------------------------------------------
(* Rules about positions.                                                  *)

\* shouldCompleteOnlinePlayback
Completes(progress, duration, explicit) ==
  \/ explicit
  \/ /\ progress > 0
     /\ duration > 0
     /\ \/ duration - progress <= Tail
        \/ 100 * progress >= 92 * duration

\* clampOnlineProgress
Clamp(progress, duration) ==
  IF duration > 0 /\ progress > duration THEN duration ELSE progress

\* Mutant: nothing to fall back on when mpv's state has been cleared.
FirstOfTwo(a, b, c) == IF a > 0 THEN a ELSE b

FirstPositive(a, b, c) == IF a > 0 THEN a ELSE IF b > 0 THEN b ELSE c

\* RecordOnlineWatch: an upsert that keeps a known duration.
RecordOnlineWatch(v, progress, duration, completed) ==
  history' = [history EXCEPT ![v] =
    [known |-> TRUE, progress |-> progress, completed |-> completed,
     duration |-> IF duration > 0 THEN duration ELSE @.duration]]

\* SaveProgress
SaveProgress(v, pos, pct) ==
  library' = [library EXCEPT ![v] = [progress |-> pos,
                                     watched |-> 100 * pct >= 85 * Length]]

Proc(s)    == <<s, try[s]>>
StartAt(s) == IF saved[s].completed THEN 0 ELSE saved[s].progress
Goto(s, l) == pc' = [pc EXCEPT ![s] = l]
Busy(o)    == task[o].stage # "none"

\* A call that bears a position is under way: a picture does not.
Reporting(o) == Busy(o) /\ task[o].stage # "thumbnail"

AtRest(s)  == pc[s] \in {"idle", "done", "failed"}
Calm       == /\ \A s \in Sessions : AtRest(s)
              /\ \A o \in Owners : ~Reporting(o)
              /\ ~ctx.active

----------------------------------------------------------------------------
(* Opening a video.                                                        *)

Choose(s, v, call) ==
  /\ pc[s] = "idle"
  /\ call \in plan.opens[s]
  /\ video' = [video EXCEPT ![s] = v]
  /\ api' = [api EXCEPT ![s] = call]
  /\ mixed' = (mixed \/ ~Calm)
  /\ UNCHANGED <<try, ipc, state, once, ctx, task, rows, closing,
                 ended, heard, edited>>

\* StreamEpisode and OpenOnlineEpisode, up to the saved position.
OpenOnline(s) ==
  \E v \in Online, call \in {"stream", "open", "integrated"} :
    /\ Choose(s, v, call)
    /\ Goto(s, "prepared")
    /\ saved' = [saved EXCEPT ![s] = history[v]]

\* PlayEpisode reads the row; downloads and torrents start at 0.
OpenLocal(s) ==
  /\ Goto(s, "candidate")
  /\ \/ \E v \in Library :
          /\ Choose(s, v, "library")
          /\ saved' = [saved EXCEPT ![s].progress = library[v].progress]
     \/ \E v \in Files :
          /\ Choose(s, v, "file")
          /\ saved' = saved

\* setCurrentOnlinePlayback, after the episode's pictures were looked up.
SetCurrentOnlinePlayback(s) ==
  /\ pc[s] = "prepared"
  /\ ctx' = [active |-> TRUE, video |-> video[s], progress |-> StartAt(s),
             duration |-> saved[s].duration]
  /\ Goto(s, "current")
  /\ UNCHANGED <<video, api, try, saved, ipc, state, once, task, rows, closing,
                 notes>>

\* The row at the start; the integrated player needs no more.
RecordStart(s) ==
  /\ pc[s] = "current"
  /\ RecordOnlineWatch(video[s], StartAt(s), saved[s].duration, FALSE)
  /\ heard' = [heard EXCEPT ![video[s]] = StartAt(s)]
  /\ Goto(s, IF api[s] = "integrated" THEN "done" ELSE "candidate")
  /\ UNCHANGED <<video, api, try, saved, ipc, state, once, ctx, task, library,
                 closing, ended, edited, mixed>>

----------------------------------------------------------------------------
(* OpenEpisode.                                                            *)

Tries(s) == IF api[s] \in {"stream", "open"} THEN Candidates ELSE 1

\* What follows an attempt that failed: the next candidate, or giving up.
NextCandidate(s) ==
  IF try[s] < Tries(s)
  THEN /\ try' = [try EXCEPT ![s] = @ + 1]
       /\ Goto(s, "candidate")
       /\ UNCHANGED ctx
  ELSE /\ Goto(s, "failed")
       /\ ctx' = IF api[s] = "stream" THEN NoCtx ELSE ctx
       /\ UNCHANGED try

\* Mutant: the error path leaves the process alone.
KillNothing(p) == mpv' = mpv

Kill(p) == mpv' = [mpv EXCEPT ![p] = "gone"]

\* Mutant: no check for a connection that is closed already.
DisconnectUnchecked == conn' = None /\ closed' = closed \cup {conn}

Disconnect ==
  /\ conn' = None
  /\ closed' = IF conn = None THEN closed ELSE closed \cup {conn}

\* os.Remove of the socket, cmd.Start.
Launch(s) ==
  /\ pc[s] = "candidate"
  /\ path' = None
  /\ \/ /\ mpv' = [mpv EXCEPT ![Proc(s)] = "starting"]
        /\ Goto(s, "launched")
        /\ UNCHANGED <<try, ctx>>
     \/ NextCandidate(s) /\ UNCHANGED mpv
  /\ UNCHANGED <<video, api, saved, conn, peer, closed, loop, reading, observed,
                 state, once, task, rows, closing, notes>>

\* waitForSocketOrExit: the exit, the deadline, or a socket at the path.
WaitForSocket(s) ==
  /\ pc[s] = "launched"
  /\ \/ /\ mpv[Proc(s)] # "gone"
        /\ path # None
        /\ Goto(s, "dialing")
        /\ UNCHANGED <<mpv, try, ctx>>
     \/ Kill(Proc(s)) /\ NextCandidate(s)
  /\ UNCHANGED <<video, api, saved, path, conn, peer, closed, loop, reading,
                 observed, state, once, task, rows, closing, notes>>

\* connectIPC: the new connection takes the place of the manager's.
ConnectIPC(s) ==
  /\ pc[s] = "dialing"
  /\ \/ /\ path # None
        /\ mpv[path] = "listening"
        /\ conn' = Proc(s)
        /\ peer' = [peer EXCEPT ![Proc(s)] = path]
        /\ Goto(s, "dialed")
        /\ UNCHANGED <<mpv, try, ctx>>
     \/ /\ path # None => mpv[path] # "listening"
        /\ Kill(Proc(s))
        /\ NextCandidate(s)
        /\ UNCHANGED <<conn, peer>>
  /\ UNCHANGED <<video, api, saved, path, closed, loop, reading, observed, state,
                 once, task, rows, closing, notes>>

\* waitForStableStartup: the process is gone within the grace period, or not.
WaitForStableStartup(s) ==
  /\ pc[s] = "dialed"
  /\ \/ /\ state' = [state EXCEPT !.active = TRUE, !.video = video[s],
                                  !.pos = StartAt(s)]
        /\ Goto(s, "returned")
        /\ UNCHANGED <<mpv, conn, closed, try, ctx>>
     \/ /\ mpv[Proc(s)] = "gone"
        /\ Disconnect
        /\ Kill(Proc(s))
        /\ NextCandidate(s)
        /\ UNCHANGED state
  /\ UNCHANGED <<video, api, saved, path, peer, loop, reading, observed, once,
                 task, rows, closing, notes>>

----------------------------------------------------------------------------
(* mpv.                                                                    *)

\* The process makes its socket, at the path all of them share.
Listen(p) ==
  /\ mpv[p] = "starting"
  /\ mpv' = [mpv EXCEPT ![p] = "listening"]
  /\ path' = p
  /\ UNCHANGED <<opening, conn, peer, closed, loop, reading, observed, state,
                 once, ctx, task, rows, closing, notes>>

\* It ends: closed by the user, told to quit, or crashed.
Exit(p) ==
  /\ mpv[p] \in {"starting", "listening"}
  /\ mpv' = [mpv EXCEPT ![p] = "gone"]
  /\ path' = IF path = p THEN None ELSE path
  /\ UNCHANGED <<opening, conn, peer, closed, loop, reading, observed, state,
                 once, ctx, task, rows, closing, notes>>

----------------------------------------------------------------------------
(* The watcher and its event loop.                                         *)

\* observeProperty over whatever the manager's connection is; then the loop.
Observe(s) ==
  /\ pc[s] = "returned"
  /\ observed' = IF conn = None THEN observed ELSE observed \cup {conn}
  /\ loop' = [loop EXCEPT ![s] = "starting"]
  /\ Goto(s, "watching")
  /\ UNCHANGED <<video, api, try, saved, mpv, path, conn, peer, closed, reading,
                 state, once, ctx, task, rows, closing, notes>>

BeginLoop(s) ==
  /\ loop[s] = "starting"
  /\ reading' = [reading EXCEPT ![s] = conn]
  /\ loop' = [loop EXCEPT ![s] = IF conn = None THEN "ended" ELSE "reading"]
  /\ UNCHANGED <<opening, mpv, path, conn, peer, closed, observed, state, once,
                 ctx, task, rows, closing, notes>>

\* A message of a property the loop's connection has observed.
Hears(s) ==
  /\ loop[s] = "reading"
  /\ ~Busy(s)
  /\ reading[s] \in observed

\* The last position of v that says something; files have no row.
Heard(v, pos) ==
  IF v \in Online /\ pos > 0 THEN [heard EXCEPT ![v] = pos] ELSE heard

\* time-pos: the state, then OnProgress.
TimePos(s) ==
  /\ Hears(s)
  /\ \E pos \in plan.reports[s] :
       /\ state' = [state EXCEPT !.pos = pos]
       /\ IF video[s] \in Library
          THEN /\ SaveProgress(video[s], pos, state.pct)
               /\ UNCHANGED <<task, heard>>
          ELSE /\ task' = [task EXCEPT ![s] =
                             [NoTask EXCEPT !.stage = "read", !.pos = pos]]
               /\ heard' = Heard(video[s], pos)
               /\ UNCHANGED library
  /\ UNCHANGED <<opening, ipc, once, ctx, history, closing, ended, edited, mixed>>

\* duration and percent-pos, which follows the position in a message of its own.
OtherProperty(s) ==
  /\ Hears(s)
  /\ plan.reports[s] # {}
  /\ \/ state' = [state EXCEPT !.dur = Length]
     \/ /\ \E t \in Sessions : "library" \in plan.opens[t]   \* who reads it
        /\ state' = [state EXCEPT !.pct = state.pos]
  /\ UNCHANGED <<opening, ipc, once, ctx, task, rows, closing, notes>>

\* Mutant: each of the two reports makes the callback.
FinishTwice(s) ==
  /\ once' = once \cup {s}
  /\ ended' = [ended EXCEPT ![s] = @ + 1]
  /\ IF video[s] \in Library
     THEN /\ library' = [library EXCEPT ![video[s]] =
                           [progress |-> 0, watched |-> TRUE]]
          /\ UNCHANGED task
     ELSE /\ task' = [task EXCEPT ![s] =
               [NoTask EXCEPT !.stage = "read", !.kind = "finalize"]]
          /\ UNCHANGED library

\* endedOnce.Do(OnEnded)
FinishPlayback(s) ==
  /\ once' = once \cup {s}
  /\ IF s \in once
     THEN UNCHANGED <<ended, library, task>>
     ELSE /\ ended' = [ended EXCEPT ![s] = @ + 1]
          /\ IF video[s] \in Library
             THEN /\ library' = [library EXCEPT ![video[s]] =
                                   [progress |-> 0, watched |-> TRUE]]
                  /\ UNCHANGED task
             ELSE /\ task' = [task EXCEPT ![s] =
                       [NoTask EXCEPT !.stage = "read", !.kind = "finalize"]]
                  /\ UNCHANGED library

\* end-file: the last message the loop reads.
EndFile(s) ==
  /\ loop[s] = "reading"
  /\ ~Busy(s)
  /\ FinishPlayback(s)
  /\ loop' = [loop EXCEPT ![s] = "ending"]
  /\ UNCHANGED <<opening, mpv, path, conn, peer, closed, reading, observed,
                 state, ctx, history, closing, heard, edited, mixed>>

\* Mutant: only the manager's own closing ends the loop, not the end of mpv.
EndLoopWhenClosed(s) ==
  /\ ~Busy(s)
  /\ \/ loop[s] = "ending"
     \/ loop[s] = "reading" /\ reading[s] \in closed
  /\ loop' = [loop EXCEPT ![s] = "ended"]
  /\ UNCHANGED <<opening, mpv, path, conn, peer, closed, reading, observed,
                 state, once, ctx, task, rows, closing, notes>>

\* The loop returns: after end-file, or with its connection.
EndLoop(s) ==
  /\ ~Busy(s)
  /\ \/ loop[s] = "ending"
     \/ /\ loop[s] = "reading"
        /\ reading[s] \in closed \/ mpv[peer[reading[s]]] = "gone"
  /\ loop' = [loop EXCEPT ![s] = "ended"]
  /\ UNCHANGED <<opening, mpv, path, conn, peer, closed, reading, observed,
                 state, once, ctx, task, rows, closing, notes>>

\* <-procDone, disconnectIPC: the manager's connection, whoever dialed it.
SeeExit(s) ==
  /\ pc[s] = "watching"
  /\ mpv[Proc(s)] = "gone"
  /\ Disconnect
  /\ Goto(s, "draining")
  /\ UNCHANGED <<video, api, try, saved, mpv, path, peer, loop, reading, observed,
                 state, once, ctx, task, rows, closing, notes>>

\* <-eventsDone, clearState.
ClearState(s) ==
  /\ pc[s] = "draining"
  /\ loop[s] = "ended"
  /\ state' = Stopped
  /\ Goto(s, "cleared")
  /\ UNCHANGED <<video, api, try, saved, ipc, once, ctx, task, rows, closing,
                 notes>>

Finish(s) ==
  /\ pc[s] = "cleared"
  /\ FinishPlayback(s)
  /\ Goto(s, "finishing")
  /\ UNCHANGED <<video, api, try, saved, ipc, state, ctx, history, closing, heard,
                 edited, mixed>>

Return(s) ==
  /\ pc[s] = "finishing"
  /\ ~Busy(s)
  /\ Goto(s, "done")
  /\ UNCHANGED <<video, api, try, saved, ipc, state, once, ctx, task, rows,
                 closing, notes>>

----------------------------------------------------------------------------
(* updateCurrentOnlinePlaybackProgress and finalizeCurrentOnlinePlayback.  *)

Step(o, t) == task' = [task EXCEPT ![o] = t]

\* After the update: a finalization goes on to clear the playback.
AfterUpdate(o) ==
  IF task[o].kind = "finalize" THEN [task[o] EXCEPT !.stage = "clear"]
                               ELSE NoTask

\* A copy of the playback and one of the player's state.
ReadPlayback(o) ==
  /\ task[o].stage = "read"
  /\ LET dur == FirstPositive(task[o].dur, state.dur, ctx.duration)
         pos == Clamp(FirstPositive(task[o].pos, state.pos, ctx.progress), dur)
     IN  IF ctx.active
         THEN Step(o, [task[o] EXCEPT !.stage = "store", !.pos = pos, !.dur = dur,
                         !.done = Completes(pos, dur, task[o].explicit)])
         ELSE Step(o, AfterUpdate(o))
  /\ UNCHANGED <<opening, ipc, state, once, ctx, rows, closing, notes>>

\* Mutant: the duration that mpv told is not kept.
StoreForgetting(o) ==
  /\ task[o].stage = "store"
  /\ LET next == [ctx EXCEPT !.progress = task[o].pos]
     IN  IF ctx.active
         THEN /\ ctx' = next
              /\ Step(o, [task[o] EXCEPT !.stage = "save", !.ctx = next])
         ELSE Step(o, AfterUpdate(o)) /\ UNCHANGED ctx
  /\ UNCHANGED <<opening, ipc, state, once, rows, closing, notes>>

StorePlayback(o) ==
  /\ task[o].stage = "store"
  /\ LET next == [ctx EXCEPT !.progress = task[o].pos,
                    !.duration = IF task[o].dur > 0 THEN task[o].dur ELSE @]
     IN  IF ctx.active
         THEN /\ ctx' = next
              /\ Step(o, [task[o] EXCEPT !.stage = "save", !.ctx = next])
         ELSE Step(o, AfterUpdate(o)) /\ UNCHANGED ctx
  /\ UNCHANGED <<opening, ipc, state, once, rows, closing, notes>>

\* The row of an episode that somebody has said is over.
EditedBy(o) ==
  edited' = IF task[o].explicit THEN edited \cup {task[o].ctx.video} ELSE edited

SavePlayback(o) ==
  /\ task[o].stage = "save"
  /\ EditedBy(o)
  /\ LET copy == task[o].ctx
     IN  RecordOnlineWatch(copy.video, copy.progress, copy.duration,
                           task[o].done)
  /\ Step(o, AfterUpdate(o))
  /\ UNCHANGED <<opening, ipc, state, once, ctx, library, closing, ended, heard, mixed>>

ClearPlayback(o) ==
  /\ task[o].stage = "clear"
  /\ ctx' = NoCtx
  /\ Step(o, IF ctx.active THEN [task[o] EXCEPT !.stage = "close", !.ctx = ctx]
                           ELSE NoTask)
  /\ UNCHANGED <<opening, ipc, state, once, rows, closing, notes>>

\* The last row; a completed episode then goes to the list (ListSync's Track).
ClosePlayback(o) ==
  /\ task[o].stage = "close"
  /\ EditedBy(o)
  /\ LET last == task[o].ctx
         pos  == Clamp(last.progress, last.duration)
     IN  RecordOnlineWatch(last.video, pos, last.duration,
                           Completes(pos, last.duration, task[o].explicit))
  /\ Step(o, NoTask)
  /\ UNCHANGED <<opening, ipc, state, once, ctx, library, closing, ended, heard, mixed>>

----------------------------------------------------------------------------
(* The integrated player and the episode menus.                            *)

\* UpdateOnlinePlaybackProgress, FinalizeOnlinePlayback
UiCall(u) ==
  /\ ~Busy(u)
  /\ \E s \in Sessions : pc[s] = "done" /\ api[s] = "integrated"
  /\ \E kind \in {"update", "finalize"}, pos \in plan.reports[u],
        dur \in {0, Length}, x \in BOOLEAN :
       /\ x => kind = "finalize"
       /\ Step(u, [NoTask EXCEPT !.stage = "read", !.kind = kind, !.pos = pos,
                                 !.dur = dur, !.explicit = x])
       /\ heard' = Heard(ctx.video, pos)
  /\ mixed' = (\/ mixed
               \/ \E s \in Sessions : ~AtRest(s)
               \/ \E o \in Owners : Reporting(o))
  /\ UNCHANGED <<opening, ipc, state, once, ctx, rows, closing, ended, edited>>

MarkOnlineWatched(v) ==
  /\ RecordOnlineWatch(v, 0, 0, TRUE)
  /\ edited' = edited \cup {v}
  /\ UNCHANGED <<opening, ipc, state, once, ctx, task, library, closing, ended,
                 heard, mixed>>

RemoveAnimeFromHistory(v) ==
  /\ history' = [history EXCEPT ![v] = NoRow]
  /\ edited' = edited \cup {v}
  /\ UNCHANGED <<opening, ipc, state, once, ctx, task, library, closing, ended,
                 heard, mixed>>

\* MarkWatched, MarkUnwatched
MarkLocal(v) ==
  /\ \E watched \in BOOLEAN :
       library' = [library EXCEPT ![v] = [progress |-> 0, watched |-> watched]]
  /\ UNCHANGED <<opening, ipc, state, once, ctx, task, history, closing, notes>>

\* persistEpisodeThumbnailRecord: the row is read, and saved with the picture.
ReadThumbnail(u, v) ==
  /\ ~Busy(u)
  /\ LET row == history[v]
     IN  Step(u, [NoTask EXCEPT !.stage = "thumbnail", !.done = row.completed,
                    !.ctx = [active |-> TRUE, video |-> v,
                             progress |-> row.progress, duration |-> row.duration]])
  /\ UNCHANGED <<opening, ipc, state, once, ctx, rows, closing, notes>>

SaveThumbnail(u) ==
  /\ task[u].stage = "thumbnail"
  /\ LET copy == task[u].ctx
         row  == history[copy.video]
     IN  /\ RecordOnlineWatch(copy.video, copy.progress, copy.duration, task[u].done)
         /\ mixed' = (mixed \/ row.progress # copy.progress)
  /\ Step(u, NoTask)
  /\ UNCHANGED <<opening, ipc, state, once, ctx, library, closing, ended, heard,
                 edited>>

----------------------------------------------------------------------------
(* shutdown: the position of a library episode, quit, close, the database. *)

Shutdown ==
  /\ \/ /\ closing = "no"
        /\ closing' = "saved"
        /\ IF state.active /\ state.video \in Library
           THEN SaveProgress(state.video, state.pos, state.pct)
           ELSE UNCHANGED library
        /\ UNCHANGED <<conn, closed>>
     \/ /\ closing = "saved"      \* Quit, which mpv may follow with Exit; Close
        /\ closing' = "closed"
        /\ Disconnect
        /\ UNCHANGED library
     \/ /\ closing = "closed"     \* the database is closed, the process ends
        /\ closing' = "gone"
        /\ UNCHANGED <<library, conn, closed>>
  /\ UNCHANGED <<opening, mpv, path, peer, loop, reading, observed, state, once,
                 ctx, task, history, notes>>

----------------------------------------------------------------------------
Open(s)   == OpenOnline(s) \/ OpenLocal(s)
Opening(s) ==
  \/ SetCurrentOnlinePlayback(s) \/ RecordStart(s) \/ Launch(s)
  \/ WaitForSocket(s) \/ ConnectIPC(s) \/ WaitForStableStartup(s)
Watcher(s) == Observe(s) \/ SeeExit(s) \/ ClearState(s) \/ Finish(s) \/ Return(s)
Messages(s) == TimePos(s) \/ OtherProperty(s) \/ EndFile(s)
Task(o) ==
  \/ ReadPlayback(o) \/ StorePlayback(o) \/ SavePlayback(o)
  \/ ClearPlayback(o) \/ ClosePlayback(o) \/ SaveThumbnail(o)

Next ==
  /\ closing # "gone"
  /\ plan' = plan
  /\ \/ \E s \in Sessions :
          \/ Open(s) \/ Opening(s) \/ Watcher(s)
          \/ BeginLoop(s) \/ Messages(s) \/ EndLoop(s)
     \/ \E p \in Procs : Listen(p) \/ Exit(p)
     \/ \E o \in Owners : Task(o)
     \/ \E u \in UiCalls : UiCall(u)
     \/ /\ "menus" \in plan.others
        /\ \/ \E v \in Online : MarkOnlineWatched(v) \/ RemoveAnimeFromHistory(v)
           \/ \E v \in Library : MarkLocal(v)
     \/ /\ "pictures" \in plan.others
        /\ \E v \in Online, u \in UiCalls : ReadThumbnail(u, v)
     \/ "shutdown" \in plan.others /\ Shutdown

Spec == Init /\ [][Next]_vars

\* Goroutines that can run do run.  Users, mpv and the network owe nothing.
Running(A) == closing # "gone" /\ A /\ plan' = plan
FairSpec ==
  /\ Spec
  /\ \A s \in Sessions :
       /\ WF_vars(Running(Opening(s)))
       /\ WF_vars(Running(Watcher(s)))
       /\ WF_vars(Running(BeginLoop(s)))
       /\ SF_vars(Running(EndLoop(s)))   \* what is left in the buffer is finite
  /\ \A o \in Owners : WF_vars(Running(Task(o)))

----------------------------------------------------------------------------
TypeOK ==
  /\ pc \in [Sessions -> {"idle", "prepared", "current", "candidate", "launched",
                         "dialing", "dialed", "returned", "watching", "draining",
                         "cleared", "finishing", "done", "failed"}]
  /\ video \in [Sessions -> Videos \cup {None}]
  /\ api \in [Sessions -> Apis]
  /\ try \in [Sessions -> 1 .. Candidates]
  /\ mpv \in [Procs -> {"none", "starting", "listening", "gone"}]
  /\ path \in Procs \cup {None}
  /\ conn \in Procs \cup {None}
  /\ peer \in [Procs -> Procs \cup {None}]
  /\ closed \subseteq Procs /\ observed \subseteq Procs
  /\ loop \in [Sessions -> {"none", "starting", "reading", "ending", "ended"}]
  /\ reading \in [Sessions -> Procs \cup {None}]
  /\ once \subseteq Sessions
  /\ ctx \in [active : BOOLEAN, video : Online \cup {None}, progress : Seconds,
              duration : {0, Length}]
  /\ history \in [Online -> [known : BOOLEAN, progress : Seconds,
                             duration : {0, Length}, completed : BOOLEAN]]
  /\ library \in [Library -> [progress : Seconds, watched : BOOLEAN]]
  /\ closing \in {"no", "saved", "closed", "gone"}

(* endedOnce, manager.go 332-357: both end-file and the exit of the process
   report the end, and the callback is made exactly once. *)
EndReportedOnce ==
  \A s \in Sessions :
    /\ ended[s] <= 1
    /\ pc[s] = "done" /\ api[s] # "integrated" => ended[s] = 1

(* OpenEpisode, manager.go 298-321: a player that runs has a goroutine that
   waits for it.  An opening that gives up on a candidate kills it. *)
NoStrayPlayer ==
  \A s \in Sessions, n \in 1 .. Candidates :
    mpv[<<s, n>>] \in {"starting", "listening"} =>
      /\ try[s] = n
      /\ pc[s] \in {"launched", "dialing", "dialed", "returned", "watching"}

(* app.go 2250-2368: an episode is completed in the history only when the row
   itself holds a position near enough to the end, however openings, progress
   and finalizations overlap; except those completed from a menu or explicitly. *)
CompletedIsReached ==
  \A v \in Online \ edited :
    history[v].completed =>
      /\ history[v].duration > 0
      /\ \/ history[v].duration - history[v].progress <= Tail
         \/ 100 * history[v].progress >= 92 * history[v].duration

(* app.go 2298-2368, 2403: when nothing is under way the row holds the last
   position that was reported, although the end arrives without one and mpv's
   state has been cleared by then: it is where the episode resumes.  Promised
   as long as openings and calls did not overlap, and the integrated player made
   no call while an mpv session was at work. *)
LastPositionIsKept ==
  ~mixed /\ (\A s \in Sessions : AtRest(s)) /\ (\A o \in Owners : ~Reporting(o)) =>
    \A v \in Online \ edited : history[v].progress = heard[v]

(* manager.go 331-357: once every mpv is closed, every opening that succeeded
   has its end reported: the watcher waits for an event loop that reads a
   connection which another session may have replaced. *)
EveryEndIsReported ==
  <>[](closing # "gone" /\ \A p \in Procs : mpv[p] \in {"none", "gone"}) =>
    \A s \in Sessions : pc[s] = "returned" ~> pc[s] = "done"
=============================================================================
