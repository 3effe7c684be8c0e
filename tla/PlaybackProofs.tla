--------------------------- MODULE PlaybackProofs ---------------------------
(***************************************************************************)
(* The player's processes and the callback at their end; then the types,   *)
(* the rows that are completed, and the positions: for any sessions,       *)
(* videos, candidates and plans.                                           *)
(***************************************************************************)
EXTENDS Playback, TLAPS

Waiting == {"launched", "dialing", "dialed", "returned", "watching"}
Pcs == Waiting \cup {"idle", "prepared", "current", "candidate", "draining", "cleared",
                     "finishing", "done", "failed"}

\* What the two invariants speak of, with its types.
PlayerTypes ==
  /\ pc \in [Sessions -> Pcs] /\ try \in [Sessions -> 1 .. Candidates]
  /\ mpv \in [Procs -> {"none", "starting", "listening", "gone"}]
  /\ once \subseteq Sessions /\ ended \in [Sessions -> Nat]

\* The callback has been made to whom endedOnce has fired, and no other; and it
\* has fired where the watcher has gone past it.
EndsAreCounted ==
  \A s \in Sessions :
    /\ ended[s] = IF s \in once THEN 1 ELSE 0
    /\ pc[s] = "finishing" => s \in once
    /\ pc[s] = "done" /\ api[s] # "integrated" => s \in once

IInv == PlayerTypes /\ NoStrayPlayer /\ EndsAreCounted

----------------------------------------------------------------------------
LEMMA ProcsOfSessions ==
  ASSUME PlayerTypes, NEW s \in Sessions
  PROVE  Proc(s) \in Procs /\ Proc(s) = <<s, try[s]>> /\ try[s] \in 1 .. Candidates
BY DEF PlayerTypes, Proc, Procs

\* The end is reported once, by whoever comes first.
LEMMA Finishing ==
  ASSUME EndsAreCounted, PlayerTypes, NEW s \in Sessions, FinishPlayback(s)
  PROVE  /\ once' = once \cup {s} /\ ended' \in [Sessions -> Nat]
         /\ \A t \in Sessions : ended'[t] = IF t \in once' THEN 1 ELSE 0
<1>1. once' = once \cup {s}
  BY DEF FinishPlayback
<1>2. \/ s \in once /\ UNCHANGED ended
      \/ s \notin once /\ ended' = [ended EXCEPT ![s] = @ + 1]
  BY Zenon DEF FinishPlayback
<1> QED
  BY <1>1, <1>2 DEF EndsAreCounted, PlayerTypes

\* A step that leaves the player's processes and callbacks alone.
LEMMA PlayerAsWas ==
  ASSUME IInv, UNCHANGED <<pc, try, mpv, once, ended, api>>
  PROVE  IInv'
BY DEF IInv, PlayerTypes, NoStrayPlayer, EndsAreCounted

\* A step of s that moves on and leaves them alone.
LEMMA MovesOn ==
  ASSUME IInv, NEW s \in Sessions, NEW at \in Pcs, Goto(s, at),
         UNCHANGED <<try, mpv, once, ended>>, at \in Waiting \/ pc[s] \notin Waiting,
         api' = api \/ pc[s] = "idle", \A t \in Sessions \ {s} : api'[t] = api[t],
         at = "finishing" => s \in once,
         at = "done" => s \in once \/ api'[s] = "integrated"
  PROVE  IInv'
BY DEF IInv, PlayerTypes, NoStrayPlayer, EndsAreCounted, Goto, Waiting

\* The candidate in hand is given up, and its process with it.
LEMMA GivesUp ==
  ASSUME IInv, NEW s \in Sessions, NextCandidate(s), UNCHANGED <<once, ended, api>>,
         Kill(Proc(s)) \/ (pc[s] \notin Waiting /\ UNCHANGED mpv)
  PROVE  IInv'
<1>1. /\ \/ try' = [try EXCEPT ![s] = @ + 1] /\ try[s] < Candidates
            /\ pc' = [pc EXCEPT ![s] = "candidate"]
         \/ try' = try /\ pc' = [pc EXCEPT ![s] = "failed"]
  BY ConstantsAssumption, ProcsOfSessions
  DEF IInv, NextCandidate, Tries, Goto, PlayerTypes
<1>2. \A n \in 1 .. Candidates : mpv'[<<s, n>>] \notin {"starting", "listening"}
  BY ProcsOfSessions DEF IInv, PlayerTypes, NoStrayPlayer, Kill, Procs, Waiting
<1>3. \A t \in Sessions \ {s}, n \in 1 .. Candidates : mpv'[<<t, n>>] = mpv[<<t, n>>]
  BY ProcsOfSessions DEF IInv, PlayerTypes, Kill, Procs
<1>4. PlayerTypes'
  BY <1>1, ProcsOfSessions, ConstantsAssumption DEF IInv, PlayerTypes, Kill, Pcs, Waiting
<1>5. NoStrayPlayer'
  BY <1>1, <1>2, <1>3 DEF IInv, PlayerTypes, NoStrayPlayer
<1>6. EndsAreCounted'
  BY <1>1 DEF IInv, PlayerTypes, EndsAreCounted
<1> QED
  BY <1>4, <1>5, <1>6 DEF IInv

----------------------------------------------------------------------------
LEMMA PlayerInvariant == Spec => []IInv
<1>1. Init => IInv
  BY ConstantsAssumption
  DEF Init, IInv, PlayerTypes, NoStrayPlayer, EndsAreCounted, Pcs, Waiting, Procs
<1>2. IInv /\ [Next]_vars => IInv'
  <2> SUFFICES ASSUME IInv, [Next]_vars PROVE IInv'
    OBVIOUS
  <2> USE DEF opening, ipc, rows, notes
  <2>1. CASE UNCHANGED vars
    BY <2>1, PlayerAsWas, Zenon DEF vars
  <2>2. ASSUME NEW s \in Sessions, Open(s) PROVE IInv'
    <3>1. /\ pc[s] = "idle" /\ UNCHANGED <<try, mpv, once, ended>>
          /\ Goto(s, "prepared") \/ Goto(s, "candidate")
      BY <2>2, Zenon DEF Open, OpenOnline, OpenLocal, Choose
    <3>2. PICK call : api' = [api EXCEPT ![s] = call]
      BY <2>2, Zenon DEF Open, OpenOnline, OpenLocal, Choose
    <3> QED
      BY <3>1, <3>2 DEF IInv, PlayerTypes, NoStrayPlayer, EndsAreCounted, Goto, Pcs, Waiting
  <2>3. ASSUME NEW s \in Sessions, SetCurrentOnlinePlayback(s) PROVE IInv'
    <3>1. /\ pc[s] = "prepared" /\ Goto(s, "current")
          /\ UNCHANGED <<try, mpv, once, ended, api>>
      BY <2>3, Zenon DEF SetCurrentOnlinePlayback
    <3> QED
      BY <3>1, MovesOn DEF Pcs, Waiting
  <2>4. ASSUME NEW s \in Sessions, RecordStart(s) PROVE IInv'
    <3>1. /\ pc[s] = "current" /\ UNCHANGED <<try, mpv, once, ended, api>>
          /\ Goto(s, IF api[s] = "integrated" THEN "done" ELSE "candidate")
      BY <2>4, Zenon DEF RecordStart
    <3> QED
      BY <3>1, MovesOn DEF Pcs, Waiting
  <2>5. ASSUME NEW s \in Sessions, Launch(s) PROVE IInv'
    <3>1. pc[s] = "candidate" /\ UNCHANGED <<once, ended, api>>
      BY <2>5, Zenon DEF Launch
    <3>2. CASE NextCandidate(s) /\ UNCHANGED mpv
      BY <3>1, <3>2, GivesUp DEF Waiting
    <3>3. CASE mpv' = [mpv EXCEPT ![Proc(s)] = "starting"] /\ Goto(s, "launched") /\ UNCHANGED try
      BY <3>1, <3>3, ProcsOfSessions
      DEF IInv, PlayerTypes, NoStrayPlayer, EndsAreCounted, Goto, Pcs, Waiting, Procs
    <3> QED
      BY <2>5, <3>2, <3>3, Zenon DEF Launch
  <2>6. ASSUME NEW s \in Sessions, WaitForSocket(s) PROVE IInv'
    <3>1. pc[s] = "launched" /\ UNCHANGED <<once, ended, api>>
      BY <2>6, Zenon DEF WaitForSocket
    <3>2. CASE Kill(Proc(s)) /\ NextCandidate(s)
      BY <3>1, <3>2, GivesUp
    <3>3. CASE Goto(s, "dialing") /\ UNCHANGED <<mpv, try>>
      BY <3>1, <3>3, MovesOn DEF Pcs, Waiting
    <3> QED
      BY <2>6, <3>2, <3>3, Zenon DEF WaitForSocket
  <2>7. ASSUME NEW s \in Sessions, ConnectIPC(s) PROVE IInv'
    <3>1. pc[s] = "dialing" /\ UNCHANGED <<once, ended, api>>
      BY <2>7, Zenon DEF ConnectIPC
    <3>2. CASE Kill(Proc(s)) /\ NextCandidate(s)
      BY <3>1, <3>2, GivesUp
    <3>3. CASE Goto(s, "dialed") /\ UNCHANGED <<mpv, try>>
      BY <3>1, <3>3, MovesOn DEF Pcs, Waiting
    <3> QED
      BY <2>7, <3>2, <3>3, Zenon DEF ConnectIPC
  <2>8. ASSUME NEW s \in Sessions, WaitForStableStartup(s) PROVE IInv'
    <3>1. pc[s] = "dialed" /\ UNCHANGED <<once, ended, api>>
      BY <2>8, Zenon DEF WaitForStableStartup
    <3>2. CASE Kill(Proc(s)) /\ NextCandidate(s)
      BY <3>1, <3>2, GivesUp
    <3>3. CASE Goto(s, "returned") /\ UNCHANGED <<mpv, try>>
      BY <3>1, <3>3, MovesOn DEF Pcs, Waiting
    <3> QED
      BY <2>8, <3>2, <3>3, Zenon DEF WaitForStableStartup
  <2>9. ASSUME NEW p \in Procs, Listen(p) \/ Exit(p) PROVE IInv'
    <3>1. /\ UNCHANGED <<pc, try, once, ended, api>> /\ mpv[p] \in {"starting", "listening"}
          /\ \/ mpv' = [mpv EXCEPT ![p] = "listening"]
             \/ mpv' = [mpv EXCEPT ![p] = "gone"]
      BY <2>9, Zenon DEF Listen, Exit
    <3>2. PlayerTypes' /\ EndsAreCounted'
      BY <3>1 DEF IInv, PlayerTypes, EndsAreCounted
    <3>3. \A q \in Procs : mpv'[q] \in {"starting", "listening"} =>
                           mpv[q] \in {"starting", "listening"}
      BY <3>1 DEF IInv, PlayerTypes
    <3>4. NoStrayPlayer'
      BY <3>1, <3>3 DEF IInv, NoStrayPlayer, Procs
    <3> QED
      BY <3>2, <3>4 DEF IInv
  <2>10. ASSUME NEW s \in Sessions, Observe(s) PROVE IInv'
    <3>1. /\ pc[s] = "returned" /\ Goto(s, "watching")
          /\ UNCHANGED <<try, mpv, once, ended, api>>
      BY <2>10, Zenon DEF Observe
    <3> QED
      BY <3>1, MovesOn DEF Pcs, Waiting
  <2>11. ASSUME NEW s \in Sessions, SeeExit(s) PROVE IInv'
    <3>1. /\ pc[s] = "watching" /\ mpv[Proc(s)] = "gone" /\ Goto(s, "draining")
          /\ UNCHANGED <<try, mpv, once, ended, api>>
      BY <2>11, Zenon DEF SeeExit
    <3>2. PlayerTypes' /\ EndsAreCounted'
      BY <3>1 DEF IInv, PlayerTypes, EndsAreCounted, Goto, Pcs, Waiting
    <3>3. \A n \in 1 .. Candidates : mpv[<<s, n>>] \notin {"starting", "listening"}
      BY <3>1, ProcsOfSessions DEF IInv, NoStrayPlayer
    <3>4. NoStrayPlayer'
      BY <3>1, <3>3 DEF IInv, PlayerTypes, NoStrayPlayer, Goto
    <3> QED
      BY <3>2, <3>4 DEF IInv
  <2>12. ASSUME NEW s \in Sessions, ClearState(s) PROVE IInv'
    <3>1. /\ pc[s] = "draining" /\ Goto(s, "cleared")
          /\ UNCHANGED <<try, mpv, once, ended, api>>
      BY <2>12, Zenon DEF ClearState
    <3> QED
      BY <3>1, MovesOn DEF Pcs, Waiting
  <2>13. ASSUME NEW s \in Sessions, Finish(s) PROVE IInv'
    <3>1. /\ pc[s] = "cleared" /\ Goto(s, "finishing") /\ FinishPlayback(s)
          /\ UNCHANGED <<try, mpv, api>>
      BY <2>13, Zenon DEF Finish
    <3>2. /\ once' = once \cup {s} /\ ended' \in [Sessions -> Nat]
          /\ \A t \in Sessions : ended'[t] = IF t \in once' THEN 1 ELSE 0
      BY <3>1, Finishing DEF IInv
    <3> QED
      BY <3>1, <3>2 DEF IInv, PlayerTypes, NoStrayPlayer, EndsAreCounted, Goto, Pcs, Waiting
  <2>14. ASSUME NEW s \in Sessions, Return(s) PROVE IInv'
    <3>1. /\ pc[s] = "finishing" /\ Goto(s, "done")
          /\ UNCHANGED <<try, mpv, once, ended, api>>
      BY <2>14, Zenon DEF Return
    <3>2. s \in once
      BY <3>1 DEF IInv, EndsAreCounted
    <3> QED
      BY <3>1, <3>2, MovesOn DEF Pcs, Waiting
  <2>15. ASSUME NEW s \in Sessions, EndFile(s) PROVE IInv'
    <3>1. FinishPlayback(s) /\ UNCHANGED <<pc, try, mpv, api>>
      BY <2>15, Zenon DEF EndFile
    <3>2. /\ once' = once \cup {s} /\ ended' \in [Sessions -> Nat]
          /\ \A t \in Sessions : ended'[t] = IF t \in once' THEN 1 ELSE 0
      BY <3>1, Finishing DEF IInv
    <3> QED
      BY <3>1, <3>2 DEF IInv, PlayerTypes, NoStrayPlayer, EndsAreCounted
  <2>16. ASSUME NEW s \in Sessions,
                BeginLoop(s) \/ TimePos(s) \/ OtherProperty(s) \/ EndLoop(s)
         PROVE  IInv'
    <3>1. UNCHANGED <<pc, try, mpv, once, ended, api>>
      BY <2>16, Zenon DEF BeginLoop, TimePos, OtherProperty, EndLoop
    <3> QED
      BY <3>1, PlayerAsWas
  <2>17. ASSUME NEW o \in Owners, Task(o) PROVE IInv'
    <3>1. UNCHANGED <<pc, try, mpv, once, ended, api>>
      BY <2>17, Zenon DEF Task, ReadPlayback, StorePlayback, SavePlayback, ClearPlayback,
                          ClosePlayback, SaveThumbnail
    <3> QED
      BY <3>1, PlayerAsWas
  <2>18. ASSUME NEW u \in UiCalls, NEW v \in Online, ReadThumbnail(u, v) PROVE IInv'
    <3>1. UNCHANGED <<pc, try, mpv, once, ended, api>>
      BY <2>18, Zenon DEF ReadThumbnail
    <3> QED
      BY <3>1, PlayerAsWas
  <2>19. ASSUME NEW v, MarkOnlineWatched(v) \/ RemoveAnimeFromHistory(v) \/ MarkLocal(v)
         PROVE  IInv'
    <3>1. UNCHANGED <<pc, try, mpv, once, ended, api>>
      BY <2>19, Zenon DEF MarkOnlineWatched, RemoveAnimeFromHistory, MarkLocal
    <3> QED
      BY <3>1, PlayerAsWas
  <2>20. CASE Shutdown
    <3>1. UNCHANGED <<pc, try, mpv, once, ended, api>>
      BY <2>20, Zenon DEF Shutdown
    <3> QED
      BY <3>1, PlayerAsWas
  <2>21. ASSUME NEW u \in UiCalls, UiCall(u) PROVE IInv'
    <3>1. UNCHANGED <<pc, try, mpv, once, ended, api>>
      BY <2>21, Zenon DEF UiCall
    <3> QED
      BY <3>1, PlayerAsWas
  <2> QED
    BY <2>1, <2>2, <2>3, <2>4, <2>5, <2>6, <2>7, <2>8, <2>9, <2>10, <2>11, <2>12, <2>13,
       <2>14, <2>15, <2>16, <2>17, <2>18, <2>19, <2>20, <2>21
    DEF Next, Opening, Watcher, Messages
<1> QED
  BY <1>1, <1>2, PTL DEF Spec

\* endedOnce: the end-file event and the exit of mpv report one end.
THEOREM EndReportedOnceHolds == Spec => []EndReportedOnce
<1>1. IInv => EndReportedOnce
  <2> SUFFICES ASSUME EndsAreCounted PROVE EndReportedOnce
    BY DEF IInv
  <2>1. \A s \in Sessions : ended[s] <= 1
    <3> SUFFICES ASSUME NEW s \in Sessions PROVE ended[s] <= 1
      OBVIOUS
    <3>1. ended[s] = 0 \/ ended[s] = 1
      BY DEF EndsAreCounted
    <3> QED
      BY <3>1
  <2>2. \A s \in Sessions : pc[s] = "done" /\ api[s] # "integrated" => ended[s] = 1
    BY DEF EndsAreCounted
  <2> QED
    BY <2>1, <2>2, Zenon DEF EndReportedOnce
<1> QED
  BY <1>1, PlayerInvariant, PTL

\* OpenEpisode: no mpv runs that nobody waits for.
THEOREM NoStrayPlayerHolds == Spec => []NoStrayPlayer
<1>1. IInv => NoStrayPlayer
  BY DEF IInv
<1> QED
  BY <1>1, PlayerInvariant, PTL

----------------------------------------------------------------------------
(* The other types: the connections and loops; then what is played, the     *)
(* playback, the calls in hand and the rows.                                *)

IpcTypes ==
  /\ api \in [Sessions -> Apis] /\ path \in Procs \cup {None}
  /\ conn \in Procs \cup {None} /\ peer \in [Procs -> Procs \cup {None}]
  /\ closed \subseteq Procs /\ observed \subseteq Procs
  /\ loop \in [Sessions -> {"none", "starting", "reading", "ending", "ended"}]
  /\ reading \in [Sessions -> Procs \cup {None}]
  /\ closing \in {"no", "saved", "closed", "gone"}

\* The connections and the loops keep their types.
LEMMA IpcTyped == Spec => []IpcTypes
<1>1. Init => IpcTypes
  BY DEF Init, IpcTypes, Apis, Procs
<1>2. PlayerTypes /\ IpcTypes /\ [Next]_vars => IpcTypes'
  <2> SUFFICES ASSUME PlayerTypes, IpcTypes, [Next]_vars PROVE IpcTypes'
    OBVIOUS
  <2> USE DEF opening, ipc, rows, notes
  <2>1. ASSUME UNCHANGED <<api, path, conn, peer, closed, observed, loop, reading, closing>>
        PROVE  IpcTypes'
    BY <2>1 DEF IpcTypes
  <2>2. ASSUME UNCHANGED <<api, path, peer, observed, loop, reading, closing>>, Disconnect
        PROVE  IpcTypes'
    BY <2>2 DEF IpcTypes, Disconnect
  <2>3. CASE UNCHANGED vars
    BY <2>1, <2>3, Zenon DEF vars
  <2>4. ASSUME NEW s \in Sessions, Open(s) PROVE IpcTypes'
    <3>1. /\ \E call \in Apis : api' = [api EXCEPT ![s] = call]
          /\ UNCHANGED <<path, conn, peer, closed, observed, loop, reading, closing>>
      BY <2>4, Zenon DEF Open, OpenOnline, OpenLocal, Choose, Apis
    <3> QED
      BY <3>1 DEF IpcTypes
  <2>5. ASSUME NEW s \in Sessions,
               SetCurrentOnlinePlayback(s) \/ RecordStart(s) \/ WaitForSocket(s)
        PROVE  IpcTypes'
    BY <2>1, <2>5, Zenon DEF SetCurrentOnlinePlayback, RecordStart, WaitForSocket
  <2>6. ASSUME NEW s \in Sessions, Launch(s) PROVE IpcTypes'
    <3>1. path' = None /\ UNCHANGED <<api, conn, peer, closed, observed, loop, reading, closing>>
      BY <2>6, Zenon DEF Launch
    <3> QED
      BY <3>1 DEF IpcTypes
  <2>7. ASSUME NEW s \in Sessions, ConnectIPC(s) PROVE IpcTypes'
    <3>1. /\ UNCHANGED <<api, path, closed, observed, loop, reading, closing>>
          /\ \/ /\ path # None /\ conn' = Proc(s)
                /\ peer' = [peer EXCEPT ![Proc(s)] = path]
             \/ UNCHANGED <<conn, peer>>
      BY <2>7, Zenon DEF ConnectIPC
    <3> QED
      BY <3>1, ProcsOfSessions DEF IpcTypes
  <2>8. ASSUME NEW s \in Sessions, WaitForStableStartup(s) PROVE IpcTypes'
    <3>1. /\ UNCHANGED <<api, path, peer, observed, loop, reading, closing>>
          /\ UNCHANGED <<conn, closed>> \/ Disconnect
      BY <2>8, Zenon DEF WaitForStableStartup
    <3> QED
      BY <3>1, <2>1, <2>2
  <2>9. ASSUME NEW p \in Procs, Listen(p) \/ Exit(p) PROVE IpcTypes'
    <3>1. /\ path' \in {path, None, p}
          /\ UNCHANGED <<api, conn, peer, closed, observed, loop, reading, closing>>
      BY <2>9, Zenon DEF Listen, Exit
    <3> QED
      BY <3>1 DEF IpcTypes
  <2>10. ASSUME NEW s \in Sessions, Observe(s) PROVE IpcTypes'
    <3>1. /\ observed' = IF conn = None THEN observed ELSE observed \cup {conn}
          /\ loop' = [loop EXCEPT ![s] = "starting"]
          /\ UNCHANGED <<api, path, conn, peer, closed, reading, closing>>
      BY <2>10, Zenon DEF Observe
    <3> QED
      BY <3>1 DEF IpcTypes
  <2>11. ASSUME NEW s \in Sessions, BeginLoop(s) PROVE IpcTypes'
    <3>1. /\ reading' = [reading EXCEPT ![s] = conn]
          /\ loop' = [loop EXCEPT ![s] = IF conn = None THEN "ended" ELSE "reading"]
          /\ UNCHANGED <<api, path, conn, peer, closed, observed, closing>>
      BY <2>11, Zenon DEF BeginLoop
    <3> QED
      BY <3>1 DEF IpcTypes
  <2>12. ASSUME NEW s \in Sessions, EndFile(s) \/ EndLoop(s) PROVE IpcTypes'
    <3>1. /\ \E l \in {"ending", "ended"} : loop' = [loop EXCEPT ![s] = l]
          /\ UNCHANGED <<api, path, conn, peer, closed, observed, reading, closing>>
      BY <2>12, Zenon DEF EndFile, EndLoop
    <3> QED
      BY <3>1 DEF IpcTypes
  <2>13. ASSUME NEW s \in Sessions, SeeExit(s) PROVE IpcTypes'
    BY <2>2, <2>13, Zenon DEF SeeExit
  <2>14. ASSUME NEW s \in Sessions,
                \/ ClearState(s) \/ Finish(s) \/ Return(s) \/ TimePos(s) \/ OtherProperty(s)
         PROVE  IpcTypes'
    BY <2>1, <2>14, Zenon DEF ClearState, Finish, Return, TimePos, OtherProperty
  <2>15. ASSUME NEW o \in Owners, Task(o) PROVE IpcTypes'
    BY <2>1, <2>15, Zenon DEF Task, ReadPlayback, StorePlayback, SavePlayback, ClearPlayback,
                              ClosePlayback, SaveThumbnail
  <2>16. ASSUME NEW u, NEW v,
                \/ UiCall(u) \/ ReadThumbnail(u, v) \/ MarkOnlineWatched(v)
                \/ RemoveAnimeFromHistory(v) \/ MarkLocal(v)
         PROVE  IpcTypes'
    BY <2>1, <2>16, Zenon DEF UiCall, ReadThumbnail, MarkOnlineWatched,
                              RemoveAnimeFromHistory, MarkLocal
  <2>17. CASE Shutdown
    <3>1. /\ UNCHANGED <<api, path, peer, observed, loop, reading>>
          /\ UNCHANGED <<conn, closed>> \/ Disconnect
          /\ closing' \in {"no", "saved", "closed", "gone"}
      BY <2>17, Zenon DEF Shutdown
    <3> QED
      BY <3>1 DEF IpcTypes, Disconnect
  <2> QED
    BY <2>3, <2>4, <2>5, <2>6, <2>7, <2>8, <2>9, <2>10, <2>11, <2>12, <2>13, <2>14, <2>15,
       <2>16, <2>17
    DEF Next, Opening, Watcher, Messages
<1>3. IInv => PlayerTypes
  BY DEF IInv
<1> QED
  BY <1>1, <1>2, <1>3, PlayerInvariant, PTL DEF Spec

RowType   == [known : BOOLEAN, progress : Seconds, duration : {0, Length},
              completed : BOOLEAN]
CtxType   == [active : BOOLEAN, video : Online \cup {None}, progress : Seconds,
              duration : {0, Length}]
TaskType  == [stage : {"none", "read", "store", "save", "clear", "close", "thumbnail"},
              kind : {"update", "finalize"}, pos : Seconds, dur : {0, Length},
              explicit : BOOLEAN, done : BOOLEAN, ctx : CtxType]
StateType == [active : BOOLEAN, video : Videos \cup {None}, pos : Seconds,
              dur : {0, Length}, pct : Seconds]
LocalType == [progress : Seconds, watched : BOOLEAN]

DataTypes ==
  /\ video \in [Sessions -> Videos \cup {None}] /\ saved \in [Sessions -> RowType]
  /\ state \in StateType /\ ctx \in CtxType /\ task \in [Owners -> TaskType]
  /\ history \in [Online -> RowType] /\ library \in [Library -> LocalType]
  /\ plan \in Plans /\ heard \in [Online -> Seconds] /\ edited \subseteq Online

\* An episode is in hand where its number is used.
EpisodesInHand ==
  /\ IF ctx.active THEN ctx.video \in Online ELSE ctx = NoCtx
  /\ \A s \in Sessions : pc[s] \in {"prepared", "current"} => video[s] \in Online
  /\ \A o \in Owners :
       task[o].stage \in {"save", "close", "thumbnail"} => task[o].ctx.video \in Online

LEMMA Blank ==
  /\ NoRow \in RowType /\ NoCtx \in CtxType /\ NoTask \in TaskType /\ Stopped \in StateType
  /\ NoTask.stage = "none" /\ ~NoTask.done /\ ~NoCtx.active /\ Stopped.pos = 0
  /\ NoCtx.video = None /\ ~NoTask.explicit /\ NoTask.pos = 0 /\ NoTask.kind = "update"
  /\ NoRow.progress = 0 /\ ~NoRow.completed
BY ConstantsAssumption
DEF RowType, CtxType, TaskType, StateType, NoRow, NoCtx, NoTask, Stopped, Seconds, Videos

\* RecordOnlineWatch
LEMMA Recording ==
  ASSUME history \in [Online -> RowType], NEW v \in Online, NEW p \in Seconds,
         NEW d \in {0, Length}, NEW c \in BOOLEAN, RecordOnlineWatch(v, p, d, c)
  PROVE  /\ history' \in [Online -> RowType]
         /\ history'[v].completed = c /\ history'[v].progress = p
         /\ d > 0 => history'[v].duration = d
         /\ \A w \in Online \ {v} : history'[w] = history[w]
<1> DEFINE e == IF d > 0 THEN d ELSE history[v].duration
           row == [known |-> TRUE, progress |-> p, completed |-> c, duration |-> e]
<1>1. history' = [history EXCEPT ![v] = row]
  BY Zenon DEF RecordOnlineWatch
<1>2. e \in {0, Length}
  BY DEF RowType
<1>3. row \in RowType /\ row.completed = c /\ row.progress = p /\ row.duration = e
  BY <1>2, Zenon DEF RowType
<1>4. d > 0 => e = d
  OBVIOUS
<1> HIDE DEF row, e
<1> QED
  BY <1>1, <1>3, <1>4

\* clampOnlineProgress has nothing to do: every position is on the scale.
LEMMA Clamped ==
  ASSUME NEW p \in Seconds, NEW d \in {0, Length}
  PROVE  Clamp(p, d) = p
BY ConstantsAssumption DEF Clamp, Seconds

LEMMA Firsts ==
  ASSUME NEW a, NEW b, NEW c
  PROVE  FirstPositive(a, b, c) \in {a, b, c}
BY DEF FirstPositive

LEMMA Reports ==
  ASSUME plan \in Plans, NEW o \in Owners
  PROVE  plan.reports[o] \subseteq Seconds
BY ConstantsAssumption DEF Seconds, Owners

LEMMA Completing ==
  ASSUME NEW p, NEW d, NEW x \in BOOLEAN
  PROVE  Completes(p, d, x) \in BOOLEAN
BY Zenon DEF Completes

\* A step of one call.
LEMMA Stepping ==
  ASSUME task \in [Owners -> TaskType], NEW o \in Owners, NEW t \in TaskType, Step(o, t)
  PROVE  /\ task' \in [Owners -> TaskType] /\ task'[o] = t
         /\ \A q \in Owners \ {o} : task'[q] = task[q]
BY DEF Step

LEMMA AfterUpdates ==
  ASSUME task \in [Owners -> TaskType], NEW o \in Owners
  PROVE  /\ AfterUpdate(o) \in TaskType
         /\ AfterUpdate(o).stage = IF task[o].kind = "finalize" THEN "clear" ELSE "none"
BY Blank DEF AfterUpdate, TaskType

LEMMA Reads ==
  ASSUME DataTypes, NEW o \in Owners, ReadPlayback(o)
  PROVE  \/ /\ ctx.active
            /\ \E p \in Seconds, d \in {0, Length} :
                 /\ p = FirstPositive(task[o].pos, state.pos, ctx.progress)
                 /\ Step(o, [task[o] EXCEPT !.stage = "store", !.pos = p, !.dur = d,
                               !.done = Completes(p, d, task[o].explicit)])
         \/ ~ctx.active /\ Step(o, AfterUpdate(o))
<1> DEFINE d == FirstPositive(task[o].dur, state.dur, ctx.duration)
           q == FirstPositive(task[o].pos, state.pos, ctx.progress)
<1>1. d \in {0, Length}
  BY Firsts DEF DataTypes, TaskType, StateType, CtxType
<1>2. q \in Seconds
  BY Firsts DEF DataTypes, TaskType, StateType, CtxType
<1>3. Clamp(q, d) = q
  BY <1>1, <1>2, Clamped
<1>4. \/ /\ ctx.active
         /\ Step(o, [task[o] EXCEPT !.stage = "store", !.pos = Clamp(q, d), !.dur = d,
                       !.done = Completes(Clamp(q, d), d, task[o].explicit)])
      \/ ~ctx.active /\ Step(o, AfterUpdate(o))
  BY Zenon DEF ReadPlayback
<1> QED
  BY <1>1, <1>2, <1>3, <1>4, Zenon

LEMMA Stores ==
  ASSUME DataTypes, NEW o \in Owners, StorePlayback(o)
  PROVE  \/ /\ ctx.active
            /\ \E next \in CtxType :
                 /\ ctx' = next /\ next.active /\ next.video = ctx.video
                 /\ next.progress = task[o].pos
                 /\ task[o].dur > 0 => next.duration = task[o].dur
                 /\ Step(o, [task[o] EXCEPT !.stage = "save", !.ctx = next])
         \/ ~ctx.active /\ Step(o, AfterUpdate(o)) /\ UNCHANGED ctx
<1> DEFINE d == IF task[o].dur > 0 THEN task[o].dur ELSE ctx.duration
           next == [ctx EXCEPT !.progress = task[o].pos, !.duration = d]
<1>1. \/ /\ ctx.active /\ ctx' = next
         /\ Step(o, [task[o] EXCEPT !.stage = "save", !.ctx = next])
      \/ ~ctx.active /\ Step(o, AfterUpdate(o)) /\ UNCHANGED ctx
  BY Zenon DEF StorePlayback
<1>2. d \in {0, Length} /\ (task[o].dur > 0 => d = task[o].dur) /\ task[o].pos \in Seconds
  BY DEF DataTypes, TaskType, CtxType
<1>3. /\ next \in CtxType /\ next.progress = task[o].pos /\ next.duration = d
      /\ next.video = ctx.video /\ next.active = ctx.active
  BY <1>2, Zenon DEF DataTypes, CtxType
<1> HIDE DEF next, d
<1> QED
  BY <1>1, <1>2, <1>3, Zenon

LEMMA NewReport ==
  ASSUME NEW p \in Seconds
  PROVE  LET n == [NoTask EXCEPT !.stage = "read", !.pos = p]
         IN  /\ n \in TaskType /\ n.stage = "read" /\ n.kind = "update" /\ n.pos = p
             /\ ~n.explicit /\ ~n.done
BY Blank, Zenon DEF TaskType

LEMMA NewFinal ==
  LET n == [NoTask EXCEPT !.stage = "read", !.kind = "finalize"]
  IN  /\ n \in TaskType /\ n.stage = "read" /\ n.kind = "finalize" /\ n.pos = 0
      /\ ~n.explicit /\ ~n.done
BY Blank, Zenon DEF TaskType

----------------------------------------------------------------------------
(* A row is completed only near the end: so is what the calls are about to write. *)

Near(pos, dur) ==
  /\ dur > 0
  /\ dur - pos <= Tail \/ 100 * pos >= 92 * dur

TasksTellTheTruth ==
  \A o \in Owners : task[o].done =>
    /\ task[o].stage = "store" /\ ~task[o].explicit => Near(task[o].pos, task[o].dur)
    /\ task[o].stage = "save" /\ ~task[o].explicit =>
         Near(task[o].ctx.progress, task[o].ctx.duration)
    /\ task[o].stage = "thumbnail" => \/ Near(task[o].ctx.progress, task[o].ctx.duration)
                                      \/ task[o].ctx.video \in edited

RowsTellTheTruth ==
  \A v \in Online \ edited :
    history[v].completed => Near(history[v].progress, history[v].duration)

DInv == DataTypes /\ EpisodesInHand /\ TasksTellTheTruth /\ RowsTellTheTruth

LEMMA CompletedNotExplicit ==
  ASSUME NEW p, NEW d, NEW x \in BOOLEAN, Completes(p, d, x), ~x
  PROVE  Near(p, d) /\ d > 0
BY DEF Completes, Near

\* A step that leaves the rows and the calls alone.
LEMMA DataAsWas ==
  ASSUME DInv, UNCHANGED <<video, saved, task, history, plan, heard, edited>>,
         state' \in StateType, library' \in [Library -> LocalType],
         ctx' = ctx \/ ctx' = NoCtx,
         \A s \in Sessions : pc'[s] \in {"prepared", "current"} => pc'[s] = pc[s]
  PROVE  DInv'
<1>1. DataTypes'
  BY Blank DEF DInv, DataTypes
<1>2. EpisodesInHand'
  BY Blank, Zenon DEF DInv, EpisodesInHand
<1>3. TasksTellTheTruth' /\ RowsTellTheTruth'
  BY Zenon DEF DInv, TasksTellTheTruth, RowsTellTheTruth
<1> QED
  BY <1>1, <1>2, <1>3 DEF DInv

\* One call moves on; the rows stay.
LEMMA OneCallMoves ==
  ASSUME DInv, UNCHANGED <<video, saved, state, history, plan, edited>>,
         \A s \in Sessions : pc'[s] \in {"prepared", "current"} => pc'[s] = pc[s],
         library' \in [Library -> LocalType], heard' \in [Online -> Seconds],
         ctx' \in CtxType, IF ctx'.active THEN ctx'.video \in Online ELSE ctx' = NoCtx,
         NEW o \in Owners, NEW t \in TaskType, Step(o, t),
         t.stage \in {"save", "close", "thumbnail"} => t.ctx.video \in Online,
         t.done =>
           /\ t.stage = "store" /\ ~t.explicit => Near(t.pos, t.dur)
           /\ t.stage = "save" /\ ~t.explicit => Near(t.ctx.progress, t.ctx.duration)
           /\ t.stage = "thumbnail" => \/ Near(t.ctx.progress, t.ctx.duration)
                                       \/ t.ctx.video \in edited
  PROVE  DInv'
<1>1. /\ task' \in [Owners -> TaskType] /\ task'[o] = t
      /\ \A q \in Owners \ {o} : task'[q] = task[q]
  BY Stepping DEF DInv, DataTypes
<1>2. DataTypes'
  BY <1>1 DEF DInv, DataTypes
<1>3. EpisodesInHand'
  BY <1>1, Zenon DEF DInv, EpisodesInHand
<1>4. TasksTellTheTruth'
  BY <1>1, Zenon DEF DInv, TasksTellTheTruth
<1>5. RowsTellTheTruth'
  BY Zenon DEF DInv, RowsTellTheTruth
<1> QED
  BY <1>2, <1>3, <1>4, <1>5 DEF DInv

\* One row is written, by a call that is done or goes on to clear the playback.
LEMMA OneRowWritten ==
  ASSUME DInv, UNCHANGED <<video, saved, ctx, state, library, plan>>,
         NEW v \in Online, edited' = edited \/ edited' = edited \cup {v},
         NEW p \in Seconds, NEW d \in {0, Length}, NEW c \in BOOLEAN,
         RecordOnlineWatch(v, p, d, c), c => Near(p, d) \/ v \in edited',
         heard' \in [Online -> Seconds],
         \A s \in Sessions : pc'[s] \in {"prepared", "current"} => pc'[s] = pc[s],
         \/ UNCHANGED task
         \/ \E o \in Owners, t \in TaskType :
              Step(o, t) /\ t.stage \in {"none", "clear"}
  PROVE  DInv'
<1>1. /\ history' \in [Online -> RowType]
      /\ history'[v].completed = c /\ history'[v].progress = p
      /\ d > 0 => history'[v].duration = d
      /\ \A w \in Online \ {v} : history'[w] = history[w]
  BY Recording DEF DInv, DataTypes
<1>2. /\ task' \in [Owners -> TaskType]
      /\ \A q \in Owners : task'[q] = task[q] \/ task'[q].stage \in {"none", "clear"}
  <2>1. CASE UNCHANGED task
    BY <2>1 DEF DInv, DataTypes
  <2>2. CASE \E o \in Owners, t \in TaskType : Step(o, t) /\ t.stage \in {"none", "clear"}
    BY <2>2, Stepping, Zenon DEF DInv, DataTypes
  <2> QED
    BY <2>1, <2>2
<1>3. DataTypes'
  BY <1>1, <1>2 DEF DInv, DataTypes
<1>4. EpisodesInHand'
  BY <1>2 DEF DInv, EpisodesInHand
<1>5. TasksTellTheTruth'
  BY <1>2 DEF DInv, TasksTellTheTruth
<1>6. RowsTellTheTruth'
  <2> SUFFICES ASSUME NEW w \in Online \ edited', history'[w].completed
               PROVE  Near(history'[w].progress, history'[w].duration)
    BY Zenon DEF RowsTellTheTruth
  <2>1. CASE w = v
    BY <1>1, <2>1 DEF Near
  <2>2. CASE w # v
    BY <1>1, <2>2 DEF DInv, RowsTellTheTruth
  <2> QED
    BY <2>1, <2>2
<1> QED
  BY <1>3, <1>4, <1>5, <1>6 DEF DInv

LEMMA Saving ==
  ASSUME DataTypes, NEW v \in Library, NEW p \in Seconds, NEW q, SaveProgress(v, p, q)
  PROVE  library' \in [Library -> LocalType]
<1> DEFINE w == 100 * q >= 85 * Length
           row == [progress |-> p, watched |-> w]
<1>1. library' = [library EXCEPT ![v] = row]
  BY Zenon DEF SaveProgress
<1>2. w \in BOOLEAN
  OBVIOUS
<1> HIDE DEF w
<1>3. row \in LocalType
  BY <1>2, Zenon DEF LocalType
<1> HIDE DEF row
<1> QED
  BY <1>1, <1>3 DEF DataTypes

\* FinishPlayback: nothing, a row of the library, or a call that finalizes.
LEMMA FinishingData ==
  ASSUME DataTypes, NEW s \in Sessions, FinishPlayback(s)
  PROVE  /\ library' \in [Library -> LocalType]
         /\ \/ UNCHANGED task
            \/ /\ s \notin once
               /\ Step(s, [NoTask EXCEPT !.stage = "read", !.kind = "finalize"])
<1>1. \/ UNCHANGED <<library, task>>
      \/ /\ video[s] \in Library /\ UNCHANGED task
         /\ library' = [library EXCEPT ![video[s]] = [progress |-> 0, watched |-> TRUE]]
      \/ /\ UNCHANGED library /\ s \notin once
         /\ Step(s, [NoTask EXCEPT !.stage = "read", !.kind = "finalize"])
  BY Zenon DEF FinishPlayback, Step
<1>2. [progress |-> 0, watched |-> TRUE] \in LocalType
  BY ConstantsAssumption DEF LocalType, Seconds
<1> QED
  BY <1>1, <1>2 DEF DataTypes

LEMMA Starting ==
  ASSUME DataTypes, NEW s \in Sessions
  PROVE  StartAt(s) \in Seconds /\ saved[s].duration \in {0, Length}
BY ConstantsAssumption DEF StartAt, DataTypes, RowType, Seconds

\* Every step keeps the types of the data, and the truth of what is completed.
LEMMA DataStep ==
  ASSUME PlayerTypes, DInv, [Next]_vars PROVE DInv'
<1> USE DEF opening, ipc, rows, notes
<1>0. DataTypes /\ EpisodesInHand
  BY DEF DInv
<1>t. state \in StateType /\ library \in [Library -> LocalType] /\ task \in [Owners -> TaskType]
      /\ ctx \in CtxType /\ heard \in [Online -> Seconds] /\ history \in [Online -> RowType]
  BY <1>0 DEF DataTypes
<1>o. Sessions \subseteq Owners /\ UiCalls \subseteq Owners
  BY DEF Owners
<1>c. IF ctx.active THEN ctx.video \in Online ELSE ctx = NoCtx
  BY <1>0 DEF EpisodesInHand
<1>1. CASE UNCHANGED vars
  BY <1>1, <1>t, DataAsWas, Zenon DEF vars
<1> SUFFICES ASSUME Next PROVE DInv'
  BY <1>1
<1>2. UNCHANGED plan
  BY Zenon DEF Next
<1>3. ASSUME NEW s \in Sessions, OpenOnline(s) PROVE DInv'
  <2>1. PICK v \in Online, call \in {"stream", "open", "integrated"} :
          Choose(s, v, call) /\ Goto(s, "prepared") /\ saved' = [saved EXCEPT ![s] = history[v]]
    BY <1>3, Zenon DEF OpenOnline
  <2>2. /\ video' = [video EXCEPT ![s] = v] /\ pc' = [pc EXCEPT ![s] = "prepared"]
        /\ UNCHANGED <<state, ctx, task, history, library, plan, heard, edited>>
    BY <1>2, <2>1, Zenon DEF Choose, Goto
  <2>3. DataTypes'
    BY <1>0, <2>1, <2>2 DEF DataTypes, Videos
  <2>4. EpisodesInHand'
    BY <1>0, <2>2 DEF EpisodesInHand, DataTypes
  <2>5. TasksTellTheTruth' /\ RowsTellTheTruth'
    BY <2>2, Zenon DEF DInv, TasksTellTheTruth, RowsTellTheTruth
  <2> QED
    BY <2>3, <2>4, <2>5 DEF DInv
<1>4. ASSUME NEW s \in Sessions, OpenLocal(s) PROVE DInv'
  <2>1. PICK v \in Library \cup Files : video' = [video EXCEPT ![s] = v]
    BY <1>4, Zenon DEF OpenLocal, Choose
  <2>2. /\ pc' = [pc EXCEPT ![s] = "candidate"]
        /\ UNCHANGED <<state, ctx, task, history, library, plan, heard, edited>>
    BY <1>2, <1>4, Zenon DEF OpenLocal, Choose, Goto
  <2>3. saved' \in [Sessions -> RowType]
    <3>1. \/ \E w \in Library : saved' = [saved EXCEPT ![s].progress = library[w].progress]
          \/ saved' = saved
      BY <1>4, Zenon DEF OpenLocal
    <3>2. saved \in [Sessions -> RowType]
      BY <1>0 DEF DataTypes
    <3>3. \A w \in Library : library[w].progress \in Seconds
      BY <1>t DEF LocalType
    <3> QED
      BY <3>1, <3>2, <3>3 DEF RowType
  <2>4. DataTypes'
    BY <1>0, <2>1, <2>2, <2>3 DEF DataTypes, Videos
  <2>5. EpisodesInHand'
    BY <1>0, <2>1, <2>2 DEF EpisodesInHand, DataTypes, PlayerTypes
  <2>6. TasksTellTheTruth' /\ RowsTellTheTruth'
    BY <2>2, Zenon DEF DInv, TasksTellTheTruth, RowsTellTheTruth
  <2> QED
    BY <2>4, <2>5, <2>6 DEF DInv
<1>5. ASSUME NEW s \in Sessions, SetCurrentOnlinePlayback(s) PROVE DInv'
  <2> DEFINE c == [active |-> TRUE, video |-> video[s], progress |-> StartAt(s),
                   duration |-> saved[s].duration]
  <2>1. /\ pc[s] = "prepared" /\ ctx' = c /\ pc' = [pc EXCEPT ![s] = "current"]
        /\ UNCHANGED <<video, saved, state, task, history, library, plan, heard, edited>>
    BY <1>2, <1>5, Zenon DEF SetCurrentOnlinePlayback, Goto
  <2>2. video[s] \in Online
    BY <1>0, <2>1 DEF EpisodesInHand
  <2>3. c \in CtxType /\ c.active /\ c.video = video[s]
    BY <1>0, <2>2, Starting, Zenon DEF CtxType
  <2> HIDE DEF c
  <2>4. DataTypes'
    BY <1>0, <2>1, <2>3 DEF DataTypes
  <2>5. EpisodesInHand'
    BY <1>0, <2>1, <2>2, <2>3 DEF EpisodesInHand
  <2>6. TasksTellTheTruth' /\ RowsTellTheTruth'
    BY <2>1, Zenon DEF DInv, TasksTellTheTruth, RowsTellTheTruth
  <2> QED
    BY <2>4, <2>5, <2>6 DEF DInv
<1>6. ASSUME NEW s \in Sessions, RecordStart(s) PROVE DInv'
  <2>1. /\ pc[s] = "current" /\ RecordOnlineWatch(video[s], StartAt(s), saved[s].duration, FALSE)
        /\ heard' = [heard EXCEPT ![video[s]] = StartAt(s)]
        /\ pc' = [pc EXCEPT ![s] = IF api[s] = "integrated" THEN "done" ELSE "candidate"]
        /\ UNCHANGED <<video, saved, state, ctx, task, library, plan, edited>>
    BY <1>2, <1>6, Zenon DEF RecordStart, Goto
  <2>2. video[s] \in Online /\ StartAt(s) \in Seconds /\ saved[s].duration \in {0, Length}
    BY <1>0, <2>1, Starting DEF EpisodesInHand
  <2>3. heard' \in [Online -> Seconds]
    BY <1>t, <2>1, <2>2
  <2>4. \A r \in Sessions : pc'[r] \in {"prepared", "current"} => pc'[r] = pc[r]
    BY <2>1
  <2> QED
    BY <2>1, <2>2, <2>3, <2>4, OneRowWritten
<1>7. ASSUME NEW s \in Sessions,
             \/ Launch(s) \/ WaitForSocket(s) \/ ConnectIPC(s) \/ WaitForStableStartup(s)
      PROVE  DInv'
  <2>1. /\ UNCHANGED <<video, saved, task, history, library, plan, heard, edited>>
        /\ ctx' = ctx \/ ctx' = NoCtx
        /\ \E at \in Pcs \ {"prepared", "current"} : pc' = [pc EXCEPT ![s] = at]
    <3>1. /\ UNCHANGED <<video, saved, task, history, library, plan, heard, edited>>
          /\ \/ /\ UNCHANGED ctx
                /\ \/ Goto(s, "launched") \/ Goto(s, "dialing") \/ Goto(s, "dialed")
                   \/ Goto(s, "returned")
             \/ NextCandidate(s)
      BY <1>2, <1>7, Zenon DEF Launch, WaitForSocket, ConnectIPC, WaitForStableStartup
    <3> QED
      BY <3>1 DEF NextCandidate, Goto, Pcs, Waiting
  <2>2. state' \in StateType
    <3>1. \/ UNCHANGED state
          \/ state' = [state EXCEPT !.active = TRUE, !.video = video[s], !.pos = StartAt(s)]
      BY <1>7, Zenon DEF Launch, WaitForSocket, ConnectIPC, WaitForStableStartup
    <3> QED
      BY <1>0, <3>1, Starting DEF DataTypes, StateType
  <2>3. \A r \in Sessions : pc'[r] \in {"prepared", "current"} => pc'[r] = pc[r]
    BY <2>1
  <2> QED
    BY <1>t, <2>1, <2>2, <2>3, DataAsWas
<1>8. ASSUME NEW p, Listen(p) \/ Exit(p) PROVE DInv'
  BY <1>2, <1>8, <1>t, DataAsWas, Zenon DEF Listen, Exit
<1>9. ASSUME NEW s \in Sessions, Observe(s) \/ SeeExit(s) \/ ClearState(s) \/ Return(s)
      PROVE  DInv'
  <2>1. /\ UNCHANGED <<video, saved, ctx, task, history, library, plan, heard, edited>>
        /\ state' = state \/ state' = Stopped
        /\ Goto(s, "watching") \/ Goto(s, "draining") \/ Goto(s, "cleared") \/ Goto(s, "done")
    BY <1>2, <1>9, Zenon DEF Observe, SeeExit, ClearState, Return
  <2>2. \A r \in Sessions : pc'[r] \in {"prepared", "current"} => pc'[r] = pc[r]
    BY <2>1 DEF Goto, PlayerTypes
  <2> QED
    BY <1>t, <2>1, <2>2, Blank, DataAsWas
<1>10. ASSUME NEW s \in Sessions, BeginLoop(s) \/ EndLoop(s) PROVE DInv'
  BY <1>2, <1>10, <1>t, DataAsWas, Zenon DEF BeginLoop, EndLoop
<1>11. ASSUME NEW s \in Sessions, OtherProperty(s) PROVE DInv'
  <2>1. /\ UNCHANGED <<video, saved, ctx, task, history, library, plan, heard, edited, pc>>
        /\ \/ state' = [state EXCEPT !.dur = Length]
           \/ state' = [state EXCEPT !.pct = state.pos]
    BY <1>2, <1>11, Zenon DEF OtherProperty
  <2>2. state' \in StateType
    BY <1>t, <2>1 DEF StateType
  <2> QED
    BY <1>t, <2>1, <2>2, DataAsWas
<1>12. ASSUME NEW s \in Sessions, TimePos(s) PROVE DInv'
  <2>1. PICK pos \in plan.reports[s] :
          /\ state' = [state EXCEPT !.pos = pos]
          /\ \/ video[s] \in Library /\ SaveProgress(video[s], pos, state.pct)
                /\ UNCHANGED <<task, heard>>
             \/ /\ task' = [task EXCEPT ![s] = [NoTask EXCEPT !.stage = "read", !.pos = pos]]
                /\ heard' = Heard(video[s], pos) /\ UNCHANGED library
    BY <1>12, Zenon DEF TimePos
  <2>2. UNCHANGED <<video, saved, ctx, history, plan, edited, pc>>
    BY <1>2, <1>12, Zenon DEF TimePos
  <2>3. pos \in Seconds
    BY <1>0, <1>o, Reports DEF DataTypes
  <2>4. state' \in StateType
    BY <1>t, <2>1, <2>3 DEF StateType
  <2>5. CASE video[s] \in Library /\ SaveProgress(video[s], pos, state.pct)
             /\ UNCHANGED <<task, heard>>
    <3>1. library' \in [Library -> LocalType]
      BY <1>0, <2>3, <2>5, Saving
    <3> QED
      BY <2>2, <2>4, <2>5, <3>1, DataAsWas
  <2>6. CASE /\ task' = [task EXCEPT ![s] = [NoTask EXCEPT !.stage = "read", !.pos = pos]]
             /\ heard' = Heard(video[s], pos) /\ UNCHANGED library
    <3> DEFINE n == [NoTask EXCEPT !.stage = "read", !.pos = pos]
    <3>1. /\ n \in TaskType /\ n.stage = "read" /\ ~n.done
      BY <2>3, NewReport
    <3>2. task' = [task EXCEPT ![s] = n]
      BY <2>6, Zenon
    <3> HIDE DEF n
    <3>3. heard' \in [Online -> Seconds]
      BY <1>t, <2>3, <2>6 DEF Heard
    <3>4. task' \in [Owners -> TaskType] /\ task'[s] = n
          /\ \A q \in Owners \ {s} : task'[q] = task[q]
      BY <1>t, <1>o, <3>1, <3>2
    <3>5. DataTypes'
      BY <1>0, <2>2, <2>4, <2>6, <3>3, <3>4 DEF DataTypes
    <3>6. EpisodesInHand'
      BY <1>0, <2>2, <3>1, <3>4, Zenon DEF EpisodesInHand
    <3>7. TasksTellTheTruth' /\ RowsTellTheTruth'
      BY <2>2, <3>1, <3>4, Zenon DEF DInv, TasksTellTheTruth, RowsTellTheTruth
    <3> QED
      BY <3>5, <3>6, <3>7 DEF DInv
  <2> QED
    BY <2>1, <2>5, <2>6
<1>13. ASSUME NEW s \in Sessions, EndFile(s) \/ Finish(s) PROVE DInv'
  <2>1. /\ FinishPlayback(s) /\ UNCHANGED <<video, saved, state, ctx, history, plan, heard, edited>>
        /\ UNCHANGED pc \/ Goto(s, "finishing")
    BY <1>2, <1>13, Zenon DEF EndFile, Finish
  <2>2. \A r \in Sessions : pc'[r] \in {"prepared", "current"} => pc'[r] = pc[r]
    BY <2>1 DEF Goto, PlayerTypes
  <2>3. /\ library' \in [Library -> LocalType]
        /\ \/ UNCHANGED task
           \/ Step(s, [NoTask EXCEPT !.stage = "read", !.kind = "finalize"])
    BY <1>0, <2>1, FinishingData
  <2>4. CASE UNCHANGED task
    BY <1>t, <2>1, <2>2, <2>3, <2>4, DataAsWas
  <2>5. CASE Step(s, [NoTask EXCEPT !.stage = "read", !.kind = "finalize"])
    <3> DEFINE n == [NoTask EXCEPT !.stage = "read", !.kind = "finalize"]
    <3>1. n \in TaskType /\ n.stage = "read" /\ ~n.done /\ Step(s, n)
      BY <2>5, NewFinal
    <3> HIDE DEF n
    <3>2. s \in Owners
      BY <1>o
    <3> QED
      BY <1>t, <1>c, <2>1, <2>2, <2>3, <3>1, <3>2, OneCallMoves
  <2> QED
    BY <2>3, <2>4, <2>5
<1>14. ASSUME NEW o \in Owners, ReadPlayback(o) PROVE DInv'
  <2>1. UNCHANGED <<video, saved, state, ctx, history, library, plan, heard, edited, pc>>
    BY <1>2, <1>14, Zenon DEF ReadPlayback
  <2>2. CASE ~ctx.active /\ Step(o, AfterUpdate(o))
    <3>1. AfterUpdate(o) \in TaskType /\ AfterUpdate(o).stage \in {"none", "clear"}
      BY <1>t, AfterUpdates
    <3> QED
      BY <1>t, <1>c, <2>1, <2>2, <3>1, OneCallMoves
  <2>3. CASE \E p \in Seconds, d \in {0, Length} :
               /\ p = FirstPositive(task[o].pos, state.pos, ctx.progress)
               /\ Step(o, [task[o] EXCEPT !.stage = "store", !.pos = p, !.dur = d,
                             !.done = Completes(p, d, task[o].explicit)])
    <3>1. PICK p \in Seconds, d \in {0, Length} :
            Step(o, [task[o] EXCEPT !.stage = "store", !.pos = p, !.dur = d,
                       !.done = Completes(p, d, task[o].explicit)])
      BY <2>3, Zenon
    <3> DEFINE n == [task[o] EXCEPT !.stage = "store", !.pos = p, !.dur = d,
                       !.done = Completes(p, d, task[o].explicit)]
    <3>2. task[o] \in TaskType /\ task[o].explicit \in BOOLEAN
      BY <1>t DEF TaskType
    <3>3. Completes(p, d, task[o].explicit) \in BOOLEAN
      BY <3>2, Completing
    <3>4. /\ n \in TaskType /\ n.stage = "store" /\ n.pos = p /\ n.dur = d
          /\ n.done = Completes(p, d, task[o].explicit) /\ n.explicit = task[o].explicit
      BY <3>2, <3>3, Zenon DEF TaskType
    <3>5. Step(o, n)
      BY <3>1
    <3> HIDE DEF n
    <3>6. n.done /\ ~n.explicit => Near(n.pos, n.dur)
      BY <3>2, <3>4, CompletedNotExplicit, Zenon
    <3> QED
      BY <1>t, <1>c, <2>1, <3>4, <3>5, <3>6, OneCallMoves
  <2> QED
    BY <1>0, <1>14, <2>2, <2>3, Reads, Zenon
<1>15. ASSUME NEW o \in Owners, StorePlayback(o) PROVE DInv'
  <2>1. /\ task[o].stage = "store"
        /\ UNCHANGED <<video, saved, state, history, library, plan, heard, edited, pc>>
    BY <1>2, <1>15, Zenon DEF StorePlayback
  <2>2. CASE ~ctx.active /\ Step(o, AfterUpdate(o)) /\ UNCHANGED ctx
    <3>1. AfterUpdate(o) \in TaskType /\ AfterUpdate(o).stage \in {"none", "clear"}
      BY <1>t, AfterUpdates
    <3> QED
      BY <1>t, <1>c, <2>1, <2>2, <3>1, OneCallMoves
  <2>3. CASE /\ ctx.active
             /\ \E next \in CtxType :
                  /\ ctx' = next /\ next.active /\ next.video = ctx.video
                  /\ next.progress = task[o].pos
                  /\ task[o].dur > 0 => next.duration = task[o].dur
                  /\ Step(o, [task[o] EXCEPT !.stage = "save", !.ctx = next])
    <3>1. PICK next \in CtxType :
            /\ ctx' = next /\ next.active /\ next.video = ctx.video
            /\ next.progress = task[o].pos /\ (task[o].dur > 0 => next.duration = task[o].dur)
            /\ Step(o, [task[o] EXCEPT !.stage = "save", !.ctx = next])
      BY <2>3, Zenon
    <3> DEFINE n == [task[o] EXCEPT !.stage = "save", !.ctx = next]
    <3>2. /\ n \in TaskType /\ n.stage = "save" /\ n.ctx = next /\ n.done = task[o].done
          /\ n.explicit = task[o].explicit
      BY <1>t, Zenon DEF TaskType
    <3>3. Step(o, n)
      BY <3>1
    <3> HIDE DEF n
    <3>4. next.video \in Online
      BY <1>c, <2>3, <3>1
    <3>5. task[o].done /\ ~task[o].explicit => Near(task[o].pos, task[o].dur) /\ task[o].dur > 0
      BY <2>1 DEF DInv, TasksTellTheTruth, Near
    <3>6. n.done /\ ~n.explicit => Near(n.ctx.progress, n.ctx.duration)
      BY <3>1, <3>2, <3>5
    <3> QED
      BY <1>t, <2>1, <3>1, <3>2, <3>3, <3>4, <3>6, OneCallMoves
  <2> QED
    BY <1>0, <1>15, <2>2, <2>3, Stores, Zenon
<1>16. ASSUME NEW o \in Owners, SavePlayback(o) PROVE DInv'
  <2> DEFINE copy == task[o].ctx
  <2>1. /\ task[o].stage = "save" /\ EditedBy(o) /\ Step(o, AfterUpdate(o))
        /\ RecordOnlineWatch(copy.video, copy.progress, copy.duration, task[o].done)
        /\ UNCHANGED <<video, saved, state, ctx, library, plan, heard, pc>>
    BY <1>2, <1>16, Zenon DEF SavePlayback
  <2>2. copy.video \in Online
    BY <1>0, <2>1 DEF EpisodesInHand
  <2>3. copy.progress \in Seconds /\ copy.duration \in {0, Length}
    BY <1>t DEF TaskType, CtxType
  <2>4. task[o].done \in BOOLEAN
    BY <1>t DEF TaskType
  <2>5. /\ edited' = edited \/ edited' = edited \cup {copy.video}
        /\ task[o].explicit => copy.video \in edited'
    BY <2>1 DEF EditedBy
  <2>6. task[o].done => Near(copy.progress, copy.duration) \/ copy.video \in edited'
    BY <2>1, <2>5, Zenon DEF DInv, TasksTellTheTruth
  <2>7. AfterUpdate(o) \in TaskType /\ AfterUpdate(o).stage \in {"none", "clear"}
    BY <1>t, AfterUpdates
  <2> HIDE DEF copy
  <2>8. \E q \in Owners, t \in TaskType : Step(q, t) /\ t.stage \in {"none", "clear"}
    BY <2>1, <2>7, Zenon
  <2> QED
    BY <1>t, <2>1, <2>2, <2>3, <2>4, <2>5, <2>6, <2>8, OneRowWritten
<1>17. ASSUME NEW o \in Owners, ClearPlayback(o) PROVE DInv'
  <2>1. /\ ctx' = NoCtx
        /\ UNCHANGED <<video, saved, state, history, library, plan, heard, edited, pc>>
        /\ \/ ctx.active /\ Step(o, [task[o] EXCEPT !.stage = "close", !.ctx = ctx])
           \/ Step(o, NoTask)
    BY <1>2, <1>17, Zenon DEF ClearPlayback
  <2>2. ctx' \in CtxType /\ ~ctx'.active
    BY <2>1, Blank
  <2>3. CASE Step(o, NoTask)
    BY <1>t, <2>1, <2>2, <2>3, Blank, OneCallMoves
  <2>4. CASE ctx.active /\ Step(o, [task[o] EXCEPT !.stage = "close", !.ctx = ctx])
    <3> DEFINE n == [task[o] EXCEPT !.stage = "close", !.ctx = ctx]
    <3>1. n \in TaskType /\ n.stage = "close" /\ n.ctx = ctx
      BY <1>t, <1>o, Zenon DEF TaskType
    <3>2. Step(o, n)
      BY <2>4
    <3> HIDE DEF n
    <3> QED
      BY <1>t, <1>c, <2>1, <2>2, <2>4, <3>1, <3>2, OneCallMoves
  <2> QED
    BY <2>1, <2>3, <2>4
<1>18. ASSUME NEW o \in Owners, ClosePlayback(o) PROVE DInv'
  <2> DEFINE last == task[o].ctx
             x == task[o].explicit
  <2>1. /\ task[o].stage = "close" /\ EditedBy(o) /\ Step(o, NoTask)
        /\ RecordOnlineWatch(last.video, Clamp(last.progress, last.duration), last.duration,
             Completes(Clamp(last.progress, last.duration), last.duration, x))
        /\ UNCHANGED <<video, saved, state, ctx, library, plan, heard, pc>>
    BY <1>2, <1>18, Zenon DEF ClosePlayback
  <2>2. last.video \in Online
    BY <1>0, <2>1 DEF EpisodesInHand
  <2>3. last.progress \in Seconds /\ last.duration \in {0, Length} /\ x \in BOOLEAN
    BY <1>t DEF TaskType, CtxType
  <2>4. Clamp(last.progress, last.duration) = last.progress
    BY <2>3, Clamped
  <2>5. /\ edited' = edited \/ edited' = edited \cup {last.video}
        /\ x => last.video \in edited'
    BY <2>1 DEF EditedBy
  <2> HIDE DEF last, x
  <2> DEFINE c == Completes(last.progress, last.duration, x)
  <2>6. c \in BOOLEAN /\ (c => Near(last.progress, last.duration) \/ last.video \in edited')
    BY <2>3, <2>5, Completing, CompletedNotExplicit, Zenon
  <2>7. RecordOnlineWatch(last.video, last.progress, last.duration, c)
    BY <2>1, <2>4, Zenon
  <2> HIDE DEF c
  <2>8. \E q \in Owners, t \in TaskType : Step(q, t) /\ t.stage \in {"none", "clear"}
    BY <2>1, Blank, Zenon
  <2> QED
    BY <1>t, <2>1, <2>2, <2>3, <2>5, <2>6, <2>7, <2>8, OneRowWritten
<1>19. ASSUME NEW o \in Owners, SaveThumbnail(o) PROVE DInv'
  <2> DEFINE copy == task[o].ctx
  <2>1. /\ task[o].stage = "thumbnail" /\ Step(o, NoTask)
        /\ RecordOnlineWatch(copy.video, copy.progress, copy.duration, task[o].done)
        /\ UNCHANGED <<video, saved, state, ctx, library, plan, heard, edited, pc>>
    BY <1>2, <1>19, Zenon DEF SaveThumbnail
  <2>2. copy.video \in Online
    BY <1>0, <2>1 DEF EpisodesInHand
  <2>3. copy.progress \in Seconds /\ copy.duration \in {0, Length} /\ task[o].done \in BOOLEAN
    BY <1>t DEF TaskType, CtxType
  <2>6. task[o].done => Near(copy.progress, copy.duration) \/ copy.video \in edited'
    BY <2>1 DEF DInv, TasksTellTheTruth
  <2> HIDE DEF copy
  <2>8. \E q \in Owners, t \in TaskType : Step(q, t) /\ t.stage \in {"none", "clear"}
    BY <2>1, Blank, Zenon
  <2> QED
    BY <1>t, <2>1, <2>2, <2>3, <2>6, <2>8, OneRowWritten
<1>20. ASSUME NEW u \in UiCalls, UiCall(u) PROVE DInv'
  <2>1. PICK k \in {"update", "finalize"}, pos \in plan.reports[u], d \in {0, Length},
             x \in BOOLEAN :
          /\ Step(u, [NoTask EXCEPT !.stage = "read", !.kind = k, !.pos = pos, !.dur = d,
                                    !.explicit = x])
          /\ heard' = Heard(ctx.video, pos)
    BY <1>20, Zenon DEF UiCall
  <2>2. UNCHANGED <<video, saved, state, ctx, history, library, plan, edited, pc>>
    BY <1>2, <1>20, Zenon DEF UiCall
  <2>3. pos \in Seconds
    BY <1>0, <1>o, Reports DEF DataTypes
  <2>4. heard' \in [Online -> Seconds]
    BY <1>t, <2>1, <2>3 DEF Heard
  <2> DEFINE n == [NoTask EXCEPT !.stage = "read", !.kind = k, !.pos = pos, !.dur = d,
                                 !.explicit = x]
  <2>5. n \in TaskType /\ n.stage = "read" /\ ~n.done
    BY <2>3, Blank, Zenon DEF TaskType
  <2>6. Step(u, n) /\ u \in Owners
    BY <1>o, <2>1
  <2> HIDE DEF n
  <2> QED
    BY <1>t, <1>c, <2>2, <2>4, <2>5, <2>6, OneCallMoves
<1>21. ASSUME NEW v \in Online, MarkOnlineWatched(v) PROVE DInv'
  <2>1. /\ RecordOnlineWatch(v, 0, 0, TRUE) /\ edited' = edited \cup {v}
        /\ UNCHANGED <<video, saved, state, ctx, task, library, plan, heard, pc>>
    BY <1>2, <1>21, Zenon DEF MarkOnlineWatched
  <2>2. 0 \in Seconds /\ 0 \in {0, Length} /\ v \in edited'
    BY <2>1, ConstantsAssumption DEF Seconds
  <2> QED
    BY <1>t, <2>1, <2>2, OneRowWritten
<1>22. ASSUME NEW v \in Online, RemoveAnimeFromHistory(v) PROVE DInv'
  <2>1. /\ history' = [history EXCEPT ![v] = NoRow] /\ edited' = edited \cup {v}
        /\ UNCHANGED <<video, saved, state, ctx, task, library, plan, heard, pc>>
    BY <1>2, <1>22, Zenon DEF RemoveAnimeFromHistory
  <2>2. DataTypes'
    BY <1>0, <2>1, Blank DEF DataTypes
  <2>3. EpisodesInHand'
    BY <1>0, <2>1, Zenon DEF EpisodesInHand
  <2>4. TasksTellTheTruth'
    BY <2>1 DEF DInv, TasksTellTheTruth
  <2>5. \A w \in Online \ edited' : w \in Online \ edited /\ history'[w] = history[w]
    BY <1>t, <2>1
  <2>6. RowsTellTheTruth'
    BY <2>5 DEF DInv, RowsTellTheTruth
  <2> QED
    BY <2>2, <2>3, <2>4, <2>6 DEF DInv
<1>23. ASSUME NEW v \in Library, MarkLocal(v) PROVE DInv'
  <2>1. /\ \E w \in BOOLEAN : library' = [library EXCEPT ![v] = [progress |-> 0, watched |-> w]]
        /\ UNCHANGED <<video, saved, state, ctx, task, history, plan, heard, edited, pc>>
    BY <1>2, <1>23, Zenon DEF MarkLocal
  <2>2. \A w \in BOOLEAN : [progress |-> 0, watched |-> w] \in LocalType
    BY ConstantsAssumption DEF LocalType, Seconds
  <2>3. library' \in [Library -> LocalType]
    BY <1>t, <2>1, <2>2
  <2> QED
    BY <1>t, <2>1, <2>3, DataAsWas
<1>24. ASSUME NEW u \in UiCalls, NEW v \in Online, ReadThumbnail(u, v) PROVE DInv'
  <2> DEFINE c == [active |-> TRUE, video |-> v, progress |-> history[v].progress,
                   duration |-> history[v].duration]
             n == [NoTask EXCEPT !.stage = "thumbnail", !.done = history[v].completed, !.ctx = c]
  <2>1. /\ Step(u, n)
        /\ UNCHANGED <<video, saved, state, ctx, history, library, plan, heard, edited, pc>>
    BY <1>2, <1>24, Zenon DEF ReadThumbnail
  <2>2. /\ history[v].progress \in Seconds /\ history[v].duration \in {0, Length}
        /\ history[v].completed \in BOOLEAN
    BY <1>t DEF RowType
  <2>3. /\ c \in CtxType /\ c.video = v /\ c.progress = history[v].progress
        /\ c.duration = history[v].duration
    BY <2>2, Zenon DEF CtxType
  <2> HIDE DEF c
  <2>4. /\ n \in TaskType /\ n.stage = "thumbnail" /\ n.done = history[v].completed
        /\ n.ctx = c /\ ~n.explicit
    BY <2>2, <2>3, Blank, Zenon DEF TaskType
  <2> HIDE DEF n
  <2>5. n.done => Near(n.ctx.progress, n.ctx.duration) \/ n.ctx.video \in edited
    BY <2>3, <2>4, Zenon DEF DInv, RowsTellTheTruth
  <2>6. u \in Owners
    BY <1>o
  <2> QED
    BY <1>t, <1>c, <2>1, <2>3, <2>4, <2>5, <2>6, OneCallMoves
<1>25. CASE Shutdown
  <2>1. /\ UNCHANGED <<video, saved, state, ctx, task, history, plan, heard, edited, pc>>
        /\ \/ UNCHANGED library
           \/ state.video \in Library /\ SaveProgress(state.video, state.pos, state.pct)
    BY <1>2, <1>25, Zenon DEF Shutdown
  <2>2. state.pos \in Seconds
    BY <1>t DEF StateType
  <2>3. library' \in [Library -> LocalType]
    BY <1>0, <1>t, <2>1, <2>2, Saving
  <2> QED
    BY <1>t, <2>1, <2>3, DataAsWas
<1> QED
  BY <1>3, <1>4, <1>5, <1>6, <1>7, <1>8, <1>9, <1>10, <1>11, <1>12, <1>13, <1>14, <1>15, <1>16,
     <1>17, <1>18, <1>19, <1>20, <1>21, <1>22, <1>23, <1>24, <1>25
  DEF Next, Open, Opening, Watcher, Messages, Task

LEMMA DataInvariant == Spec => []DInv
<1>1. Init => DInv
  <2> SUFFICES ASSUME Init PROVE DInv
    OBVIOUS
  <2>1. DataTypes
    <3>1. 0 \in Seconds /\ [progress |-> 0, watched |-> FALSE] \in LocalType
      BY ConstantsAssumption DEF Seconds, LocalType
    <3> QED
      BY <3>1, Blank DEF Init, DataTypes
  <2>2. EpisodesInHand /\ TasksTellTheTruth /\ RowsTellTheTruth
    BY Blank DEF Init, EpisodesInHand, TasksTellTheTruth, RowsTellTheTruth
  <2> QED
    BY <2>1, <2>2 DEF DInv
<1>2. IInv => PlayerTypes
  BY DEF IInv
<1> QED
  BY <1>1, <1>2, DataStep, PlayerInvariant, PTL DEF Spec

\* A row is completed only where it holds a position near enough to the end: what
\* a call has computed travels with the position it was computed from.
THEOREM CompletedIsReachedHolds == Spec => []CompletedIsReached
<1>1. DInv => CompletedIsReached
  BY DEF DInv, RowsTellTheTruth, Near, CompletedIsReached
<1> QED
  BY <1>1, DataInvariant, PTL

----------------------------------------------------------------------------
(* Where the event loop of a session is, and the call it makes.            *)

Before == {"idle", "prepared", "current", "candidate", "launched", "dialing", "dialed",
           "returned", "failed"}

LoopFollows(s) ==
  /\ pc[s] \notin {"watching", "draining"} => loop[s] \in {"none", "ended"}
  /\ pc[s] \in Before => loop[s] = "none"
  /\ pc[s] \in {"cleared", "finishing"} => loop[s] = "ended"
  /\ loop[s] \in {"none", "starting", "reading"} => s \notin once
  /\ Busy(s) => /\ loop[s] \in {"reading", "ending"} \/ pc[s] = "finishing"
                /\ task[s].stage # "thumbnail"
                /\ task[s].kind = "finalize" => s \in once
                /\ task[s].stage \in {"clear", "close"} => task[s].kind = "finalize"

LoopsFollow == \A s \in Sessions : LoopFollows(s)

LoopTypes ==
  /\ pc \in [Sessions -> Pcs] /\ once \subseteq Sessions
  /\ loop \in [Sessions -> {"none", "starting", "reading", "ending", "ended"}]
  /\ task \in [Owners -> TaskType]

LEMMA OtherLoop ==
  ASSUME NEW t \in Sessions, LoopFollows(t), pc'[t] = pc[t], loop'[t] = loop[t],
         task'[t] = task[t], t \in once' <=> t \in once
  PROVE  LoopFollows(t)'
BY DEF LoopFollows, Busy

\* The opening goes on, or gives up.
LEMMA EarlyLoop ==
  ASSUME LoopTypes, LoopsFollow, NEW s \in Sessions, pc[s] \in Before,
         NEW at \in Before \cup {"done"}, pc' = [pc EXCEPT ![s] = at],
         UNCHANGED <<loop, task, once>>
  PROVE  LoopsFollow'
<1> SUFFICES ASSUME NEW t \in Sessions PROVE LoopFollows(t)'
  BY Zenon DEF LoopsFollow
<1>1. CASE t = s
  BY <1>1 DEF LoopsFollow, LoopFollows, LoopTypes, Busy, Before
<1>2. CASE t # s
  BY <1>2, OtherLoop DEF LoopsFollow, LoopTypes
<1> QED
  BY <1>1, <1>2

\* A call that goes on stays of its kind.
CallStays(o, t) ==
  \/ t.stage = "none"
  \/ /\ t.kind = task[o].kind /\ t.stage # "thumbnail"
     /\ t.stage \in {"clear", "close"} /\ task[o].stage # "clear" => t.kind = "finalize"

LEMMA CallGoesOn ==
  ASSUME task \in [Owners -> TaskType], NEW o \in Owners, Task(o)
  PROVE  \E t : /\ Step(o, t) /\ Busy(o)
                /\ CallStays(o, t)
<1>1. task[o] \in TaskType
  OBVIOUS
<1>2. CallStays(o, NoTask) /\ CallStays(o, AfterUpdate(o))
  BY <1>1, Blank DEF AfterUpdate, TaskType, CallStays
<1>3. \A p, d, c :
        CallStays(o, [task[o] EXCEPT !.stage = "store", !.pos = p, !.dur = d, !.done = c])
  BY <1>1, Zenon DEF TaskType, CallStays
<1>4. \A c : /\ CallStays(o, [task[o] EXCEPT !.stage = "save", !.ctx = c])
             /\ task[o].stage = "clear" =>
                  CallStays(o, [task[o] EXCEPT !.stage = "close", !.ctx = c])
  BY <1>1, Zenon DEF TaskType, CallStays
<1>5. Busy(o)
  <2>1. \/ task[o].stage = "read" \/ task[o].stage = "store" \/ task[o].stage = "save"
        \/ task[o].stage = "clear" \/ task[o].stage = "close" \/ task[o].stage = "thumbnail"
    BY Zenon DEF Task, ReadPlayback, StorePlayback, SavePlayback, ClearPlayback,
                 ClosePlayback, SaveThumbnail
  <2> QED
    BY <2>1 DEF Busy
<1>6. \/ \E p, d, c :
           Step(o, [task[o] EXCEPT !.stage = "store", !.pos = p, !.dur = d, !.done = c])
      \/ \E c : Step(o, [task[o] EXCEPT !.stage = "save", !.ctx = c])
      \/ /\ task[o].stage = "clear"
         /\ \E c : Step(o, [task[o] EXCEPT !.stage = "close", !.ctx = c])
      \/ Step(o, NoTask) \/ Step(o, AfterUpdate(o))
  BY Zenon DEF Task, ReadPlayback, StorePlayback, SavePlayback, ClearPlayback,
               ClosePlayback, SaveThumbnail
<1>7. \E t : Step(o, t) /\ CallStays(o, t)
  BY <1>2, <1>3, <1>4, <1>6, Zenon
<1> QED
  BY <1>5, <1>7, Zenon

LEMMA LoopStep ==
  ASSUME LoopTypes, LoopsFollow, [Next]_vars PROVE LoopsFollow'
<1> USE DEF opening, ipc, rows, notes
<1>o. Sessions \subseteq Owners /\ UiCalls \subseteq Owners /\ Sessions \cap UiCalls = {}
  BY ConstantsAssumption DEF Owners
<1>same. ASSUME UNCHANGED <<pc, loop, task, once>> PROVE LoopsFollow'
  BY <1>same, Zenon DEF LoopsFollow, LoopFollows, Busy
<1>one. ASSUME NEW s \in Sessions, LoopFollows(s)',
               \A t \in Sessions \ {s} :
                 /\ pc'[t] = pc[t] /\ loop'[t] = loop[t] /\ task'[t] = task[t]
                 /\ t \in once' <=> t \in once
        PROVE  LoopsFollow'
  BY <1>one, OtherLoop DEF LoopsFollow
<1>1. CASE UNCHANGED vars
  BY <1>1, <1>same, Zenon DEF vars
<1> SUFFICES ASSUME Next PROVE LoopsFollow'
  BY <1>1
<1>2. ASSUME NEW s \in Sessions, Open(s) \/ Opening(s) PROVE LoopsFollow'
  <2>1. UNCHANGED <<loop, task, once>>
    BY <1>2, Zenon DEF Open, OpenOnline, OpenLocal, Choose, Opening, SetCurrentOnlinePlayback,
            RecordStart, Launch, WaitForSocket, ConnectIPC, WaitForStableStartup
  <2>2. /\ \/ pc[s] = "idle" \/ pc[s] = "prepared" \/ pc[s] = "current" \/ pc[s] = "candidate"
           \/ pc[s] = "launched" \/ pc[s] = "dialing" \/ pc[s] = "dialed"
        /\ \/ Goto(s, "prepared") \/ Goto(s, "candidate") \/ Goto(s, "current")
           \/ Goto(s, IF api[s] = "integrated" THEN "done" ELSE "candidate")
           \/ Goto(s, "launched") \/ Goto(s, "dialing") \/ Goto(s, "dialed")
           \/ Goto(s, "returned") \/ Goto(s, "failed")
    BY <1>2, Zenon DEF Open, OpenOnline, OpenLocal, Choose, Opening, SetCurrentOnlinePlayback,
            RecordStart, Launch, WaitForSocket, ConnectIPC, WaitForStableStartup, NextCandidate
  <2>3. pc[s] \in Before /\ \E at \in Before \cup {"done"} : pc' = [pc EXCEPT ![s] = at]
    BY <2>2 DEF Before, Goto
  <2> QED
    BY <2>1, <2>3, EarlyLoop
<1>3. ASSUME NEW p, Listen(p) \/ Exit(p) PROVE LoopsFollow'
  BY <1>3, <1>same, Zenon DEF Listen, Exit
<1>4. ASSUME NEW s \in Sessions, Observe(s) PROVE LoopsFollow'
  <2>1. /\ pc[s] = "returned" /\ pc' = [pc EXCEPT ![s] = "watching"]
        /\ loop' = [loop EXCEPT ![s] = "starting"] /\ UNCHANGED <<task, once>>
    BY <1>4, Zenon DEF Observe, Goto
  <2>2. LoopFollows(s)'
    BY <2>1 DEF LoopsFollow, LoopFollows, LoopTypes, Busy, Before
  <2> QED
    BY <2>1, <2>2, <1>one DEF LoopTypes
<1>5. ASSUME NEW s \in Sessions, BeginLoop(s) PROVE LoopsFollow'
  <2>1. /\ loop[s] = "starting" /\ \E l \in {"ended", "reading"} : loop' = [loop EXCEPT ![s] = l]
        /\ UNCHANGED <<pc, task, once>>
    BY <1>5, Zenon DEF BeginLoop
  <2>2. LoopFollows(s)'
    BY <2>1 DEF LoopsFollow, LoopFollows, LoopTypes, Busy, Before
  <2> QED
    BY <2>1, <2>2, <1>one DEF LoopTypes
<1>6. ASSUME NEW s \in Sessions, TimePos(s) PROVE LoopsFollow'
  <2>1. /\ loop[s] = "reading" /\ UNCHANGED <<pc, loop, once>>
        /\ \/ UNCHANGED task
           \/ \E pos \in plan.reports[s] :
                task' = [task EXCEPT ![s] = [NoTask EXCEPT !.stage = "read", !.pos = pos]]
    BY <1>6, Zenon DEF TimePos, Hears
  <2>2. \A pos \in plan.reports[s] :
          LET n == [NoTask EXCEPT !.stage = "read", !.pos = pos]
          IN  n.stage = "read" /\ n.kind = "update"
    BY DEF NoTask
  <2>3. \/ UNCHANGED task
        \/ \E n : /\ task' = [task EXCEPT ![s] = n] /\ n.stage = "read"
                  /\ n.kind = "update"
    BY <2>1, <2>2
  <2>4. LoopFollows(s)'
    BY <1>o, <2>1, <2>3 DEF LoopsFollow, LoopFollows, LoopTypes, Busy, Before
  <2> QED
    BY <1>o, <2>1, <2>3, <2>4, <1>one DEF LoopTypes
<1>7. ASSUME NEW s \in Sessions, OtherProperty(s) \/ ClearState(s) PROVE LoopsFollow'
  <2>1. CASE UNCHANGED <<pc, loop, task, once>>
    BY <2>1, <1>same
  <2>2. CASE /\ pc[s] = "draining" /\ loop[s] = "ended" /\ pc' = [pc EXCEPT ![s] = "cleared"]
             /\ UNCHANGED <<loop, task, once>>
    <3>1. LoopFollows(s)'
      BY <2>2 DEF LoopsFollow, LoopFollows, LoopTypes, Busy, Before
    <3> QED
      BY <2>2, <3>1, <1>one DEF LoopTypes
  <2> QED
    BY <1>7, <2>1, <2>2, Zenon DEF OtherProperty, ClearState, Goto
<1>8. ASSUME NEW s \in Sessions, EndFile(s) PROVE LoopsFollow'
  <2>1. /\ loop[s] = "reading" /\ loop' = [loop EXCEPT ![s] = "ending"] /\ ~Busy(s)
        /\ UNCHANGED pc /\ once' = once \cup {s}
        /\ \/ UNCHANGED task
           \/ task' = [task EXCEPT ![s] = [NoTask EXCEPT !.stage = "read", !.kind = "finalize"]]
    BY <1>8, Zenon DEF EndFile, FinishPlayback
  <2>2. \/ UNCHANGED task
        \/ \E n : task' = [task EXCEPT ![s] = n] /\ n.stage = "read" /\ n.kind = "finalize"
    BY <2>1, NewFinal
  <2>3. LoopFollows(s)'
    <3>1. pc[s] \in {"watching", "draining"} /\ pc'[s] = pc[s] /\ loop'[s] = "ending"
      BY <2>1 DEF LoopsFollow, LoopFollows, LoopTypes
    <3>2. Busy(s)' => task'[s].stage = "read" /\ task'[s].kind = "finalize"
      BY <1>o, <2>1, <2>2 DEF Busy, LoopTypes
    <3> QED
      BY <2>1, <3>1, <3>2 DEF LoopFollows, Before
  <2> QED
    BY <1>o, <2>1, <2>2, <2>3, <1>one DEF LoopTypes
<1>9. ASSUME NEW s \in Sessions, EndLoop(s) PROVE LoopsFollow'
  <2>1. /\ loop[s] \in {"ending", "reading"} /\ loop' = [loop EXCEPT ![s] = "ended"] /\ ~Busy(s)
        /\ UNCHANGED <<pc, task, once>>
    BY <1>9, Zenon DEF EndLoop
  <2>2. LoopFollows(s)'
    BY <2>1 DEF LoopsFollow, LoopFollows, LoopTypes, Busy, Before
  <2> QED
    BY <2>1, <2>2, <1>one DEF LoopTypes
<1>10. ASSUME NEW s \in Sessions, SeeExit(s) PROVE LoopsFollow'
  <2>1. /\ pc[s] = "watching" /\ pc' = [pc EXCEPT ![s] = "draining"]
        /\ UNCHANGED <<loop, task, once>>
    BY <1>10, Zenon DEF SeeExit, Goto
  <2>2. LoopFollows(s)'
    BY <2>1 DEF LoopsFollow, LoopFollows, LoopTypes, Busy, Before
  <2> QED
    BY <2>1, <2>2, <1>one DEF LoopTypes
<1>11. ASSUME NEW s \in Sessions, Finish(s) PROVE LoopsFollow'
  <2>1. /\ pc[s] = "cleared" /\ pc' = [pc EXCEPT ![s] = "finishing"]
        /\ UNCHANGED loop /\ once' = once \cup {s}
        /\ \/ UNCHANGED task
           \/ task' = [task EXCEPT ![s] = [NoTask EXCEPT !.stage = "read", !.kind = "finalize"]]
    BY <1>11, Zenon DEF Finish, FinishPlayback, Goto
  <2>2. \/ UNCHANGED task
        \/ \E n : task' = [task EXCEPT ![s] = n] /\ n.stage = "read" /\ n.kind = "finalize"
    BY <2>1, NewFinal
  <2>3. LoopFollows(s)'
    <3>1. loop[s] = "ended" /\ ~Busy(s) /\ pc'[s] = "finishing" /\ loop'[s] = loop[s]
      BY <2>1 DEF LoopsFollow, LoopFollows, LoopTypes
    <3>2. Busy(s)' => task'[s].stage = "read" /\ task'[s].kind = "finalize"
      BY <1>o, <2>1, <2>2, <3>1 DEF Busy, LoopTypes
    <3> QED
      BY <2>1, <3>1, <3>2 DEF LoopFollows, Before
  <2> QED
    BY <1>o, <2>1, <2>2, <2>3, <1>one DEF LoopTypes
<1>12. ASSUME NEW s \in Sessions, Return(s) PROVE LoopsFollow'
  <2>1. /\ pc[s] = "finishing" /\ pc' = [pc EXCEPT ![s] = "done"] /\ ~Busy(s)
        /\ UNCHANGED <<loop, task, once>>
    BY <1>12, Zenon DEF Return, Goto
  <2>2. LoopFollows(s)'
    BY <2>1 DEF LoopsFollow, LoopFollows, LoopTypes, Busy, Before
  <2> QED
    BY <2>1, <2>2, <1>one DEF LoopTypes
<1>13. ASSUME NEW o \in Owners, Task(o) PROVE LoopsFollow'
  <2>1. UNCHANGED <<pc, loop, once>>
    BY <1>13, Zenon DEF Task, ReadPlayback, StorePlayback, SavePlayback, ClearPlayback,
                        ClosePlayback, SaveThumbnail
  <2>2. PICK t : /\ Step(o, t) /\ Busy(o)
                 /\ CallStays(o, t)
    BY <1>13, CallGoesOn DEF LoopTypes
  <2>3. CASE o \in Sessions
    <3>1. LoopFollows(o)'
      BY <1>o, <2>1, <2>2, <2>3
      DEF LoopsFollow, LoopFollows, LoopTypes, Busy, Before, Step, CallStays
    <3> QED
      BY <1>o, <2>1, <2>2, <2>3, <3>1, <1>one DEF LoopTypes, Step
  <2>4. CASE o \notin Sessions
    BY <1>o, <2>1, <2>2, <2>4, OtherLoop DEF LoopsFollow, LoopTypes, Step
  <2> QED
    BY <2>3, <2>4
<1>14. ASSUME NEW u \in UiCalls, NEW v, UiCall(u) \/ ReadThumbnail(u, v) PROVE LoopsFollow'
  <2>1. UNCHANGED <<pc, loop, once>> /\ \E t : task' = [task EXCEPT ![u] = t]
    BY <1>14, Zenon DEF UiCall, ReadThumbnail, Step
  <2> QED
    BY <1>o, <2>1, OtherLoop DEF LoopsFollow, LoopTypes
<1>15. ASSUME NEW v, MarkOnlineWatched(v) \/ RemoveAnimeFromHistory(v) \/ MarkLocal(v)
       PROVE  LoopsFollow'
  BY <1>15, <1>same, Zenon DEF MarkOnlineWatched, RemoveAnimeFromHistory, MarkLocal
<1>16. CASE Shutdown
  BY <1>16, <1>same, Zenon DEF Shutdown
<1> QED
  BY <1>2, <1>3, <1>4, <1>5, <1>6, <1>7, <1>8, <1>9, <1>10, <1>11, <1>12, <1>13, <1>14, <1>15,
     <1>16
  DEF Next, Watcher, Messages

LEMMA LoopInvariant == Spec => [](LoopTypes /\ LoopsFollow)
<1>1. Init => LoopsFollow
  BY Blank DEF Init, LoopsFollow, LoopFollows, Busy, Before, Owners
<1>2. IInv /\ IpcTypes /\ DInv => LoopTypes
  BY DEF IInv, PlayerTypes, IpcTypes, DInv, DataTypes, LoopTypes
<1> QED
  BY <1>1, <1>2, LoopStep, PlayerInvariant, IpcTyped, DataInvariant, PTL DEF Spec

----------------------------------------------------------------------------
(* Positions, while openings and calls do not overlap.                     *)

Opens == {"candidate", "launched", "dialing", "dialed"}
Plays == {"returned", "watching", "draining"}

OneAtATime ==
  /\ \A s, t \in Sessions : ~AtRest(s) /\ ~AtRest(t) => s = t
  /\ \A o, q \in Owners : Reporting(o) /\ Reporting(q) => o = q
  /\ \A s \in Sessions, u \in UiCalls : ~AtRest(s) => ~Reporting(u)

\* The playback is the episode of the session that is at work.
Ours(s) ==
  /\ ctx.active => video[s] \in Online /\ ctx.video = video[s]
  /\ pc[s] = "prepared" => ~ctx.active
  /\ pc[s] # "prepared" /\ s \notin once /\ video[s] \in Online => ctx.active
  /\ pc[s] = "current" => ctx.progress = StartAt(s)
  /\ pc[s] \in Opens /\ video[s] \in Online => heard[video[s]] = StartAt(s)

ContextIsOurs == \A s \in Sessions : ~AtRest(s) => Ours(s)

\* What mpv's state tells has been reported.
StateIsHeard ==
  state.pos > 0 =>
    \E s \in Sessions : /\ pc[s] \in Plays
                        /\ video[s] \in Online => state.pos = heard[video[s]]

\* A call that is about to write a position into the playback, or into the row.
Bears(o)   == task[o].stage = "store" \/ (task[o].stage = "read" /\ task[o].pos > 0)
Pending(v) == /\ ctx.active /\ ctx.video = v
              /\ \E o \in Owners : Bears(o) \/ task[o].stage = "save"

ContextIsHeard ==
  ctx.active => \/ \E s \in Sessions : pc[s] = "current"
                \/ \E o \in Owners : Bears(o)
                \/ ctx.progress = heard[ctx.video]

BearsWhatWasHeard(o) ==
  /\ Bears(o) /\ ctx.active => task[o].pos = heard[ctx.video]
  /\ task[o].stage = "store" => ctx.active
  /\ task[o].stage = "save" => /\ ctx.active /\ task[o].ctx.video = ctx.video
                               /\ task[o].ctx.progress = heard[ctx.video]
  /\ task[o].stage = "close" => task[o].ctx.progress = heard[task[o].ctx.video]

TasksBearWhatWasHeard == \A o \in Owners : BearsWhatWasHeard(o)

RowsAreHeard ==
  \A v \in Online \ edited : history[v].progress = heard[v] \/ Pending(v)

Positions ==
  /\ OneAtATime /\ ContextIsOurs /\ StateIsHeard /\ ContextIsHeard
  /\ TasksBearWhatWasHeard /\ RowsAreHeard

NobodyReports == \A o \in Owners : ~Reporting(o)

LEMMA ReportingStages ==
  ASSUME NEW o
  PROVE  /\ task[o].stage \in {"read", "store", "save", "clear", "close"} => Reporting(o)
         /\ Bears(o) => Reporting(o)
         /\ Reporting(o) => Busy(o)
BY DEF Reporting, Busy, Bears

\* A session that is at work and makes no call is the only one at work.
LEMMA Alone ==
  ASSUME OneAtATime, LoopsFollow, NEW s \in Sessions, ~AtRest(s)
  PROVE  /\ \A t \in Sessions \ {s} : AtRest(t) /\ ~Busy(t)
         /\ ~Busy(s) => NobodyReports
<1>1. \A t \in Sessions : AtRest(t) => ~Busy(t)
  BY DEF LoopsFollow, LoopFollows, AtRest
<1>2. \A t \in Sessions \ {s} : AtRest(t) /\ ~Busy(t)
  BY <1>1 DEF OneAtATime
<1>3. ASSUME ~Busy(s), NEW o \in Owners PROVE ~Reporting(o)
  <2>1. CASE o \in Sessions
    BY <1>2, <1>3, <2>1, ReportingStages
  <2>2. CASE o \in UiCalls
    BY <2>2 DEF OneAtATime
  <2> QED
    BY <2>1, <2>2 DEF Owners
<1> QED
  BY <1>2, <1>3 DEF NobodyReports

\* Nobody reports, before and after: the rows hold what was heard.
LEMMA QuietRows ==
  ASSUME Positions, NobodyReports, UNCHANGED <<heard, task, history, edited>>
  PROVE  TasksBearWhatWasHeard' /\ RowsAreHeard' /\ NobodyReports'
<1>1. \A o \in Owners : ~Bears(o) /\ task[o].stage \notin {"store", "save", "close"}
  BY ReportingStages DEF NobodyReports
<1>2. TasksBearWhatWasHeard'
  BY <1>1 DEF TasksBearWhatWasHeard, BearsWhatWasHeard, Bears
<1>3. RowsAreHeard'
  BY <1>1, Zenon DEF Positions, RowsAreHeard, Pending
<1>4. NobodyReports'
  BY Zenon DEF NobodyReports, Reporting, Busy
<1> QED
  BY <1>2, <1>3, <1>4

\* s moves alone and nobody reports; the rest is told by the step.
LEMMA AloneMoves ==
  ASSUME LoopTypes, Positions, LoopsFollow, NEW s \in Sessions,
         ~AtRest(s) \/ \A t \in Sessions : AtRest(t), NobodyReports,
         NEW at \in Pcs, pc' = [pc EXCEPT ![s] = at],
         UNCHANGED <<heard, task, history, edited>>,
         at \notin {"idle", "done", "failed"} => Ours(s)',
         ctx' = ctx \/ ~ctx'.active \/ at = "current",
         pc[s] = "current" => ~ctx'.active \/ ctx'.progress = heard'[ctx'.video],
         state'.pos > 0 =>
           \/ /\ at \in Plays
              /\ video'[s] \in Online => state'.pos = heard[video'[s]]
           \/ /\ pc[s] \notin Plays \/ at \in Plays
              /\ state'.pos = state.pos /\ UNCHANGED video
  PROVE  Positions'
<1>1. \A t \in Sessions \ {s} : AtRest(t) /\ AtRest(t)' /\ pc'[t] = pc[t]
  BY Alone DEF Positions, LoopTypes, AtRest
<1>2. TasksBearWhatWasHeard' /\ RowsAreHeard' /\ NobodyReports'
  BY QuietRows
<1>3. OneAtATime'
  BY <1>1, <1>2 DEF OneAtATime, NobodyReports, AtRest, Reporting, Busy, Owners
<1>4. ContextIsOurs'
  BY <1>1 DEF ContextIsOurs, AtRest, LoopTypes
<1>5. StateIsHeard'
  BY <1>1 DEF Positions, StateIsHeard, LoopTypes
<1>6. ContextIsHeard'
  <2> SUFFICES ASSUME ctx'.active, at # "current" PROVE ctx'.progress = heard'[ctx'.video]
    BY DEF ContextIsHeard, LoopTypes
  <2>1. ctx' = ctx
    OBVIOUS
  <2>2. \A o \in Owners : ~Bears(o)
    BY ReportingStages DEF NobodyReports
  <2>3. CASE pc[s] = "current"
    BY <2>3
  <2>4. CASE pc[s] # "current"
    BY <1>1, <2>1, <2>2, <2>4 DEF Positions, ContextIsHeard, AtRest
  <2> QED
    BY <2>3, <2>4
<1> QED
  BY <1>2, <1>3, <1>4, <1>5, <1>6 DEF Positions

\* Nothing moves that positions depend on.
LEMMA PositionsStay ==
  ASSUME Positions,
         UNCHANGED <<pc, video, saved, ctx, once, heard, task, history, edited>>,
         state'.pos = state.pos
  PROVE  Positions'
<1>1. OneAtATime' /\ ContextIsOurs'
  BY Zenon DEF Positions, OneAtATime, ContextIsOurs, Ours, StartAt, AtRest, Reporting, Busy
<1>2. StateIsHeard'
  BY DEF Positions, StateIsHeard
<1>3. ContextIsHeard' /\ TasksBearWhatWasHeard' /\ RowsAreHeard'
  BY Zenon DEF Positions, ContextIsHeard, TasksBearWhatWasHeard, BearsWhatWasHeard, Bears,
               RowsAreHeard, Pending
<1> QED
  BY <1>1, <1>2, <1>3 DEF Positions

Ready == LoopTypes /\ LoopsFollow /\ DataTypes /\ EpisodesInHand /\ Positions

LEMMA EarlyIsQuiet ==
  ASSUME Ready, NEW s \in Sessions, pc[s] \in Before \cup {"cleared"}
  PROVE  ~Busy(s) /\ (pc[s] \in Before => s \notin once)
BY DEF Ready, LoopsFollow, LoopFollows, Before

LEMMA OpenPositions ==
  ASSUME Ready, NEW s \in Sessions, Open(s), ~mixed' PROVE Positions'
<1> USE DEF opening, ipc, rows, notes
<1>1. /\ pc[s] = "idle" /\ Calm
      /\ UNCHANGED <<state, ctx, once, heard, task, history, edited>>
  BY Zenon DEF Open, OpenOnline, OpenLocal, Choose
<1>2. \/ pc' = [pc EXCEPT ![s] = "prepared"]
      \/ /\ pc' = [pc EXCEPT ![s] = "candidate"]
         /\ \E v \in Library \cup Files : video' = [video EXCEPT ![s] = v]
  BY Zenon DEF Open, OpenOnline, OpenLocal, Choose, Goto
<1>3. NobodyReports /\ ~ctx.active /\ \A t \in Sessions : AtRest(t)
  BY <1>1 DEF Calm, NobodyReports
<1>4. state.pos \in Seconds /\ ~(state.pos > 0)
  BY <1>3 DEF Ready, Positions, StateIsHeard, AtRest, Plays, DataTypes, StateType
<1>5. CASE pc' = [pc EXCEPT ![s] = "prepared"]
  <2>1. Ours(s)'
    BY <1>1, <1>3, <1>5 DEF Ours, Opens, Ready, LoopTypes
  <2> QED
    BY <1>1, <1>3, <1>4, <1>5, <2>1, AloneMoves DEF Ready, Pcs
<1>6. CASE /\ pc' = [pc EXCEPT ![s] = "candidate"]
           /\ \E v \in Library \cup Files : video' = [video EXCEPT ![s] = v]
  <2>1. video'[s] \notin Online
    BY <1>6, ConstantsAssumption DEF Ready, DataTypes
  <2>2. Ours(s)'
    BY <1>1, <1>3, <1>6, <2>1 DEF Ours, Ready, LoopTypes
  <2> QED
    BY <1>1, <1>3, <1>4, <1>6, <2>2, AloneMoves DEF Ready, Pcs, Waiting
<1> QED
  BY <1>2, <1>5, <1>6

LEMMA EarlyPositions ==
  ASSUME Ready, NEW s \in Sessions, SetCurrentOnlinePlayback(s) PROVE Positions'
<1> USE DEF opening, ipc, rows, notes
<1> DEFINE c == [active |-> TRUE, video |-> video[s], progress |-> StartAt(s),
                 duration |-> saved[s].duration]
<1>1. /\ pc[s] = "prepared" /\ ctx' = c /\ pc' = [pc EXCEPT ![s] = "current"]
      /\ UNCHANGED <<video, saved, state, once, heard, task, history, edited>>
  BY Zenon DEF SetCurrentOnlinePlayback, Goto
<1>2. c.active /\ c.video = video[s] /\ c.progress = StartAt(s)
  BY Zenon
<1> HIDE DEF c
<1>3. ~AtRest(s) /\ ~Busy(s) /\ video[s] \in Online
  BY <1>1, EarlyIsQuiet DEF AtRest, Ready, EpisodesInHand, Before
<1>4. NobodyReports
  BY <1>3, Alone DEF Ready, Positions
<1>5. Ours(s)'
  BY <1>1, <1>2, <1>3 DEF Ours, Opens, Ready, LoopTypes, StartAt
<1> QED
  BY <1>1, <1>3, <1>4, <1>5, AloneMoves DEF Ready, Pcs, Plays

\* A session before its mpv runs has the playback for itself.
LEMMA RecordPositions ==
  ASSUME Ready, NEW s \in Sessions, RecordStart(s) PROVE Positions'
<1> USE DEF opening, ipc, rows, notes
<1>1. /\ pc[s] = "current" /\ RecordOnlineWatch(video[s], StartAt(s), saved[s].duration, FALSE)
      /\ heard' = [heard EXCEPT ![video[s]] = StartAt(s)]
      /\ pc' = [pc EXCEPT ![s] = IF api[s] = "integrated" THEN "done" ELSE "candidate"]
      /\ UNCHANGED <<video, saved, state, once, ctx, task, edited>>
  BY Zenon DEF RecordStart, Goto
<1>2. /\ ~AtRest(s) /\ ~Busy(s) /\ s \notin once /\ video[s] \in Online
      /\ StartAt(s) \in Seconds /\ saved[s].duration \in {0, Length}
  BY <1>1, EarlyIsQuiet, Starting DEF AtRest, Ready, EpisodesInHand, Before
<1>3. NobodyReports /\ \A t \in Sessions \ {s} : AtRest(t)
  BY <1>2, Alone DEF Ready, Positions
<1>4. \A o \in Owners : ~Bears(o) /\ task[o].stage \notin {"store", "save", "close"}
  BY <1>3, ReportingStages DEF NobodyReports
<1>5. /\ history'[video[s]].progress = StartAt(s)
      /\ \A w \in Online \ {video[s]} : history'[w] = history[w]
  <2> DEFINE no == FALSE
  <2>1. /\ history \in [Online -> RowType] /\ no \in BOOLEAN
        /\ RecordOnlineWatch(video[s], StartAt(s), saved[s].duration, no)
    BY <1>1 DEF Ready, DataTypes
  <2> HIDE DEF no
  <2> QED
    BY <1>2, <2>1, Recording
<1>6. ctx.active /\ ctx.video = video[s] /\ ctx.progress = StartAt(s)
  BY <1>1, <1>2 DEF Ready, Positions, ContextIsOurs, Ours
<1>7. \A t \in Sessions \ {s} : AtRest(t)' /\ pc'[t] = pc[t]
  BY <1>1, <1>3 DEF AtRest, Ready, LoopTypes
<1>8. OneAtATime'
  BY <1>1, <1>3, <1>7 DEF OneAtATime, NobodyReports, AtRest, Reporting, Busy, Owners
<1>9. Ours(s)' \/ AtRest(s)'
  BY <1>1, <1>2, <1>6 DEF Ours, Ready, LoopTypes, StartAt, AtRest, DataTypes
<1>10. ContextIsOurs'
  BY <1>7, <1>9 DEF ContextIsOurs
<1>11. StateIsHeard'
  BY <1>1, <1>3 DEF StateIsHeard, Ready, Positions, Plays, AtRest
<1>12. ContextIsHeard'
  BY <1>1, <1>2, <1>6 DEF ContextIsHeard, Ready, DataTypes
<1>13. TasksBearWhatWasHeard'
  BY <1>1, <1>4 DEF TasksBearWhatWasHeard, BearsWhatWasHeard, Bears
<1>14. RowsAreHeard'
  <2> SUFFICES ASSUME NEW v \in Online \ edited' PROVE history'[v].progress = heard'[v]
    BY DEF RowsAreHeard
  <2>1. CASE v = video[s]
    BY <1>1, <1>2, <1>5, <2>1 DEF Ready, DataTypes
  <2>2. CASE v # video[s]
    <3>1. history[v].progress = heard[v]
      BY <1>1, <1>4 DEF Ready, Positions, RowsAreHeard, Pending
    <3> QED
      BY <1>1, <1>5, <2>2, <3>1 DEF Ready, DataTypes
  <2> QED
    BY <2>1, <2>2
<1> QED
  BY <1>8, <1>10, <1>11, <1>12, <1>13, <1>14 DEF Positions

\* OpenEpisode: on to the next step, on to the next candidate, or given up.
LEMMA MpvPositions ==
  ASSUME Ready, NEW s \in Sessions,
         Launch(s) \/ WaitForSocket(s) \/ ConnectIPC(s) \/ WaitForStableStartup(s)
  PROVE  Positions'
<1> USE DEF opening, ipc, rows, notes
<1>1. /\ UNCHANGED <<video, saved, once, heard, task, history, edited>>
      /\ \/ pc[s] = "candidate" \/ pc[s] = "launched" \/ pc[s] = "dialing" \/ pc[s] = "dialed"
      /\ \/ /\ UNCHANGED <<ctx, state>>
            /\ Goto(s, "launched") \/ Goto(s, "dialing") \/ Goto(s, "dialed")
         \/ UNCHANGED state /\ NextCandidate(s)
         \/ /\ UNCHANGED ctx /\ Goto(s, "returned")
            /\ state' = [state EXCEPT !.active = TRUE, !.video = video[s], !.pos = StartAt(s)]
  BY Zenon DEF Launch, WaitForSocket, ConnectIPC, WaitForStableStartup
<1>2. pc[s] \in Opens /\ ~AtRest(s) /\ ~Busy(s) /\ s \notin once
  BY <1>1, EarlyIsQuiet DEF AtRest, Before, Opens
<1>3. NobodyReports /\ Ours(s)
  BY <1>2, Alone DEF Ready, Positions, ContextIsOurs
<1>4. PICK at \in Pcs :
        /\ pc' = [pc EXCEPT ![s] = at]
        /\ \/ /\ UNCHANGED <<ctx, state>> /\ at \in Opens
           \/ UNCHANGED state /\ at = "failed" /\ (ctx' = ctx \/ ctx' = NoCtx)
           \/ /\ UNCHANGED ctx /\ at = "returned"
              /\ state' = [state EXCEPT !.active = TRUE, !.video = video[s], !.pos = StartAt(s)]
  BY <1>1 DEF Goto, NextCandidate, Opens, Pcs, Waiting
<1>5. CASE UNCHANGED <<ctx, state>> /\ at \in Opens
  <2>1. Ours(s)'
    BY <1>1, <1>2, <1>3, <1>4, <1>5 DEF Ours, Opens, StartAt, Ready, LoopTypes
  <2> QED
    BY <1>1, <1>2, <1>3, <1>4, <1>5, <2>1, AloneMoves DEF Ready, Opens, Plays
<1>6. CASE UNCHANGED state /\ at = "failed" /\ (ctx' = ctx \/ ctx' = NoCtx)
  BY <1>1, <1>2, <1>3, <1>4, <1>6, AloneMoves, Blank DEF Ready, Opens, Plays
<1>7. CASE /\ UNCHANGED ctx /\ at = "returned"
           /\ state' = [state EXCEPT !.active = TRUE, !.video = video[s], !.pos = StartAt(s)]
  <2>1. Ours(s)'
    BY <1>1, <1>2, <1>3, <1>4, <1>7 DEF Ours, Opens, StartAt, Ready, LoopTypes
  <2>2. state'.pos = StartAt(s)
    BY <1>7 DEF Ready, DataTypes, StateType
  <2>3. video'[s] \in Online => state'.pos = heard[video'[s]]
    BY <1>1, <1>2, <1>3, <2>2 DEF Ours
  <2> QED
    BY <1>1, <1>2, <1>3, <1>4, <1>7, <2>1, <2>3, AloneMoves DEF Ready, Opens, Plays
<1> QED
  BY <1>4, <1>5, <1>6, <1>7

\* The watcher and the loop, where they report nothing.
LEMMA WatcherPositions ==
  ASSUME Ready, NEW s \in Sessions,
         \/ Observe(s) \/ SeeExit(s) \/ ClearState(s) \/ Return(s) \/ BeginLoop(s)
         \/ EndLoop(s) \/ OtherProperty(s)
  PROVE  Positions'
<1> USE DEF opening, ipc, rows, notes
<1>1. /\ UNCHANGED <<video, saved, ctx, once, heard, task, history, edited>>
      /\ \/ UNCHANGED pc /\ UNCHANGED state
         \/ UNCHANGED pc /\ \/ state' = [state EXCEPT !.dur = Length]
                            \/ state' = [state EXCEPT !.pct = state.pos]
         \/ UNCHANGED state /\ pc[s] = "returned" /\ Goto(s, "watching")
         \/ UNCHANGED state /\ pc[s] = "watching" /\ Goto(s, "draining")
         \/ state' = Stopped /\ pc[s] = "draining" /\ loop[s] = "ended" /\ Goto(s, "cleared")
         \/ UNCHANGED state /\ pc[s] = "finishing" /\ ~Busy(s) /\ Goto(s, "done")
  BY Zenon DEF Observe, SeeExit, ClearState, Return, BeginLoop, EndLoop, OtherProperty
<1>2. CASE /\ UNCHANGED pc
           /\ \/ UNCHANGED state \/ state' = [state EXCEPT !.dur = Length]
              \/ state' = [state EXCEPT !.pct = state.pos]
  <2>1. state'.pos = state.pos
    BY <1>2 DEF Ready, DataTypes, StateType
  <2> QED
    BY <1>1, <1>2, <2>1, PositionsStay DEF Ready
<1>3. CASE /\ UNCHANGED state
           /\ \/ pc[s] = "returned" /\ Goto(s, "watching")
              \/ pc[s] = "watching" /\ Goto(s, "draining")
  <2>1. PICK at \in Plays : pc' = [pc EXCEPT ![s] = at]
    BY <1>3 DEF Goto, Plays
  <2>2. /\ pc[s] \in Plays /\ Ours(s) /\ ~AtRest(s)
        /\ \A t \in Sessions \ {s} : pc'[t] = pc[t]
    BY <1>3, <2>1 DEF Ready, Positions, ContextIsOurs, Plays, AtRest, LoopTypes
  <2>3. Ours(s)' /\ ~AtRest(s)' /\ pc'[s] \in Plays /\ pc'[s] # "current"
    BY <1>1, <1>3, <2>1, <2>2 DEF Ours, Plays, Opens, Ready, LoopTypes, AtRest, StartAt
  <2>4. \A t \in Sessions : AtRest(t)' <=> AtRest(t)
    BY <2>2, <2>3 DEF AtRest
  <2>5. OneAtATime'
    BY <1>1, <2>4, Zenon DEF Ready, Positions, OneAtATime, Reporting, Busy
  <2>6. ContextIsOurs'
    <3> SUFFICES ASSUME NEW t \in Sessions, ~AtRest(t)' PROVE Ours(t)'
      BY DEF ContextIsOurs
    <3>1. CASE t = s
      BY <2>3, <3>1
    <3>2. CASE t # s
      BY <2>2, <2>4, <3>2 DEF Ready, Positions, OneAtATime
    <3> QED
      BY <3>1, <3>2
  <2>7. StateIsHeard'
    BY <1>1, <1>3, <2>2, <2>3 DEF Ready, Positions, StateIsHeard
  <2>8. ContextIsHeard'
    BY <1>1, <2>1, <2>2 DEF Ready, Positions, ContextIsHeard, Bears, Plays
  <2>9. TasksBearWhatWasHeard' /\ RowsAreHeard'
    BY <1>1, Zenon DEF Ready, Positions, TasksBearWhatWasHeard, BearsWhatWasHeard, Bears,
                       RowsAreHeard, Pending
  <2> QED
    BY <2>5, <2>6, <2>7, <2>8, <2>9 DEF Positions
<1>4. CASE state' = Stopped /\ pc[s] = "draining" /\ loop[s] = "ended" /\ Goto(s, "cleared")
  <2>1. ~AtRest(s) /\ ~Busy(s)
    BY <1>4 DEF AtRest, Ready, LoopsFollow, LoopFollows
  <2>2. NobodyReports /\ Ours(s)
    BY <2>1, Alone DEF Ready, Positions, ContextIsOurs
  <2>3. Ours(s)'
    BY <1>1, <1>4, <2>2 DEF Ours, Opens, Ready, LoopTypes, Goto
  <2>4. pc' = [pc EXCEPT ![s] = "cleared"] /\ ~(state'.pos > 0)
    BY <1>4, Blank DEF Goto
  <2>5. "cleared" \in Pcs /\ UNCHANGED <<ctx, heard, task, history, edited>> /\ pc[s] # "current"
    BY <1>1, <1>4 DEF Pcs
  <2> QED
    BY <2>1, <2>2, <2>3, <2>4, <2>5, AloneMoves DEF Ready
<1>5. CASE UNCHANGED state /\ pc[s] = "finishing" /\ ~Busy(s) /\ Goto(s, "done")
  <2>1. ~AtRest(s) /\ NobodyReports
    BY <1>5, Alone DEF AtRest, Ready, Positions
  <2>2. pc' = [pc EXCEPT ![s] = "done"]
    BY <1>5 DEF Goto
  <2> QED
    BY <1>1, <1>5, <2>1, <2>2, AloneMoves DEF Ready, Pcs, Plays
<1> QED
  BY <1>1, <1>2, <1>3, <1>4, <1>5

\* The only call under way: what it will be told is all there is to tell.
LEMMA OnlyReporter ==
  ASSUME Positions, NEW o \in Owners, Reporting(o), NEW q \in Owners, q # o
  PROVE  /\ ~Reporting(q) /\ ~Bears(q)
         /\ task[q].stage \notin {"read", "store", "save", "clear", "close"}
BY ReportingStages DEF Positions, OneAtATime

\* FinishPlayback: a call that brings no position.
LEMMA FinishPositions ==
  ASSUME Ready, NEW s \in Sessions, EndFile(s) \/ Finish(s)
  PROVE  Positions'
<1> USE DEF opening, ipc, rows, notes
<1>1. /\ FinishPlayback(s) /\ UNCHANGED <<video, saved, state, ctx, heard, history, edited>>
      /\ \/ UNCHANGED pc /\ loop[s] = "reading" /\ ~Busy(s)
         \/ pc[s] = "cleared" /\ pc' = [pc EXCEPT ![s] = "finishing"]
      /\ once' = once \cup {s}
  BY Zenon DEF EndFile, Finish, Goto, FinishPlayback
<1>2. ~AtRest(s) /\ ~Busy(s) /\ ~AtRest(s)' /\ (pc'[s] = pc[s] \/ pc[s] = "cleared")
  BY <1>1, EarlyIsQuiet DEF AtRest, Ready, LoopsFollow, LoopFollows, LoopTypes
<1>3. /\ NobodyReports /\ Ours(s)
      /\ \A t \in Sessions \ {s} : AtRest(t) /\ AtRest(t)' /\ pc'[t] = pc[t]
  BY <1>1, <1>2, Alone DEF Ready, Positions, ContextIsOurs, AtRest, LoopTypes
<1>4. \/ UNCHANGED task
      \/ \E n : /\ task' = [task EXCEPT ![s] = n] /\ n.stage = "read" /\ n.pos = 0
  <2>1. \/ UNCHANGED task
        \/ Step(s, [NoTask EXCEPT !.stage = "read", !.kind = "finalize"])
    BY <1>1, FinishingData DEF Ready
  <2> QED
    BY <2>1, NewFinal DEF Step
<1>5. s \in Owners /\ \A u \in UiCalls : u \in Owners /\ u # s
  BY ConstantsAssumption DEF Owners
<1>6. \A q \in Owners : q # s => task'[q] = task[q] /\ ~Reporting(q)'
  BY <1>3, <1>4, <1>5 DEF NobodyReports, Reporting, Busy, Ready, LoopTypes
<1>7. \A q \in Owners : /\ ~Bears(q)'
                        /\ task'[q].stage \notin {"store", "save", "close"}
                        /\ ~Bears(q) /\ task[q].stage \notin {"store", "save", "close"}
  <2>1. \A q \in Owners : ~Bears(q) /\ task[q].stage \notin {"store", "save", "close"}
    BY <1>3, ReportingStages DEF NobodyReports
  <2>2. ~Bears(s)' /\ task'[s].stage \notin {"store", "save", "close"}
    BY <1>4, <1>5, <2>1 DEF Bears, Ready, LoopTypes
  <2> QED
    BY <1>6, <2>1, <2>2 DEF Bears
<1>8. OneAtATime'
  BY <1>3, <1>5, <1>6 DEF OneAtATime
<1>9. Ours(s)'
  BY <1>1, <1>2, <1>3 DEF Ours, Opens, StartAt, AtRest, Ready, LoopTypes
<1>10. ContextIsOurs'
  BY <1>3, <1>9 DEF ContextIsOurs
<1>11. StateIsHeard'
  BY <1>1, <1>2, <1>3 DEF StateIsHeard, Ready, Positions, Plays
<1>12. ContextIsHeard'
  <2> SUFFICES ASSUME ctx.active, \A t \in Sessions : pc'[t] # "current"
               PROVE  ctx.progress = heard[ctx.video]
    BY <1>1, Zenon DEF ContextIsHeard
  <2>1. \A t \in Sessions : pc[t] # "current"
    BY <1>2, <1>3 DEF AtRest
  <2> QED
    BY <1>7, <2>1 DEF Ready, Positions, ContextIsHeard
<1>13. TasksBearWhatWasHeard'
  BY <1>7, Zenon DEF TasksBearWhatWasHeard, BearsWhatWasHeard
<1>14. RowsAreHeard'
  BY <1>1, <1>7, Zenon DEF Ready, Positions, RowsAreHeard, Pending
<1> QED
  BY <1>8, <1>10, <1>11, <1>12, <1>13, <1>14 DEF Positions

\* time-pos: mpv tells a position.
LEMMA TimePosPositions ==
  ASSUME Ready, NEW s \in Sessions, TimePos(s) PROVE Positions'
<1> USE DEF opening, ipc, rows, notes
<1>1. PICK pos \in plan.reports[s] :
        /\ state' = [state EXCEPT !.pos = pos]
        /\ \/ /\ video[s] \in Library /\ UNCHANGED <<task, heard>>
           \/ /\ video[s] \notin Library
              /\ task' = [task EXCEPT ![s] = [NoTask EXCEPT !.stage = "read", !.pos = pos]]
              /\ heard' = Heard(video[s], pos)
  BY Zenon DEF TimePos
<1>2. /\ loop[s] = "reading" /\ ~Busy(s)
      /\ UNCHANGED <<pc, video, saved, ctx, once, history, edited>>
  BY Zenon DEF TimePos, Hears
<1>3. pos \in Seconds /\ s \in Owners /\ \A u \in UiCalls : u \in Owners /\ u # s
  BY Reports, ConstantsAssumption DEF Ready, DataTypes, Owners
<1>4. /\ pc[s] \in Plays /\ ~AtRest(s) /\ s \notin once /\ pc[s] \notin {"prepared", "current"}
  BY <1>2 DEF Ready, LoopsFollow, LoopFollows, Plays, AtRest
<1>5. /\ NobodyReports /\ Ours(s) /\ \A t \in Sessions \ {s} : AtRest(t)
  BY <1>2, <1>4, Alone DEF Ready, Positions, ContextIsOurs
<1>6. state'.pos = pos
  BY <1>1 DEF Ready, DataTypes, StateType
<1>7. CASE video[s] \in Library /\ UNCHANGED <<task, heard>>
  <2>1. video[s] \notin Online
    BY <1>7, ConstantsAssumption
  <2>2. StateIsHeard'
    BY <1>2, <1>4, <2>1 DEF StateIsHeard
  <2>3. OneAtATime' /\ ContextIsOurs'
    BY <1>2, <1>7, Zenon DEF Ready, Positions, OneAtATime, ContextIsOurs, Ours, StartAt, AtRest,
                             Reporting, Busy
  <2>4. ContextIsHeard' /\ TasksBearWhatWasHeard' /\ RowsAreHeard'
    BY <1>2, <1>7, Zenon DEF Ready, Positions, ContextIsHeard, TasksBearWhatWasHeard,
                             BearsWhatWasHeard, Bears, RowsAreHeard, Pending
  <2> QED
    BY <2>2, <2>3, <2>4 DEF Positions
<1>8. CASE /\ video[s] \notin Library
           /\ task' = [task EXCEPT ![s] = [NoTask EXCEPT !.stage = "read", !.pos = pos]]
           /\ heard' = Heard(video[s], pos)
  <2>1. PICK n : task' = [task EXCEPT ![s] = n] /\ n.stage = "read" /\ n.pos = pos
    BY <1>3, <1>8, NewReport, Zenon
  <2>2. /\ task'[s] = n
        /\ \A q \in Owners : q # s => task'[q] = task[q] /\ ~Reporting(q)'
    BY <1>3, <1>5, <2>1 DEF NobodyReports, Reporting, Busy, Ready, LoopTypes
  <2>3. \A q \in Owners : ~Bears(q) /\ task[q].stage \notin {"store", "save", "close"}
    BY <1>5, ReportingStages DEF NobodyReports
  <2>4. /\ \A q \in Owners : task'[q].stage \notin {"store", "save", "close"}
        /\ \A q \in Owners : q # s => ~Bears(q)'
        /\ Bears(s)' <=> pos > 0
    BY <2>1, <2>2, <2>3 DEF Bears
  <2>5. OneAtATime'
    BY <1>2, <1>3, <1>5, <2>2 DEF OneAtATime, AtRest
  <2>6. \/ /\ video[s] \in Online /\ pos > 0 /\ ctx.active /\ ctx.video = video[s]
           /\ heard' = [heard EXCEPT ![video[s]] = pos]
        \/ UNCHANGED heard /\ (pos > 0 => video[s] \notin Online /\ ~ctx.active)
    BY <1>3, <1>4, <1>5, <1>8 DEF Heard, Ours
  <2>7. Ours(s)'
    BY <1>2, <1>4, <1>5 DEF Ours, Plays, Opens
  <2>8. ContextIsOurs'
    BY <1>2, <1>5, <2>7 DEF ContextIsOurs, AtRest
  <2>9. StateIsHeard'
    BY <1>2, <1>4, <1>6, <2>6 DEF StateIsHeard, Ready, DataTypes
  <2>10. ContextIsHeard'
    <3>1. CASE pos > 0
      BY <1>3, <2>4, <3>1 DEF ContextIsHeard
    <3>2. CASE ~(pos > 0)
      BY <1>2, <2>3, <2>6, <3>2, Zenon DEF Ready, Positions, ContextIsHeard
    <3> QED
      BY <3>1, <3>2
  <2>11. TasksBearWhatWasHeard'
    <3>1. Bears(s)' /\ ctx'.active => task'[s].pos = heard'[ctx'.video]
      BY <1>2, <2>1, <2>2, <2>4, <2>6 DEF Ready, DataTypes
    <3> QED
      BY <1>2, <2>4, <3>1 DEF TasksBearWhatWasHeard, BearsWhatWasHeard
  <2>12. RowsAreHeard'
    <3>1. \A v \in Online \ edited : history[v].progress = heard[v]
      BY <2>3 DEF Ready, Positions, RowsAreHeard, Pending
    <3>2. CASE UNCHANGED heard
      BY <1>2, <3>1, <3>2 DEF RowsAreHeard
    <3>3. CASE /\ video[s] \in Online /\ pos > 0 /\ ctx.active /\ ctx.video = video[s]
               /\ heard' = [heard EXCEPT ![video[s]] = pos]
      <4>1. Pending(video[s])'
        BY <1>2, <1>3, <2>4, <3>3 DEF Pending
      <4>2. \A v \in Online \ {video[s]} : heard'[v] = heard[v]
        BY <3>3 DEF Ready, DataTypes
      <4> QED
        BY <1>2, <3>1, <4>1, <4>2 DEF RowsAreHeard
    <3> QED
      BY <2>6, <3>2, <3>3
  <2> QED
    BY <2>5, <2>8, <2>9, <2>10, <2>11, <2>12 DEF Positions
<1> QED
  BY <1>1, <1>7, <1>8

\* The integrated player tells a position, or that it is over.
LEMMA UiCallPositions ==
  ASSUME Ready, NEW u \in UiCalls, UiCall(u), ~mixed' PROVE Positions'
<1> USE DEF opening, ipc, rows, notes
<1>1. PICK k \in {"update", "finalize"}, pos \in plan.reports[u], d \in {0, Length},
           x \in BOOLEAN :
        /\ Step(u, [NoTask EXCEPT !.stage = "read", !.kind = k, !.pos = pos, !.dur = d,
                                  !.explicit = x])
        /\ heard' = Heard(ctx.video, pos)
  BY Zenon DEF UiCall
<1>2. /\ UNCHANGED <<pc, video, saved, state, ctx, once, history, edited>>
      /\ (\A s \in Sessions : AtRest(s)) /\ NobodyReports
  BY DEF UiCall, NobodyReports
<1>3. pos \in Seconds /\ u \in Owners /\ u \notin Sessions
  BY Reports, ConstantsAssumption DEF Ready, DataTypes, Owners
<1>4. PICK n : task' = [task EXCEPT ![u] = n] /\ n.stage = "read" /\ n.pos = pos
  <2> DEFINE m == [NoTask EXCEPT !.stage = "read", !.kind = k, !.pos = pos, !.dur = d,
                                 !.explicit = x]
  <2>1. m.stage = "read" /\ m.pos = pos
    BY <1>3, Blank, Zenon DEF TaskType
  <2>2. task' = [task EXCEPT ![u] = m]
    BY <1>1 DEF Step
  <2> HIDE DEF m
  <2> QED
    BY <2>1, <2>2
<1>5. /\ task'[u] = n
      /\ \A q \in Owners : q # u => task'[q] = task[q] /\ ~Reporting(q)'
  BY <1>2, <1>3, <1>4 DEF NobodyReports, Reporting, Busy, Ready, LoopTypes
<1>6. \A q \in Owners : ~Bears(q) /\ task[q].stage \notin {"store", "save", "close"}
  BY <1>2, ReportingStages DEF NobodyReports
<1>7. /\ \A q \in Owners : task'[q].stage \notin {"store", "save", "close"}
      /\ \A q \in Owners : q # u => ~Bears(q)'
      /\ Bears(u)' <=> pos > 0
  BY <1>4, <1>5, <1>6 DEF Bears
<1>8. OneAtATime' /\ ContextIsOurs'
  BY <1>2, <1>3, <1>5 DEF OneAtATime, ContextIsOurs, AtRest
<1>9. StateIsHeard'
  BY <1>2 DEF Ready, Positions, StateIsHeard, AtRest, Plays
<1>10. \/ /\ pos > 0 /\ ctx.active /\ ctx.video \in Online
          /\ heard' = [heard EXCEPT ![ctx.video] = pos]
       \/ UNCHANGED heard /\ (pos > 0 => ~ctx.active)
  BY <1>1, <1>3, Blank, ConstantsAssumption DEF Heard, Ready, EpisodesInHand
<1>11. ContextIsHeard'
  <2>1. CASE pos > 0
    BY <1>3, <1>7, <2>1 DEF ContextIsHeard
  <2>2. CASE ~(pos > 0)
    BY <1>2, <1>6, <1>10, <2>2, Zenon DEF Ready, Positions, ContextIsHeard
  <2> QED
    BY <2>1, <2>2
<1>12. TasksBearWhatWasHeard'
  <2>1. Bears(u)' /\ ctx'.active => task'[u].pos = heard'[ctx'.video]
    BY <1>2, <1>4, <1>5, <1>7, <1>10 DEF Ready, DataTypes
  <2> QED
    BY <1>2, <1>7, <2>1 DEF TasksBearWhatWasHeard, BearsWhatWasHeard
<1>13. RowsAreHeard'
  <2>1. \A v \in Online \ edited : history[v].progress = heard[v]
    BY <1>6 DEF Ready, Positions, RowsAreHeard, Pending
  <2>2. CASE UNCHANGED heard
    BY <1>2, <2>1, <2>2 DEF RowsAreHeard
  <2>3. CASE /\ pos > 0 /\ ctx.active /\ ctx.video \in Online
             /\ heard' = [heard EXCEPT ![ctx.video] = pos]
    <3>1. Pending(ctx.video)'
      BY <1>2, <1>3, <1>7, <2>3 DEF Pending
    <3>2. \A v \in Online \ {ctx.video} : heard'[v] = heard[v]
      BY <2>3 DEF Ready, DataTypes
    <3> QED
      BY <1>2, <2>1, <3>1, <3>2 DEF RowsAreHeard
  <2> QED
    BY <1>10, <2>2, <2>3
<1> QED
  BY <1>8, <1>9, <1>11, <1>12, <1>13 DEF Positions

LEMMA OneReporter ==
  ASSUME OneAtATime, UNCHANGED pc, NEW o \in Owners, Reporting(o),
         \A q \in Owners : Reporting(q)' => q = o
  PROVE  OneAtATime'
<1>1. \A s \in Sessions : AtRest(s)' <=> AtRest(s)
  BY DEF AtRest
<1>2. \A s \in Sessions, u \in UiCalls : ~AtRest(s)' => ~Reporting(u)'
  <2> SUFFICES ASSUME NEW s \in Sessions, NEW u \in UiCalls, ~AtRest(s), Reporting(u)'
               PROVE  FALSE
    BY <1>1
  <2>1. u = o
    BY DEF Owners
  <2> QED
    BY <2>1 DEF OneAtATime
<1> QED
  BY <1>1, <1>2 DEF OneAtATime

\* A call goes on: the playback it sees is the one of its own report.
LEMMA ReadPositions ==
  ASSUME Ready, NEW o \in Owners, ReadPlayback(o) PROVE Positions'
<1> USE DEF opening, ipc, rows, notes
<1>1. /\ task[o].stage = "read"
      /\ UNCHANGED <<pc, video, saved, state, ctx, once, heard, history, edited>>
  BY Zenon DEF ReadPlayback
<1>2. Reporting(o)
  BY <1>1, ReportingStages
<1>3. \A q \in Owners : q # o => ~Reporting(q) /\ ~Bears(q)
  BY <1>2, OnlyReporter DEF Ready
<1>4. PICK t : /\ Step(o, t)
               /\ \/ ctx.active /\ t.stage = "store" /\ t.pos = heard[ctx.video]
                  \/ ~ctx.active /\ t.stage \in {"none", "clear"}
  <2>1. CASE ~ctx.active /\ Step(o, AfterUpdate(o))
    BY <2>1, AfterUpdates DEF Ready, DataTypes
  <2>2. CASE /\ ctx.active
             /\ \E p \in Seconds, d \in {0, Length} :
                  /\ p = FirstPositive(task[o].pos, state.pos, ctx.progress)
                  /\ Step(o, [task[o] EXCEPT !.stage = "store", !.pos = p, !.dur = d,
                                !.done = Completes(p, d, task[o].explicit)])
    <3>1. PICK p \in Seconds, d \in {0, Length} :
            /\ p = FirstPositive(task[o].pos, state.pos, ctx.progress)
            /\ Step(o, [task[o] EXCEPT !.stage = "store", !.pos = p, !.dur = d,
                          !.done = Completes(p, d, task[o].explicit)])
      BY <2>2, Zenon
    <3> DEFINE n == [task[o] EXCEPT !.stage = "store", !.pos = p, !.dur = d,
                       !.done = Completes(p, d, task[o].explicit)]
    <3>2. task[o] \in TaskType
      BY DEF Ready, DataTypes
    <3>3. n.stage = "store" /\ n.pos = p
      BY <3>2, Zenon DEF TaskType
    <3>4. Step(o, n)
      BY <3>1
    <3> HIDE DEF n
    <3>5. task[o].pos > 0 => task[o].pos = heard[ctx.video]
      BY <1>1, <2>2 DEF Ready, Positions, TasksBearWhatWasHeard, BearsWhatWasHeard, Bears
    <3>6. ASSUME state.pos > 0 PROVE state.pos = heard[ctx.video]
      <4>1. PICK s \in Sessions : /\ pc[s] \in Plays
                                  /\ video[s] \in Online => state.pos = heard[video[s]]
        BY <3>6 DEF Ready, Positions, StateIsHeard
      <4>2. ~AtRest(s)
        BY <4>1 DEF AtRest, Plays
      <4>3. video[s] \in Online /\ ctx.video = video[s]
        BY <2>2, <4>2 DEF Ready, Positions, ContextIsOurs, Ours
      <4> QED
        BY <4>1, <4>3
    <3>7. ASSUME ~(task[o].pos > 0) PROVE ctx.progress = heard[ctx.video]
      <4>1. \A q \in Owners : ~Bears(q)
        BY <1>1, <1>3, <3>7 DEF Bears
      <4>2. \A s \in Sessions : pc[s] # "current"
        <5> SUFFICES ASSUME NEW s \in Sessions, pc[s] = "current" PROVE FALSE
          OBVIOUS
        <5>1. ~AtRest(s) /\ ~Busy(s)
          BY EarlyIsQuiet DEF AtRest, Before
        <5> QED
          BY <1>2, <5>1, Alone DEF Ready, Positions, NobodyReports
      <4> QED
        BY <2>2, <4>1, <4>2 DEF Ready, Positions, ContextIsHeard
    <3>8. p = heard[ctx.video]
      BY <3>1, <3>5, <3>6, <3>7 DEF FirstPositive
    <3> QED
      BY <2>2, <3>3, <3>4, <3>8
  <2> QED
    BY <2>1, <2>2, Reads, Zenon DEF Ready
<1>5. /\ task'[o] = t /\ \A q \in Owners : q # o => task'[q] = task[q]
  BY <1>4 DEF Step, Ready, LoopTypes
<1>6. \A q \in Owners : Reporting(q)' => q = o
  BY <1>3, <1>5 DEF Reporting, Busy
<1>7. \A q \in Owners : q # o => /\ ~Bears(q)'
                                 /\ task'[q].stage \notin {"store", "save", "close"}
  BY <1>2, <1>5, OnlyReporter DEF Bears, Ready
<1>8. OneAtATime'
  BY <1>1, <1>2, <1>6, OneReporter DEF Ready, Positions
<1>9. ContextIsOurs' /\ StateIsHeard'
  BY <1>1, Zenon DEF Ready, Positions, ContextIsOurs, Ours, StartAt, AtRest, StateIsHeard
<1>10. CASE ctx.active /\ t.stage = "store" /\ t.pos = heard[ctx.video]
  <2>1. Bears(o)' /\ task'[o].stage \notin {"save", "close"} /\ ctx'.active
    BY <1>1, <1>5, <1>10 DEF Bears
  <2>2. ContextIsHeard'
    BY <2>1 DEF ContextIsHeard
  <2>3. TasksBearWhatWasHeard'
    BY <1>1, <1>5, <1>7, <1>10, <2>1 DEF TasksBearWhatWasHeard, BearsWhatWasHeard
  <2>4. Pending(ctx.video)'
    BY <1>1, <2>1 DEF Pending
  <2>5. RowsAreHeard'
    BY <1>1, <2>4 DEF Ready, Positions, RowsAreHeard, Pending
  <2> QED
    BY <1>8, <1>9, <2>2, <2>3, <2>5 DEF Positions
<1>11. CASE ~ctx.active /\ t.stage \in {"none", "clear"}
  <2>1. ~Bears(o)' /\ task'[o].stage \notin {"store", "save", "close"} /\ ~ctx'.active
    BY <1>1, <1>5, <1>11 DEF Bears
  <2>2. ContextIsHeard'
    BY <2>1 DEF ContextIsHeard
  <2>3. TasksBearWhatWasHeard'
    BY <1>7, <2>1 DEF TasksBearWhatWasHeard, BearsWhatWasHeard
  <2>5. RowsAreHeard'
    BY <1>1, <1>11 DEF Ready, Positions, RowsAreHeard, Pending
  <2> QED
    BY <1>8, <1>9, <2>2, <2>3, <2>5 DEF Positions
<1> QED
  BY <1>4, <1>10, <1>11

LEMMA StorePositions ==
  ASSUME Ready, NEW o \in Owners, StorePlayback(o) PROVE Positions'
<1> USE DEF opening, ipc, rows, notes
<1>1. /\ task[o].stage = "store"
      /\ UNCHANGED <<pc, video, saved, state, once, heard, history, edited>>
  BY Zenon DEF StorePlayback
<1>2. Reporting(o) /\ Bears(o)
  BY <1>1, ReportingStages DEF Bears
<1>3. ctx.active /\ task[o].pos = heard[ctx.video]
  BY <1>1, <1>2 DEF Ready, Positions, TasksBearWhatWasHeard, BearsWhatWasHeard
<1>4. PICK next \in CtxType :
        /\ ctx' = next /\ next.active /\ next.video = ctx.video
        /\ next.progress = task[o].pos
        /\ Step(o, [task[o] EXCEPT !.stage = "save", !.ctx = next])
  BY <1>3, Stores, Zenon DEF Ready
<1>5. PICK t : Step(o, t) /\ t.stage = "save" /\ t.ctx = next
  <2>1. task[o] \in TaskType
    BY DEF Ready, DataTypes
  <2> DEFINE n == [task[o] EXCEPT !.stage = "save", !.ctx = next]
  <2>2. n.stage = "save" /\ n.ctx = next
    BY <2>1, Zenon DEF TaskType
  <2>3. Step(o, n)
    BY <1>4
  <2> HIDE DEF n
  <2> QED
    BY <2>2, <2>3
<1>6. /\ task'[o] = t /\ \A q \in Owners : q # o => task'[q] = task[q]
  BY <1>5 DEF Step, Ready, LoopTypes
<1>7. \A q \in Owners : q # o => /\ ~Reporting(q)' /\ ~Bears(q)'
                                 /\ task'[q].stage \notin {"store", "save", "close"}
  BY <1>2, <1>6, OnlyReporter DEF Bears, Reporting, Busy, Ready
<1>8. OneAtATime'
  BY <1>1, <1>2, <1>7, OneReporter DEF Ready, Positions
<1>9. \A s \in Sessions : pc[s] # "current"
  <2> SUFFICES ASSUME NEW s \in Sessions, pc[s] = "current" PROVE FALSE
    OBVIOUS
  <2>1. ~AtRest(s) /\ ~Busy(s)
    BY EarlyIsQuiet DEF AtRest, Before
  <2> QED
    BY <1>2, <2>1, Alone DEF Ready, Positions, NobodyReports
<1>10. ContextIsOurs'
  BY <1>1, <1>3, <1>4, <1>9 DEF Ready, Positions, ContextIsOurs, Ours, StartAt, AtRest
<1>11. StateIsHeard'
  BY <1>1, Zenon DEF Ready, Positions, StateIsHeard
<1>12. ctx'.active /\ ctx'.progress = heard'[ctx'.video] /\ task'[o].stage = "save"
       /\ task'[o].ctx = ctx' /\ ctx'.video = ctx.video
  BY <1>1, <1>3, <1>4, <1>5, <1>6
<1>13. ContextIsHeard'
  BY <1>12 DEF ContextIsHeard
<1>14. TasksBearWhatWasHeard'
  BY <1>7, <1>12 DEF TasksBearWhatWasHeard, BearsWhatWasHeard, Bears
<1>15. RowsAreHeard'
  <2>1. \A v : v = ctx.video => Pending(v)'
    BY <1>12 DEF Pending
  <2>2. \A v : Pending(v) => v = ctx.video
    BY DEF Pending
  <2> QED
    BY <1>1, <2>1, <2>2 DEF Ready, Positions, RowsAreHeard
<1> QED
  BY <1>8, <1>10, <1>11, <1>13, <1>14, <1>15 DEF Positions

\* With one call under way that bears no position, the playback holds the last one.
LEMMA NothingBorne ==
  ASSUME Ready, NEW o \in Owners, Reporting(o), ~Bears(o)
  PROVE  /\ \A q \in Owners : ~Bears(q)
         /\ ctx.active => ctx.progress = heard[ctx.video]
<1>1. \A q \in Owners : ~Bears(q)
  BY OnlyReporter DEF Ready
<1>2. \A s \in Sessions : pc[s] # "current"
  <2> SUFFICES ASSUME NEW s \in Sessions, pc[s] = "current" PROVE FALSE
    OBVIOUS
  <2>1. ~AtRest(s) /\ ~Busy(s)
    BY EarlyIsQuiet DEF AtRest, Before
  <2> QED
    BY <2>1, Alone DEF Ready, Positions, NobodyReports
<1> QED
  BY <1>1, <1>2 DEF Ready, Positions, ContextIsHeard

\* A call that clears the playback is alone, or its session has ended.
LEMMA Clearing ==
  ASSUME Ready, NEW o \in Owners, task[o].stage = "clear", NEW s \in Sessions, ~AtRest(s)
  PROVE  s \in once
<1>1. Reporting(o) /\ Busy(o)
  BY ReportingStages
<1>2. s = o
  BY <1>1, Alone DEF Ready, Positions, NobodyReports, OneAtATime, Owners
<1> QED
  BY <1>1, <1>2 DEF Ready, LoopsFollow, LoopFollows

\* A row was saved, or the playback taken: what is left bears nothing.
LEMMA CallEnds ==
  ASSUME Ready, NEW o \in Owners, Reporting(o), ~Bears(o), NEW t, Step(o, t),
         t.stage \in {"none", "clear", "close"},
         t.stage = "close" => t.ctx.progress = heard[t.ctx.video],
         UNCHANGED <<pc, video, saved, state, once, heard>>,
         ctx' = ctx \/ (~ctx'.active /\ task[o].stage = "clear"),
         \A v \in Online \ edited' : history'[v].progress = heard[v]
  PROVE  Positions'
<1>1. /\ task'[o] = t /\ \A q \in Owners : q # o => task'[q] = task[q]
  BY DEF Step, Ready, LoopTypes
<1>2. \A q \in Owners : q # o => /\ ~Reporting(q)' /\ ~Bears(q)'
                                 /\ task'[q].stage \notin {"store", "save", "close"}
  BY <1>1, OnlyReporter DEF Bears, Reporting, Busy, Ready
<1>3. OneAtATime'
  BY <1>2, OneReporter DEF Ready, Positions
<1>4. ContextIsOurs'
  <2> SUFFICES ASSUME NEW s \in Sessions, ~AtRest(s)' PROVE Ours(s)'
    BY DEF ContextIsOurs
  <2>1. ~AtRest(s) /\ Ours(s)
    BY DEF Ready, Positions, ContextIsOurs, AtRest
  <2>2. CASE ctx' = ctx
    BY <2>1, <2>2, Zenon DEF Ours, StartAt
  <2>3. CASE ~ctx'.active /\ task[o].stage = "clear"
    <3>1. s \in once /\ pc[s] # "current"
      BY <2>1, <2>3, Clearing, EarlyIsQuiet DEF Before
    <3> QED
      BY <2>1, <2>3, <3>1 DEF Ours, StartAt
  <2> QED
    BY <2>2, <2>3
<1>5. StateIsHeard'
  BY Zenon DEF Ready, Positions, StateIsHeard
<1>6. ContextIsHeard'
  BY NothingBorne DEF ContextIsHeard
<1>7. TasksBearWhatWasHeard'
  <2>1. ~Bears(o)' /\ task'[o].stage \notin {"store", "save"}
        /\ (task'[o].stage = "close" => task'[o].ctx.progress = heard'[task'[o].ctx.video])
    BY <1>1 DEF Bears
  <2> QED
    BY <1>2, <2>1 DEF TasksBearWhatWasHeard, BearsWhatWasHeard
<1>8. RowsAreHeard'
  BY DEF RowsAreHeard
<1> QED
  BY <1>3, <1>4, <1>5, <1>6, <1>7, <1>8 DEF Positions

LEMMA KeptRows ==
  ASSUME Ready, NEW o \in Owners, Reporting(o), ~Bears(o)
  PROVE  \A v \in Online \ edited :
           \/ history[v].progress = heard[v]
           \/ ctx.active /\ ctx.video = v /\ task[o].stage = "save"
<1>1. \A q \in Owners : Bears(q) \/ task[q].stage = "save" => q = o /\ task[o].stage = "save"
  BY OnlyReporter DEF Ready
<1> QED
  BY <1>1 DEF Ready, Positions, RowsAreHeard, Pending

LEMMA SavePositions ==
  ASSUME Ready, NEW o \in Owners, SavePlayback(o) PROVE Positions'
<1> USE DEF opening, ipc, rows, notes
<1> DEFINE copy == task[o].ctx
           done == task[o].done
<1>1. /\ task[o].stage = "save" /\ EditedBy(o) /\ Step(o, AfterUpdate(o))
      /\ RecordOnlineWatch(copy.video, copy.progress, copy.duration, done)
      /\ UNCHANGED <<pc, video, saved, state, ctx, once, heard>>
  BY Zenon DEF SavePlayback
<1>2. Reporting(o) /\ ~Bears(o)
  BY <1>1, ReportingStages DEF Bears
<1>3. ctx.active /\ copy.video = ctx.video /\ copy.progress = heard[ctx.video]
  BY <1>1 DEF Ready, Positions, TasksBearWhatWasHeard, BearsWhatWasHeard
<1>4. /\ copy.video \in Online /\ copy.progress \in Seconds /\ copy.duration \in {0, Length}
      /\ done \in BOOLEAN /\ history \in [Online -> RowType]
  BY <1>1 DEF Ready, DataTypes, EpisodesInHand, TaskType, CtxType
<1>5. edited \subseteq edited'
  BY <1>1 DEF EditedBy
<1>6. AfterUpdate(o).stage \in {"none", "clear"}
  BY AfterUpdates DEF Ready, DataTypes
<1> HIDE DEF copy, done
<1>7. /\ history'[copy.video].progress = copy.progress
      /\ \A w \in Online \ {copy.video} : history'[w] = history[w]
  BY <1>1, <1>4, Recording
<1>8. \A v \in Online \ edited' : history'[v].progress = heard[v]
  BY <1>2, <1>3, <1>5, <1>7, KeptRows
<1> QED
  BY <1>1, <1>2, <1>6, <1>8, CallEnds

LEMMA ClearPositions ==
  ASSUME Ready, NEW o \in Owners, ClearPlayback(o) PROVE Positions'
<1> USE DEF opening, ipc, rows, notes
<1>1. /\ task[o].stage = "clear" /\ ctx' = NoCtx
      /\ UNCHANGED <<pc, video, saved, state, once, heard, history, edited>>
      /\ \/ ctx.active /\ Step(o, [task[o] EXCEPT !.stage = "close", !.ctx = ctx])
         \/ Step(o, NoTask)
  BY Zenon DEF ClearPlayback
<1>2. Reporting(o) /\ ~Bears(o) /\ ~ctx'.active
  BY <1>1, ReportingStages, Blank DEF Bears
<1>3. \A v \in Online \ edited' : history'[v].progress = heard[v]
  BY <1>1, <1>2, KeptRows
<1>4. CASE Step(o, NoTask)
  BY <1>1, <1>2, <1>3, <1>4, Blank, CallEnds
<1>5. CASE ctx.active /\ Step(o, [task[o] EXCEPT !.stage = "close", !.ctx = ctx])
  <2> DEFINE n == [task[o] EXCEPT !.stage = "close", !.ctx = ctx]
  <2>1. task[o] \in TaskType
    BY DEF Ready, DataTypes
  <2>2. n.stage = "close" /\ n.ctx = ctx
    BY <2>1, Zenon DEF TaskType
  <2>3. Step(o, n)
    BY <1>5
  <2> HIDE DEF n
  <2>4. n.ctx.progress = heard[n.ctx.video]
    BY <1>2, <1>5, <2>2, NothingBorne
  <2> QED
    BY <1>1, <1>2, <1>3, <2>2, <2>3, <2>4, CallEnds
<1> QED
  BY <1>1, <1>4, <1>5

LEMMA ClosePositions ==
  ASSUME Ready, NEW o \in Owners, ClosePlayback(o) PROVE Positions'
<1> USE DEF opening, ipc, rows, notes
<1> DEFINE last == task[o].ctx
           x == task[o].explicit
<1>1. /\ task[o].stage = "close" /\ EditedBy(o) /\ Step(o, NoTask)
      /\ RecordOnlineWatch(last.video, Clamp(last.progress, last.duration), last.duration,
           Completes(Clamp(last.progress, last.duration), last.duration, x))
      /\ UNCHANGED <<pc, video, saved, state, ctx, once, heard>>
  BY Zenon DEF ClosePlayback
<1>2. Reporting(o) /\ ~Bears(o)
  BY <1>1, ReportingStages DEF Bears
<1>3. last.progress = heard[last.video]
  BY <1>1 DEF Ready, Positions, TasksBearWhatWasHeard, BearsWhatWasHeard
<1>4. /\ last.video \in Online /\ last.progress \in Seconds /\ last.duration \in {0, Length}
      /\ x \in BOOLEAN /\ history \in [Online -> RowType]
  BY <1>1 DEF Ready, DataTypes, EpisodesInHand, TaskType, CtxType
<1>5. edited \subseteq edited'
  BY <1>1 DEF EditedBy
<1> HIDE DEF last, x
<1> DEFINE c == Completes(last.progress, last.duration, x)
<1>6. c \in BOOLEAN /\ RecordOnlineWatch(last.video, last.progress, last.duration, c)
  BY <1>1, <1>4, Clamped, Completing
<1> HIDE DEF c
<1>7. /\ history'[last.video].progress = last.progress
      /\ \A w \in Online \ {last.video} : history'[w] = history[w]
  BY <1>4, <1>6, Recording
<1>8. \A v \in Online \ edited' : history'[v].progress = heard[v]
  BY <1>1, <1>2, <1>3, <1>5, <1>7, KeptRows
<1> QED
  BY <1>1, <1>2, <1>8, Blank, CallEnds

\* Pictures and menus: no call of theirs bears a position.
LEMMA OtherPositions ==
  ASSUME Ready,
         UNCHANGED <<pc, video, saved, state, ctx, once, heard>>,
         \/ UNCHANGED task
         \/ \E q \in Owners : \E t :
              Step(q, t) /\ t.stage \in {"none", "thumbnail"} /\ ~Reporting(q),
         edited \subseteq edited',
         \A v \in Online \ edited' : history'[v].progress = history[v].progress
  PROVE  Positions'
<1>1. \A o \in Owners :
        task'[o] = task[o] \/ (task'[o].stage \in {"none", "thumbnail"} /\ ~Reporting(o))
  <2>1. CASE UNCHANGED task
    BY <2>1
  <2>2. ASSUME NEW q \in Owners, NEW t, task' = [task EXCEPT ![q] = t],
               t.stage \in {"none", "thumbnail"}, ~Reporting(q)
        PROVE  \A o \in Owners : \/ task'[o] = task[o]
                                  \/ (task'[o].stage \in {"none", "thumbnail"} /\ ~Reporting(o))
    <3>1. task'[q] = t /\ \A o \in Owners : o # q => task'[o] = task[o]
      BY <2>2 DEF Ready, LoopTypes
    <3> QED
      BY <2>2, <3>1
  <2> QED
    BY <2>1, <2>2, Zenon DEF Step
<1>2. \A o \in Owners : /\ Reporting(o)' <=> Reporting(o)
                        /\ Bears(o)' <=> Bears(o)
                        /\ task'[o] = task[o] \/ ~Reporting(o)'
                        /\ task'[o].stage = "save" <=> task[o].stage = "save"
  BY <1>1 DEF Reporting, Busy, Bears
<1>3. OneAtATime' /\ ContextIsOurs' /\ StateIsHeard'
  BY <1>2 DEF Ready, Positions, OneAtATime, ContextIsOurs, Ours, StartAt, AtRest, StateIsHeard,
              Owners
<1>4. ContextIsHeard'
  BY <1>2 DEF Ready, Positions, ContextIsHeard
<1>5. TasksBearWhatWasHeard'
  <2> SUFFICES ASSUME NEW o \in Owners PROVE BearsWhatWasHeard(o)'
    BY DEF TasksBearWhatWasHeard
  <2>1. CASE task'[o] = task[o]
    BY <2>1 DEF Ready, Positions, TasksBearWhatWasHeard, BearsWhatWasHeard, Bears
  <2>2. CASE ~Reporting(o)'
    BY <2>2 DEF BearsWhatWasHeard, Bears, Reporting, Busy
  <2> QED
    BY <1>2, <2>1, <2>2
<1>6. RowsAreHeard'
  <2>1. \A v : Pending(v)' <=> Pending(v)
    BY <1>2 DEF Pending
  <2> QED
    BY <2>1 DEF Ready, Positions, RowsAreHeard
<1> QED
  BY <1>3, <1>4, <1>5, <1>6 DEF Positions

LEMMA PositionStep ==
  ASSUME Ready, [Next]_vars, ~mixed'
  PROVE  Positions'
<1> USE DEF opening, ipc, rows, notes
<1>1. CASE UNCHANGED vars
  BY <1>1, PositionsStay, Zenon DEF vars, Ready
<1> SUFFICES ASSUME Next PROVE Positions'
  BY <1>1
<1>o. Sessions \subseteq Owners /\ UiCalls \subseteq Owners
  BY DEF Owners
<1>2. ASSUME NEW s \in Sessions, Open(s) \/ Opening(s) PROVE Positions'
  BY <1>2, OpenPositions, EarlyPositions, RecordPositions, MpvPositions DEF Opening
<1>3. ASSUME NEW s \in Sessions, Watcher(s) \/ BeginLoop(s) \/ Messages(s) \/ EndLoop(s)
      PROVE  Positions'
  BY <1>3, WatcherPositions, FinishPositions, TimePosPositions DEF Watcher, Messages
<1>4. ASSUME NEW p, Listen(p) \/ Exit(p) PROVE Positions'
  BY <1>4, PositionsStay, Zenon DEF Listen, Exit, Ready
<1>5. ASSUME NEW o \in Owners, SaveThumbnail(o) PROVE Positions'
  <2> DEFINE copy == task[o].ctx
             done == task[o].done
  <2>1. /\ task[o].stage = "thumbnail" /\ Step(o, NoTask)
        /\ RecordOnlineWatch(copy.video, copy.progress, copy.duration, done)
        /\ mixed' = (mixed \/ history[copy.video].progress # copy.progress)
        /\ UNCHANGED <<pc, video, saved, state, ctx, once, heard, edited>>
    BY <1>5, Zenon DEF SaveThumbnail
  <2>2. /\ copy.video \in Online /\ copy.progress \in Seconds /\ copy.duration \in {0, Length}
        /\ done \in BOOLEAN /\ history \in [Online -> RowType]
    BY <2>1 DEF Ready, DataTypes, EpisodesInHand, TaskType, CtxType
  <2>3. ~Reporting(o)
    BY <2>1 DEF Reporting
  <2> HIDE DEF copy, done
  <2>4. \A v \in Online \ edited' : history'[v].progress = history[v].progress
    <3>1. history[copy.video].progress = copy.progress
      BY <2>1, Zenon
    <3>2. /\ history'[copy.video].progress = copy.progress
          /\ \A w \in Online \ {copy.video} : history'[w] = history[w]
      BY <2>1, <2>2, Recording
    <3> QED
      BY <3>1, <3>2
  <2> QED
    BY <2>1, <2>3, <2>4, Blank, OtherPositions
<1>6. ASSUME NEW o \in Owners, Task(o) PROVE Positions'
  BY <1>5, <1>6, ReadPositions, StorePositions, SavePositions, ClearPositions, ClosePositions
  DEF Task
<1>7. ASSUME NEW u \in UiCalls, UiCall(u) PROVE Positions'
  BY <1>7, UiCallPositions
<1>8. ASSUME NEW v \in Online, MarkOnlineWatched(v) \/ RemoveAnimeFromHistory(v) PROVE Positions'
  <2>1. /\ edited' = edited \cup {v} /\ \E row : history' = [history EXCEPT ![v] = row]
        /\ UNCHANGED <<pc, video, saved, state, ctx, once, heard, task>>
    BY <1>8, Zenon DEF MarkOnlineWatched, RemoveAnimeFromHistory, RecordOnlineWatch
  <2>2. \A w \in Online \ edited' : history'[w].progress = history[w].progress
    BY <2>1 DEF Ready, DataTypes
  <2> QED
    BY <2>1, <2>2, OtherPositions
<1>9. ASSUME NEW v, MarkLocal(v) PROVE Positions'
  BY <1>9, PositionsStay, Zenon DEF MarkLocal, Ready
<1>10. ASSUME NEW u \in UiCalls, NEW v \in Online, ReadThumbnail(u, v) PROVE Positions'
  <2> DEFINE c == [active |-> TRUE, video |-> v, progress |-> history[v].progress,
                   duration |-> history[v].duration]
             n == [NoTask EXCEPT !.stage = "thumbnail", !.done = history[v].completed, !.ctx = c]
  <2>1. /\ Step(u, n) /\ ~Busy(u)
        /\ UNCHANGED <<pc, video, saved, state, ctx, once, heard, history, edited>>
    BY <1>10, Zenon DEF ReadThumbnail
  <2>2. n.stage = "thumbnail"
    BY Blank, Zenon DEF TaskType
  <2>3. ~Reporting(u)
    BY <2>1 DEF Reporting
  <2> HIDE DEF n
  <2> QED
    BY <1>o, <2>1, <2>2, <2>3, OtherPositions
<1>11. CASE Shutdown
  BY <1>11, PositionsStay, Zenon DEF Shutdown, Ready
<1> QED
  BY <1>2, <1>3, <1>4, <1>6, <1>7, <1>8, <1>9, <1>10, <1>11 DEF Next

LEMMA PositionInvariant == Spec => [](~mixed => Positions)
<1> DEFINE Inv == ~mixed => Positions
<1>1. Init => Positions
  <2> SUFFICES ASSUME Init PROVE Positions
    OBVIOUS
  <2>1. /\ ctx = NoCtx /\ task = [o \in Owners |-> NoTask] /\ state = Stopped
        /\ pc = [s \in Sessions |-> "idle"] /\ history = [v \in Online |-> NoRow]
        /\ heard = [v \in Online |-> 0]
    BY DEF Init
  <2>2. \A o \in Owners : ~Reporting(o) /\ ~Bears(o) /\ task[o].stage = "none"
    BY <2>1, Blank DEF Reporting, Busy, Bears
  <2>3. OneAtATime /\ ContextIsOurs
    BY <2>1, <2>2 DEF OneAtATime, ContextIsOurs, AtRest, Owners
  <2>4. StateIsHeard /\ ContextIsHeard
    BY <2>1, Blank DEF StateIsHeard, ContextIsHeard
  <2>5. TasksBearWhatWasHeard /\ RowsAreHeard
    BY <2>1, <2>2, Blank DEF TasksBearWhatWasHeard, BearsWhatWasHeard, RowsAreHeard
  <2> QED
    BY <2>3, <2>4, <2>5 DEF Positions
<1>2. [Next]_vars => (mixed => mixed')
  <2> USE DEF opening, ipc, rows, notes
  <2> SUFFICES ASSUME [Next]_vars, mixed PROVE mixed'
    OBVIOUS
  <2>1. CASE UNCHANGED vars
    BY <2>1 DEF vars
  <2>2. CASE Next
    BY <2>2, Zenon
    DEF Next, Open, OpenOnline, OpenLocal, Choose, Opening, SetCurrentOnlinePlayback,
        RecordStart, Launch, WaitForSocket, ConnectIPC, WaitForStableStartup, Listen, Exit,
        Watcher, Observe, SeeExit, ClearState, Finish, Return, BeginLoop, EndLoop, Messages,
        TimePos, OtherProperty, EndFile, Task, ReadPlayback, StorePlayback, SavePlayback,
        ClearPlayback, ClosePlayback, SaveThumbnail, UiCall, MarkOnlineWatched,
        RemoveAnimeFromHistory, MarkLocal, ReadThumbnail, Shutdown
  <2> QED
    BY <2>1, <2>2
<1>3. LoopTypes /\ LoopsFollow /\ DInv /\ Inv /\ [Next]_vars => Inv'
  BY <1>2, PositionStep DEF Ready, DInv
<1> QED
  BY <1>1, <1>3, LoopInvariant, DataInvariant, PTL DEF Spec

\* As long as openings and calls do not overlap, the row ends up with the last
\* position that was reported: nobody else holds one, and the calls pass it on.
THEOREM LastPositionIsKeptHolds == Spec => []LastPositionIsKept
<1>1. (~mixed => Positions) => LastPositionIsKept
  <2> SUFFICES ASSUME Positions, \A o \in Owners : ~Reporting(o),
                      NEW v \in Online \ edited
               PROVE  history[v].progress = heard[v]
    BY DEF LastPositionIsKept
  <2>1. \A o \in Owners : ~Bears(o) /\ task[o].stage # "save"
    BY ReportingStages
  <2> QED
    BY <2>1 DEF Positions, RowsAreHeard, Pending
<1> QED
  BY <1>1, PositionInvariant, PTL

\* The types of the module.
THEOREM TypeCorrect == Spec => []TypeOK
<1>1. IInv /\ IpcTypes /\ DInv => TypeOK
  BY DEF IInv, PlayerTypes, Pcs, Waiting, IpcTypes, DInv, DataTypes, CtxType, RowType,
         LocalType, TypeOK
<1> QED
  BY <1>1, PlayerInvariant, IpcTyped, DataInvariant, PTL
=============================================================================
