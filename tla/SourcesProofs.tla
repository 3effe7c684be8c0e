--------------------------- MODULE SourcesProofs ---------------------------
(***************************************************************************)
(* What the callers of a source may trust, for any threads, sources,       *)
(* mirrors, manga, chapters and bounds: one solves a challenge for all,    *)
(* solved sessions survive a restart, refused cookies are not sent again,  *)
(* a list of episodes is whole, no slice of a manga's chapters passes for  *)
(* its list, one loads what all want.                                      *)
(***************************************************************************)
EXTENDS SourceSession, SharedLoads, Naturals, Sequences, TLAPS

----------------------------------------------------------------------------
(* SourceSession: the solves and the file of sourceaccess. *)
\* The types, in three parts; a thread outside "idle" has a source.
CallTypes ==
  /\ pc \in [Threads -> Pcs]
  /\ \A t \in Threads : calls[t] \in 0 .. Len(plan[t])
  /\ \A t \in Threads : pc[t] # "idle" => calls[t] # 0
  /\ calls \in [Threads -> Nat] /\ plan \in Uses
  /\ attempt \in [Threads -> {"first", "again", "last"}]
  /\ found \in [Threads -> Leases \cup {None}]
  /\ awaits \in [Threads -> Solves \cup {None}]

SessionTypes ==
  /\ sessionMu \in Threads \cup {None}
  /\ sessions \in [Sources -> [cookies : Leases \cup {None}, running : BOOLEAN,
                               waitCh : Solves \cup {None}]]
  /\ closed \subseteq Solves /\ displaced \subseteq Solves
  /\ \A x \in Sources : sessions[x].running => sessions[x].waitCh # None

DiskTypes ==
  /\ file \in [Sources -> Leases \cup {None}]
  /\ unsaved \subseteq Sources /\ expired \subseteq Leases
  /\ restarts \in 0 .. MaxRestarts

FlagTypes ==
  /\ writing \in BOOLEAN /\ corrupt \in BOOLEAN
  /\ crashed \in BOOLEAN

Typed == CallTypes /\ SessionTypes /\ DiskTypes /\ FlagTypes

LEMMA TypedIsTypeOK == Typed => TypeOK
BY DEF Typed, CallTypes, SessionTypes, DiskTypes, FlagTypes, TypeOK

LEMMA PlansAreSequences ==
  ASSUME plan \in Uses, NEW t \in Threads
  PROVE  plan[t] \in Seq(Sources) /\ Len(plan[t]) \in Nat
<1>1. plan[t] \in Seq(Sources)
  BY SourceSessionAssumption
<1> QED
  BY <1>1

LEMMA SourceOfCall ==
  ASSUME CallTypes, NEW t \in Threads, pc[t] # "idle"
  PROVE  Src(t) \in Sources /\ Ours(t) \in Solves /\ Ours(t) # None
<1>1. plan[t] \in Seq(Sources) /\ calls[t] \in 1 .. Len(plan[t])
  BY PlansAreSequences DEF CallTypes
<1>2. Src(t) \in Sources
  BY <1>1 DEF Src
<1>3. Ours(t) \in Solves
  BY <1>1 DEF Ours, Solves
<1>4. Ours(t) # None
  BY <1>1, SourceSessionAssumption DEF Ours
<1> QED
  BY <1>2, <1>3, <1>4

LEMMA LeaseSets == Solves \subseteq Leases /\ Sources \subseteq Leases
BY DEF Leases

LEMMA PlanIsKept == [Next]_vars => UNCHANGED <<plan, Solves, Leases>>
<1> SUFFICES ASSUME [Next]_vars PROVE UNCHANGED <<plan, Solves, Leases>>
  OBVIOUS
<1>1. UNCHANGED plan
  BY DEF Next, Step, FetchBytes, ValidSession, LoadPersistedSession, Install, Request,
         EnsureSession, Solved, Panic, Woken, BeginWrite, EndWrite, Expire, Restart, vars,
         call, process, disk, notes
<1> QED
  BY <1>1 DEF Solves, Leases

LEMMA TypeCorrect == Spec => []Typed
<1>1. Init => Typed
  <2> SUFFICES ASSUME Init PROVE Typed
    OBVIOUS
  <2>1. CallTypes
    BY PlansAreSequences DEF Init, CallTypes, Pcs
  <2>2. SessionTypes
    BY DEF Init, SessionTypes, Absent
  <2>3. DiskTypes
    BY LeaseSets, SourceSessionAssumption DEF Init, DiskTypes, Empty
  <2>4. FlagTypes
    BY DEF Init, FlagTypes
  <2> QED
    BY <2>1, <2>2, <2>3, <2>4 DEF Typed
<1>2. Typed /\ [Next]_vars => Typed'
  <2> SUFFICES ASSUME Typed, [Next]_vars PROVE Typed'
    OBVIOUS
  <2> USE PlanIsKept, LeaseSets DEF Typed, Goto, call, disk, process, notes
  <2>1. CASE UNCHANGED vars
    <3>1. CallTypes'
      BY <2>1, SourceOfCall, PlansAreSequences DEF vars, CallTypes, SessionTypes, DiskTypes, Pcs
    <3>2. SessionTypes'
      BY <2>1, SourceOfCall DEF vars, CallTypes, SessionTypes
    <3>3. DiskTypes'
      BY <2>1, SourceOfCall DEF vars, SessionTypes, DiskTypes
    <3>4. FlagTypes'
      BY <2>1 DEF vars, FlagTypes
    <3> QED
      BY <3>1, <3>2, <3>3, <3>4
  <2>2. ASSUME NEW t \in Threads, FetchBytes(t) PROVE Typed'
    <3>1. CallTypes'
      BY <2>2, SourceOfCall, PlansAreSequences DEF FetchBytes, CallTypes, SessionTypes, DiskTypes, Pcs
    <3>2. SessionTypes'
      BY <2>2, SourceOfCall DEF FetchBytes, CallTypes, SessionTypes
    <3>3. DiskTypes'
      BY <2>2, SourceOfCall DEF FetchBytes, SessionTypes, DiskTypes
    <3>4. FlagTypes'
      BY <2>2 DEF FetchBytes, FlagTypes
    <3> QED
      BY <3>1, <3>2, <3>3, <3>4
  <2>3. ASSUME NEW t \in Threads, ValidSession(t) PROVE Typed'
    <3>1. CallTypes'
      BY <2>3, SourceOfCall, PlansAreSequences DEF ValidSession, CallTypes, SessionTypes, DiskTypes, Pcs
    <3>2. SessionTypes'
      BY <2>3, SourceOfCall DEF ValidSession, CallTypes, SessionTypes
    <3>3. DiskTypes'
      BY <2>3, SourceOfCall DEF ValidSession, SessionTypes, DiskTypes
    <3>4. FlagTypes'
      BY <2>3 DEF ValidSession, FlagTypes
    <3> QED
      BY <3>1, <3>2, <3>3, <3>4
  <2>4. ASSUME NEW t \in Threads, LoadPersistedSession(t) PROVE Typed'
    <3>1. CallTypes'
      BY <2>4, SourceOfCall, PlansAreSequences DEF LoadPersistedSession, Prune, CallTypes, SessionTypes, DiskTypes, Pcs
    <3>2. SessionTypes'
      BY <2>4, SourceOfCall DEF LoadPersistedSession, Prune, CallTypes, SessionTypes
    <3>3. DiskTypes'
      BY <2>4, SourceOfCall DEF LoadPersistedSession, Prune, SessionTypes, DiskTypes
    <3>4. FlagTypes'
      BY <2>4 DEF LoadPersistedSession, Prune, FlagTypes
    <3> QED
      BY <3>1, <3>2, <3>3, <3>4
  <2>5. ASSUME NEW t \in Threads, Install(t) PROVE Typed'
    <3>1. CallTypes'
      BY <2>5, SourceOfCall, PlansAreSequences DEF Install, CallTypes, SessionTypes, DiskTypes, Pcs
    <3>2. SessionTypes'
      BY <2>5, SourceOfCall DEF Install, CallTypes, SessionTypes
    <3>3. DiskTypes'
      BY <2>5, SourceOfCall DEF Install, SessionTypes, DiskTypes
    <3>4. FlagTypes'
      BY <2>5 DEF Install, FlagTypes
    <3> QED
      BY <3>1, <3>2, <3>3, <3>4
  <2>6. ASSUME NEW t \in Threads, Request(t) PROVE Typed'
    <3>1. CallTypes'
      BY <2>6, SourceOfCall, PlansAreSequences DEF Request, CallTypes, SessionTypes, DiskTypes, Pcs
    <3>2. SessionTypes'
      BY <2>6, SourceOfCall DEF Request, CallTypes, SessionTypes
    <3>3. DiskTypes'
      BY <2>6, SourceOfCall DEF Request, SessionTypes, DiskTypes
    <3>4. FlagTypes'
      BY <2>6 DEF Request, FlagTypes
    <3> QED
      BY <3>1, <3>2, <3>3, <3>4
  <2>7. ASSUME NEW t \in Threads, EnsureSession(t) PROVE Typed'
    <3>1. CallTypes'
      BY <2>7, SourceOfCall, PlansAreSequences DEF EnsureSession, StartSolve, Resend, CallTypes, SessionTypes, DiskTypes, Pcs
    <3>2. SessionTypes'
      <4>1. Src(t) \in Sources /\ Ours(t) \in Solves
        BY <2>7, SourceOfCall DEF EnsureSession
      <4>2. \/ UNCHANGED sessions
            \/ sessions' = [sessions EXCEPT ![Src(t)] =
                              [cookies |-> None, running |-> TRUE, waitCh |-> Ours(t)]]
        BY <2>7 DEF EnsureSession, StartSolve
      <4>3. UNCHANGED <<sessionMu, closed, displaced>>
        BY <2>7 DEF EnsureSession
      <4>4. CASE UNCHANGED sessions
        BY <4>3, <4>4 DEF SessionTypes
      <4>5. CASE sessions' = [sessions EXCEPT ![Src(t)] =
                               [cookies |-> None, running |-> TRUE, waitCh |-> Ours(t)]]
        BY <4>1, <4>3, <4>5, SourceOfCall, <2>7 DEF SessionTypes, EnsureSession
      <4> QED
        BY <4>2, <4>4, <4>5
    <3>3. DiskTypes'
      BY <2>7, SourceOfCall DEF EnsureSession, StartSolve, Resend, SessionTypes, DiskTypes
    <3>4. FlagTypes'
      BY <2>7 DEF EnsureSession, StartSolve, Resend, FlagTypes
    <3> QED
      BY <3>1, <3>2, <3>3, <3>4
  <2>8. ASSUME NEW t \in Threads, Solved(t) PROVE Typed'
    <3>1. CallTypes'
      BY <2>8, SourceOfCall, PlansAreSequences DEF Solved, CloseWaitCh, CallTypes, SessionTypes, DiskTypes, Pcs
    <3>2. SessionTypes'
      <4>1. Src(t) \in Sources /\ Ours(t) \in Solves
        BY <2>8, SourceOfCall DEF Solved
      <4>2. PICK success \in BOOLEAN :
              /\ CloseWaitCh(t, success)
              /\ sessions' = [sessions EXCEPT ![Src(t)] =
                   [cookies |-> IF success THEN Ours(t) ELSE None,
                    running |-> FALSE, waitCh |-> sessions[Src(t)].waitCh]]
        BY <2>8 DEF Solved
      <4>3. sessions[Src(t)].waitCh \in Solves \cup {None}
        BY <4>1 DEF SessionTypes
      <4>4. closed' \subseteq Solves /\ displaced' \subseteq Solves
        BY <2>8, <4>2, <4>3 DEF Solved, CanClose, CloseWaitCh, SessionTypes
      <4>5. (IF success THEN Ours(t) ELSE None) \in Leases \cup {None}
        BY <4>1
      <4>6. sessions' \in [Sources -> [cookies : Leases \cup {None}, running : BOOLEAN,
                                       waitCh : Solves \cup {None}]]
        BY <4>1, <4>2, <4>3, <4>5 DEF SessionTypes
      <4>7. sessionMu' \in Threads \cup {None}
        BY <2>8 DEF Solved
      <4>8. \A x \in Sources : sessions'[x].running => sessions'[x].waitCh # None
        BY <4>1, <4>2 DEF SessionTypes
      <4> QED
        BY <4>4, <4>6, <4>7, <4>8 DEF SessionTypes
    <3>3. DiskTypes'
      BY <2>8, SourceOfCall DEF Solved, CloseWaitCh, SessionTypes, DiskTypes
    <3>4. FlagTypes'
      BY <2>8 DEF Solved, CloseWaitCh, FlagTypes
    <3> QED
      BY <3>1, <3>2, <3>3, <3>4
  <2>9. ASSUME NEW t \in Threads, Woken(t) PROVE Typed'
    <3>1. CallTypes'
      BY <2>9, SourceOfCall, PlansAreSequences DEF Woken, Resend, CallTypes, SessionTypes, DiskTypes, Pcs
    <3>2. SessionTypes'
      BY <2>9, SourceOfCall DEF Woken, Resend, CallTypes, SessionTypes
    <3>3. DiskTypes'
      BY <2>9, SourceOfCall DEF Woken, Resend, SessionTypes, DiskTypes
    <3>4. FlagTypes'
      BY <2>9 DEF Woken, Resend, FlagTypes
    <3> QED
      BY <3>1, <3>2, <3>3, <3>4
  <2>10. ASSUME NEW t \in Threads, BeginWrite(t) PROVE Typed'
    <3>1. CallTypes'
      BY <2>10, SourceOfCall, PlansAreSequences DEF BeginWrite, Unlock, Resend, Empty, CallTypes, SessionTypes, DiskTypes, Pcs
    <3>2. SessionTypes'
      BY <2>10, SourceOfCall DEF BeginWrite, Unlock, Resend, Empty, CallTypes, SessionTypes
    <3>3. DiskTypes'
      BY <2>10, SourceOfCall DEF BeginWrite, Unlock, Resend, Empty, SessionTypes, DiskTypes
    <3>4. FlagTypes'
      BY <2>10 DEF BeginWrite, Unlock, Resend, Empty, FlagTypes
    <3> QED
      BY <3>1, <3>2, <3>3, <3>4
  <2>11. ASSUME NEW t \in Threads, EndWrite(t) PROVE Typed'
    <3>1. CallTypes'
      BY <2>11, SourceOfCall, PlansAreSequences DEF EndWrite, Changed, Prune, Unlock, Resend, CallTypes, SessionTypes, DiskTypes, Pcs
    <3>2. SessionTypes'
      BY <2>11, SourceOfCall DEF EndWrite, Changed, Prune, Unlock, Resend, CallTypes, SessionTypes
    <3>3. DiskTypes'
      BY <2>11, SourceOfCall DEF EndWrite, Changed, Prune, Unlock, Resend, SessionTypes, DiskTypes
    <3>4. FlagTypes'
      BY <2>11 DEF EndWrite, Changed, Prune, Unlock, Resend, FlagTypes
    <3> QED
      BY <3>1, <3>2, <3>3, <3>4
  <2>12. ASSUME NEW l \in Leases, Expire(l) PROVE Typed'
    <3>1. CallTypes'
      BY <2>12, SourceOfCall, PlansAreSequences DEF Expire, CallTypes, SessionTypes, DiskTypes, Pcs
    <3>2. SessionTypes'
      BY <2>12, SourceOfCall DEF Expire, CallTypes, SessionTypes
    <3>3. DiskTypes'
      BY <2>12, SourceOfCall DEF Expire, SessionTypes, DiskTypes
    <3>4. FlagTypes'
      BY <2>12 DEF Expire, FlagTypes
    <3> QED
      BY <3>1, <3>2, <3>3, <3>4
  <2>13. CASE Restart
    <3>1. CallTypes'
      BY <2>13, SourceOfCall, PlansAreSequences DEF Restart, Absent, Empty, CallTypes, SessionTypes, DiskTypes, Pcs
    <3>2. SessionTypes'
      BY <2>13, SourceOfCall DEF Restart, Absent, Empty, CallTypes, SessionTypes
    <3>3. DiskTypes'
      <4>1. file' \in [Sources -> Leases \cup {None}] /\ unsaved' \subseteq Sources
        <5>1. CASE writing
          BY <2>13, <5>1 DEF Restart, Empty, DiskTypes
        <5>2. CASE ~writing
          BY <2>13, <5>2 DEF Restart, DiskTypes
        <5> QED
          BY <5>1, <5>2
      <4> QED
        BY <2>13, <4>1, SourceSessionAssumption DEF Restart, DiskTypes
    <3>4. FlagTypes'
      BY <2>13 DEF Restart, Absent, Empty, FlagTypes
    <3> QED
      BY <3>1, <3>2, <3>3, <3>4
  <2>14. ASSUME NEW t \in Threads, Panic(t) PROVE Typed'
    <3>1. CallTypes'
      BY <2>14, SourceOfCall, PlansAreSequences DEF Panic, CallTypes, SessionTypes, DiskTypes, Pcs
    <3>2. SessionTypes'
      <4>1. Src(t) \in Sources /\ sessions' = [sessions EXCEPT ![Src(t)].running = FALSE]
        BY <2>14, SourceOfCall DEF Panic
      <4>2. UNCHANGED <<sessionMu, closed, displaced>>
        BY <2>14 DEF Panic
      <4> QED
        BY <4>1, <4>2 DEF SessionTypes
    <3>3. DiskTypes'
      BY <2>14 DEF Panic, DiskTypes
    <3>4. FlagTypes'
      BY <2>14 DEF Panic, FlagTypes
    <3> QED
      BY <3>1, <3>2, <3>3, <3>4
  <2> QED
    BY <2>1, <2>2, <2>3, <2>4, <2>5, <2>6, <2>7, <2>8, <2>9, <2>10, <2>11, <2>12, <2>13, <2>14
    DEF Next, Step
<1> QED
  BY <1>1, <1>2, PTL DEF Spec

----------------------------------------------------------------------------
(* One solve per source.                                                   *)

\* A call that was sent again after a solve is not blocked once more.
SolvesOnce == \A t \in Threads : pc[t] \in {"ensure", "solving"} => attempt[t] # "last"

\* All channels there are, or were to be waited on.
Channels == closed \cup displaced \cup {sessions[x].waitCh : x \in Sources}

\* The call has got as far as a solve, or is over.
Begun(t) == pc[t] \in {"idle", "solving", "rewrite", "writing"} \/ attempt[t] = "last"

\* Channels are numbered by the calls that made them, which have begun to solve.
ChannelsAreKnown ==
  /\ \A t \in Threads, k \in Nat : <<t, k>> \in Channels => k <= calls[t]
  /\ \A t \in Threads : Ours(t) \in Channels => Begun(t)

\* Who solves holds the entry of his source, unless it was replaced.
SolverHoldsEntry ==
  \A t \in Threads : pc[t] = "solving" /\ Ours(t) \notin displaced =>
    /\ sessions[Src(t)] = [cookies |-> None, running |-> TRUE, waitCh |-> Ours(t)]
    /\ Ours(t) \notin closed

SolveInvariant ==
  /\ SolvesOnce /\ ChannelsAreKnown /\ SolverHoldsEntry
  /\ crashed => displaced # {}

LEMMA NamesAreKept ==
  ASSUME UNCHANGED <<calls, plan>>
  PROVE  \A t \in Threads : Src(t)' = Src(t) /\ Ours(t)' = Ours(t)
BY DEF Src, Ours

LEMMA NamesAreNotNone ==
  ASSUME NEW t \in Threads, NEW k \in Nat PROVE <<t, k>> # None
<1>1. <<t, k>> \in Threads \X Nat
  OBVIOUS
<1> QED
  BY <1>1, SourceSessionAssumption

\* A step that makes no channel, nor begins a call.
LEMMA ChannelsAreKept ==
  ASSUME CallTypes, ChannelsAreKnown, UNCHANGED <<calls, plan>>,
         Channels' \subseteq Channels \cup {None},
         \A t \in Threads : Begun(t) => Begun(t)'
  PROVE  ChannelsAreKnown'
<1>1. \A t \in Threads : Ours(t)' = Ours(t) /\ Ours(t) # None
  BY NamesAreKept, NamesAreNotNone DEF Ours, CallTypes
<1> QED
  BY <1>1, NamesAreNotNone DEF ChannelsAreKnown

\* A step of t that touches neither the entries nor the channels.
LEMMA QuietStep ==
  ASSUME CallTypes, SolveInvariant, UNCHANGED <<calls, plan, sessions, closed>>,
         displaced' = displaced, crashed' = crashed, NEW t \in Threads,
         \A u \in Threads \ {t} : pc'[u] = pc[u] /\ attempt'[u] = attempt[u],
         pc'[t] # "solving", pc'[t] = "ensure" => attempt'[t] # "last",
         Begun(t) => Begun(t)'
  PROVE  SolveInvariant'
<1>1. SolvesOnce'
  BY DEF SolveInvariant, SolvesOnce
<1>2. ChannelsAreKnown'
  <2>1. \A u \in Threads : Begun(u) => Begun(u)'
    BY DEF Begun
  <2> QED
    BY <2>1, ChannelsAreKept DEF SolveInvariant, Channels
<1>3. SolverHoldsEntry'
  BY NamesAreKept DEF SolveInvariant, SolverHoldsEntry
<1> QED
  BY <1>1, <1>2, <1>3 DEF SolveInvariant

LEMMA SolvesAreSound == Spec => []SolveInvariant
<1>1. Init => SolveInvariant
  <2> SUFFICES ASSUME Init PROVE SolveInvariant
    OBVIOUS
  <2>1. Channels \subseteq {None}
    BY DEF Init, Absent, Channels
  <2>2. ChannelsAreKnown
    BY <2>1, NamesAreNotNone DEF Init, ChannelsAreKnown, Ours, Begun
  <2> QED
    BY <2>2 DEF Init, SolveInvariant, SolvesOnce, SolverHoldsEntry
<1>2. Typed /\ Typed' /\ SolveInvariant /\ [Next]_vars => SolveInvariant'
  <2> SUFFICES ASSUME Typed, Typed', SolveInvariant, [Next]_vars PROVE SolveInvariant'
    OBVIOUS
  <2> USE PlanIsKept DEF Typed, Goto, call, disk, process, notes
  <2>1. CASE UNCHANGED vars
    BY <2>1, NamesAreKept
    DEF vars, SolveInvariant, SolvesOnce, ChannelsAreKnown, Channels, Begun, SolverHoldsEntry
  <2>2. ASSUME NEW t \in Threads, FetchBytes(t) PROVE SolveInvariant'
    <3>1. /\ calls' = [calls EXCEPT ![t] = @ + 1] /\ pc[t] = "idle"
          /\ pc' = [pc EXCEPT ![t] = "valid"]
          /\ UNCHANGED <<plan, attempt, sessions, closed, displaced, crashed>>
      BY <2>2 DEF FetchBytes
    <3>2. ChannelsAreKnown'
      <4>1. Channels' = Channels
        BY <3>1 DEF Channels
      <4>2. ASSUME NEW u \in Threads, Ours(u)' \in Channels PROVE Begun(u)'
        <5>1. CASE u = t
          <6>1. Ours(u)' = <<t, calls[t] + 1>> /\ calls[t] \in Nat
            BY <3>1, <5>1 DEF Ours, CallTypes
          <6> QED
            BY <4>2, <6>1 DEF SolveInvariant, ChannelsAreKnown
        <5>2. CASE u # t
          BY <3>1, <4>2, <5>2 DEF SolveInvariant, ChannelsAreKnown, Ours, Begun, CallTypes
        <5> QED
          BY <5>1, <5>2
      <4> QED
        BY <3>1, <4>1, <4>2 DEF SolveInvariant, ChannelsAreKnown, CallTypes
    <3> QED
      BY <3>1, <3>2 DEF SolveInvariant, SolvesOnce, SolverHoldsEntry, CallTypes, Src, Ours
  <2>3. ASSUME NEW t \in Threads, ValidSession(t) \/ LoadPersistedSession(t)
        PROVE  SolveInvariant'
    BY <2>3, QuietStep DEF ValidSession, LoadPersistedSession, CallTypes, Begun
  <2>4. ASSUME NEW t \in Threads, Install(t) PROVE SolveInvariant'
    <3>1. Src(t) \in Sources /\ UNCHANGED <<calls, plan, closed, crashed, attempt>>
      BY <2>4, SourceOfCall DEF Install
    <3>2. /\ pc' = [pc EXCEPT ![t] = "request"] /\ pc[t] = "loaded"
          /\ sessions' = [sessions EXCEPT ![Src(t)] =
               [cookies |-> found[t], running |-> FALSE, waitCh |-> None]]
      BY <2>4 DEF Install
    <3>3. /\ displaced' \in {displaced, displaced \cup {sessions[Src(t)].waitCh}}
          /\ sessions[Src(t)].running => sessions[Src(t)].waitCh \in displaced'
      BY <2>4 DEF Install
    <3>4. SolvesOnce'
      BY <3>1, <3>2 DEF SolveInvariant, SolvesOnce, CallTypes
    <3>5. ChannelsAreKnown'
      <4>1. \A x \in Sources : sessions'[x].waitCh \in {sessions[x].waitCh, None}
        BY <3>1, <3>2 DEF SessionTypes
      <4>2. Channels' \subseteq Channels \cup {None}
        BY <3>1, <3>3, <4>1 DEF Channels
      <4>3. \A u \in Threads : Begun(u) => Begun(u)'
        BY <3>1, <3>2 DEF Begun, CallTypes
      <4> QED
        BY <3>1, <4>2, <4>3, ChannelsAreKept DEF SolveInvariant
    <3>6. ASSUME NEW u \in Threads, pc'[u] = "solving", Ours(u) \notin displaced'
          PROVE  /\ sessions'[Src(u)] = [cookies |-> None, running |-> TRUE, waitCh |-> Ours(u)]
                 /\ Ours(u) \notin closed
      <4>1. pc[u] = "solving" /\ Src(u) \in Sources
        BY <3>2, <3>6, SourceOfCall DEF CallTypes
      <4>2. /\ sessions[Src(u)] = [cookies |-> None, running |-> TRUE, waitCh |-> Ours(u)]
            /\ Ours(u) \notin closed
        BY <3>3, <3>6, <4>1 DEF SolveInvariant, SolverHoldsEntry
      <4>3. sessions[Src(u)].running /\ sessions[Src(u)].waitCh = Ours(u)
        BY <4>2
      <4>4. Src(u) # Src(t)
        BY <3>3, <3>6, <4>3
      <4> QED
        BY <3>1, <3>2, <4>1, <4>2, <4>4 DEF SessionTypes
    <3> QED
      BY <3>1, <3>3, <3>4, <3>5, <3>6, NamesAreKept DEF SolveInvariant, SolverHoldsEntry
  <2>5. ASSUME NEW t \in Threads, Request(t) PROVE SolveInvariant'
    BY <2>5, QuietStep DEF Request, CallTypes, Begun
  <2>6. ASSUME NEW t \in Threads, EnsureSession(t) PROVE SolveInvariant'
    <3>1. CASE ~StartSolve(t)
      BY <2>6, <3>1, QuietStep DEF EnsureSession, Resend, CallTypes, Begun
    <3>2. CASE StartSolve(t)
      <4>1. /\ Src(t) \in Sources /\ pc[t] = "ensure" /\ ~sessions[Src(t)].running
            /\ pc' = [pc EXCEPT ![t] = "solving"]
            /\ sessions' = [sessions EXCEPT ![Src(t)] =
                 [cookies |-> None, running |-> TRUE, waitCh |-> Ours(t)]]
            /\ UNCHANGED <<calls, plan, closed, crashed, displaced, attempt>>
        BY <2>6, <3>2, SourceOfCall DEF EnsureSession, StartSolve, Resend, CallTypes
      <4>2. SolvesOnce'
        BY <4>1 DEF SolveInvariant, SolvesOnce, CallTypes
      <4>3. ChannelsAreKnown'
        <5>1. \A x \in Sources : sessions'[x].waitCh \in {sessions[x].waitCh, Ours(t)}
          BY <4>1 DEF SessionTypes
        <5>2. Channels' \subseteq Channels \cup {Ours(t)}
          BY <4>1, <5>1 DEF Channels
        <5>3. \A u \in Threads : (Begun(u) => Begun(u)') /\ (u = t => Begun(u)')
          BY <4>1 DEF Begun, CallTypes
        <5>4. \A u \in Threads, k \in Nat : <<u, k>> = Ours(t) => k <= calls[u]
          BY DEF Ours, CallTypes
        <5>5. \A u \in Threads : Ours(u) = Ours(t) => u = t
          BY DEF Ours
        <5> QED
          BY <4>1, <5>2, <5>3, <5>4, <5>5, NamesAreKept DEF SolveInvariant, ChannelsAreKnown
      <4>4. Ours(t) \notin closed
        BY <4>1 DEF SolveInvariant, SolvesOnce, ChannelsAreKnown, Channels, Begun
      <4>5. ASSUME NEW u \in Threads, pc'[u] = "solving", Ours(u) \notin displaced
            PROVE  /\ sessions'[Src(u)] = [cookies |-> None, running |-> TRUE, waitCh |-> Ours(u)]
                   /\ Ours(u) \notin closed
        <5>1. CASE u = t
          BY <4>1, <4>4, <5>1 DEF SessionTypes
        <5>2. CASE u # t
          <6>1. pc[u] = "solving" /\ Src(u) \in Sources
            BY <4>1, <4>5, <5>2, SourceOfCall DEF CallTypes
          <6>2. /\ sessions[Src(u)] = [cookies |-> None, running |-> TRUE, waitCh |-> Ours(u)]
                /\ Ours(u) \notin closed
            BY <4>5, <6>1 DEF SolveInvariant, SolverHoldsEntry
          <6>3. Src(u) # Src(t)
            BY <4>1, <6>2
          <6> QED
            BY <4>1, <6>1, <6>2, <6>3 DEF SessionTypes
        <5> QED
          BY <5>1, <5>2
      <4> QED
        BY <4>1, <4>2, <4>3, <4>5, NamesAreKept DEF SolveInvariant, SolverHoldsEntry
    <3> QED
      BY <3>1, <3>2
  <2>7. ASSUME NEW t \in Threads, Solved(t) PROVE SolveInvariant'
    <3> DEFINE ch == sessions[Src(t)].waitCh
    <3>1. /\ Src(t) \in Sources /\ pc[t] = "solving"
          /\ pc' = [pc EXCEPT ![t] = "rewrite"]
          /\ displaced' = displaced \cup ({ch} \ {Ours(t)}) /\ closed' = closed \cup {ch}
          /\ UNCHANGED <<calls, plan, crashed, attempt>>
      BY <2>7, SourceOfCall DEF Solved, CloseWaitCh
    <3>2. PICK success \in BOOLEAN : sessions' = [sessions EXCEPT ![Src(t)] =
            [cookies |-> IF success THEN Ours(t) ELSE None, running |-> FALSE, waitCh |-> ch]]
      BY <2>7 DEF Solved
    <3>3. SolvesOnce'
      BY <3>1 DEF SolveInvariant, SolvesOnce, CallTypes
    <3>4. ChannelsAreKnown'
      <4>1. \A x \in Sources : sessions'[x].waitCh = sessions[x].waitCh
        BY <3>1, <3>2 DEF SessionTypes
      <4>2. Channels' \subseteq Channels
        BY <3>1, <4>1 DEF Channels
      <4>3. \A u \in Threads : Begun(u) => Begun(u)'
        BY <3>1 DEF Begun, CallTypes
      <4> QED
        BY <3>1, <4>2, <4>3, ChannelsAreKept DEF SolveInvariant
    <3>5. ASSUME NEW u \in Threads, pc'[u] = "solving", Ours(u) \notin displaced'
          PROVE  /\ sessions'[Src(u)] = [cookies |-> None, running |-> TRUE, waitCh |-> Ours(u)]
                 /\ Ours(u) \notin closed'
      <4>1. u # t /\ pc[u] = "solving" /\ Src(u) \in Sources
        BY <3>1, <3>5, SourceOfCall DEF CallTypes
      <4>2. /\ sessions[Src(u)] = [cookies |-> None, running |-> TRUE, waitCh |-> Ours(u)]
            /\ Ours(u) \notin closed
        BY <3>1, <3>5, <4>1 DEF SolveInvariant, SolverHoldsEntry
      <4>3. Ours(u) # Ours(t)
        BY <4>1 DEF Ours
      <4>4. Ours(u) # ch
        BY <3>1, <3>5, <4>3
      <4>5. Src(u) # Src(t)
        BY <4>2, <4>4
      <4> QED
        BY <3>1, <3>2, <4>1, <4>2, <4>4, <4>5 DEF SessionTypes
    <3> QED
      BY <3>1, <3>3, <3>4, <3>5, NamesAreKept DEF SolveInvariant, SolverHoldsEntry
  <2>8. ASSUME NEW t \in Threads, Woken(t) PROVE SolveInvariant'
    BY <2>8, QuietStep DEF Woken, Resend, CallTypes, Begun
  <2>9. ASSUME NEW t \in Threads, BeginWrite(t) \/ EndWrite(t) PROVE SolveInvariant'
    BY <2>9, QuietStep DEF BeginWrite, EndWrite, Unlock, Resend, CallTypes, Begun
  <2>10. ASSUME NEW l \in Leases, Expire(l) PROVE SolveInvariant'
    BY <2>10, NamesAreKept
    DEF Expire, SolveInvariant, SolvesOnce, ChannelsAreKnown, Channels, Begun, SolverHoldsEntry
  <2>11. CASE Restart
    <3>1. /\ \A t \in Threads : pc'[t] = "idle"
          /\ \A x \in Sources : sessions'[x].waitCh = None
          /\ crashed' = FALSE /\ displaced' = {} /\ UNCHANGED <<calls, plan, closed>>
      BY <2>11 DEF Restart, Absent
    <3>2. Channels' \subseteq Channels \cup {None}
      BY <3>1 DEF Channels
    <3>3. \A t \in Threads : Begun(t)'
      BY <3>1 DEF Begun
    <3>4. ChannelsAreKnown'
      BY <3>1, <3>2, <3>3, ChannelsAreKept DEF SolveInvariant
    <3> QED
      BY <3>1, <3>4 DEF SolveInvariant, SolvesOnce, SolverHoldsEntry
  <2>12. ASSUME NEW t \in Threads, Panic(t) PROVE SolveInvariant'
    <3>1. /\ Src(t) \in Sources /\ pc[t] = "solving" /\ ~CanClose(t)
          /\ pc' = [pc EXCEPT ![t] = "idle"]
          /\ attempt' = [attempt EXCEPT ![t] = "first"]
          /\ sessions' = [sessions EXCEPT ![Src(t)].running = FALSE]
          /\ UNCHANGED <<calls, plan, closed, displaced>>
      BY <2>12, SourceOfCall DEF Panic
    <3>2. SolvesOnce'
      BY <3>1 DEF SolveInvariant, SolvesOnce, CallTypes
    <3>3. ChannelsAreKnown'
      <4>1. \A x \in Sources : sessions'[x].waitCh = sessions[x].waitCh
        BY <3>1 DEF SessionTypes
      <4>2. Channels' \subseteq Channels
        BY <3>1, <4>1 DEF Channels
      <4>3. \A u \in Threads : Begun(u) => Begun(u)'
        BY <3>1 DEF Begun, CallTypes
      <4> QED
        BY <3>1, <4>2, <4>3, ChannelsAreKept DEF SolveInvariant
    <3>4. ASSUME NEW u \in Threads, pc[u] = "solving", Ours(u) \notin displaced
          PROVE  Src(u) # Src(t)
      <4>1. sessions[Src(u)].waitCh = Ours(u) /\ Ours(u) \notin closed
        <5>1. /\ sessions[Src(u)] = [cookies |-> None, running |-> TRUE, waitCh |-> Ours(u)]
              /\ Ours(u) \notin closed
          BY <3>4 DEF SolveInvariant, SolverHoldsEntry
        <5> QED
          BY <5>1
      <4>2. Ours(u) # None
        BY <3>4, SourceOfCall
      <4> QED
        BY <3>1, <4>1, <4>2 DEF CanClose
    <3>5. SolverHoldsEntry'
      <4>1. ASSUME NEW u \in Threads, pc'[u] = "solving", Ours(u) \notin displaced
            PROVE  /\ sessions'[Src(u)] = [cookies |-> None, running |-> TRUE, waitCh |-> Ours(u)]
                   /\ Ours(u) \notin closed
        <5>1. u # t /\ pc[u] = "solving" /\ Src(u) \in Sources
          BY <3>1, <4>1, SourceOfCall DEF CallTypes
        <5>2. sessions'[Src(u)] = sessions[Src(u)]
          BY <3>1, <3>4, <4>1, <5>1 DEF SessionTypes
        <5> QED
          BY <4>1, <5>1, <5>2 DEF SolveInvariant, SolverHoldsEntry
      <4> QED
        BY <3>1, <4>1, NamesAreKept DEF SolverHoldsEntry
    <3>6. displaced # {}
      BY <3>1, <3>4
    <3> QED
      BY <3>1, <3>2, <3>3, <3>5, <3>6 DEF SolveInvariant
  <2> QED
    BY <2>1, <2>2, <2>3, <2>4, <2>5, <2>6, <2>7, <2>8, <2>9, <2>10, <2>11, <2>12 DEF Next, Step
<1> QED
  BY <1>1, <1>2, TypeCorrect, PTL DEF Spec

\* ensureSession: one browser per source, which holds its entry and the channel to
\* close, but for solves whose entry was replaced; only these panic.
THEOREM OneSolveHolds == Spec => []OneSolve
<1>1. Typed /\ SolveInvariant => OneSolve
  <2> SUFFICES ASSUME Typed, SolveInvariant PROVE OneSolve
    OBVIOUS
  <2>1. ASSUME NEW t \in Threads, pc[t] = "solving", Ours(t) \notin displaced
        PROVE  /\ sessions[Src(t)].running /\ sessions[Src(t)].waitCh = Ours(t)
               /\ CanClose(t)
    <3>1. /\ sessions[Src(t)] = [cookies |-> None, running |-> TRUE, waitCh |-> Ours(t)]
          /\ Ours(t) \notin closed
      BY <2>1 DEF SolveInvariant, SolverHoldsEntry
    <3>2. Ours(t) # None
      BY <2>1, SourceOfCall DEF Typed
    <3> QED
      BY <3>1, <3>2 DEF CanClose
  <2>2. ASSUME NEW t \in Threads, NEW u \in Threads, u # t, Src(u) = Src(t),
               pc[t] = "solving", pc[u] = "solving", Ours(t) \notin displaced
        PROVE  Ours(u) \in displaced
    <3>1. Ours(u) # Ours(t)
      BY <2>2 DEF Ours
    <3> QED
      BY <2>1, <2>2, <3>1
  <2> QED
    BY <2>1, <2>2 DEF OneSolve, SolveInvariant
<1> QED
  BY <1>1, TypeCorrect, SolvesAreSound, PTL

----------------------------------------------------------------------------
(* The file.                                                               *)

\* The lock is held by whoever writes; the entry he writes is the only one
\* that may be missing in the file.
FileInvariant ==
  /\ \A t \in Threads : pc[t] \in {"rewrite", "writing"} => sessionMu = t
  /\ sessionMu # None => pc[sessionMu] \in {"rewrite", "writing"}
  /\ \A x \in Sources \ unsaved :
       /\ Live(sessions[x].cookies)
       /\ sessionMu = None \/ Src(sessionMu) # x
       => file[x] = sessions[x].cookies

LEMMA FileIsKept == Spec => []FileInvariant
<1>1. Init => FileInvariant
  BY SourceSessionAssumption DEF Init, FileInvariant, Absent, Live
<1>2. Typed /\ Typed' /\ FileInvariant /\ [Next]_vars => FileInvariant'
  <2> SUFFICES ASSUME Typed, Typed', FileInvariant, [Next]_vars PROVE FileInvariant'
    OBVIOUS
  <2> USE PlanIsKept, SourceSessionAssumption
      DEF Typed, CallTypes, SessionTypes, DiskTypes, Goto, call, disk, process, notes, Live
  <2>1. CASE UNCHANGED vars
    BY <2>1 DEF vars, FileInvariant, Src
  <2>2. ASSUME NEW t \in Threads,
               FetchBytes(t) \/ ValidSession(t) \/ LoadPersistedSession(t) \/ Request(t) \/ Woken(t)
        PROVE  FileInvariant'
    BY <2>2 DEF FetchBytes, ValidSession, LoadPersistedSession, Request, Woken, Resend,
                FileInvariant, Src
  <2>3. ASSUME NEW t \in Threads, Install(t) \/ EnsureSession(t) PROVE FileInvariant'
    <3>1. /\ sessionMu = None /\ UNCHANGED <<sessionMu, file, expired>>
          /\ pc[t] \notin {"rewrite", "writing"} /\ pc'[t] \notin {"rewrite", "writing"}
          /\ \A u \in Threads \ {t} : pc'[u] = pc[u]
      BY <2>3 DEF Install, EnsureSession, StartSolve, Resend
    <3>2. ASSUME NEW x \in Sources, x \notin unsaved', sessions'[x].cookies # None
          PROVE  \/ sessions'[x].cookies = sessions[x].cookies /\ x \notin unsaved
                 \/ sessions'[x].cookies = file[x]
      <4>1. CASE Install(t)
        <5>1. CASE x = Src(t)
          BY <3>2, <4>1, <5>1 DEF Install
        <5>2. CASE x # Src(t)
          BY <3>2, <4>1, <5>2, SourceOfCall DEF Install
        <5> QED
          BY <5>1, <5>2
      <4>2. CASE EnsureSession(t)
        BY <3>2, <4>2, SourceOfCall DEF EnsureSession, StartSolve, Resend
      <4> QED
        BY <2>3, <4>1, <4>2
    <3> QED
      BY <3>1, <3>2 DEF FileInvariant
  <2>4. ASSUME NEW t \in Threads, Solved(t) PROVE FileInvariant'
    BY <2>4, SourceOfCall DEF Solved, FileInvariant, Src
  <2>9. ASSUME NEW t \in Threads, Panic(t) PROVE FileInvariant'
    <3>1. /\ Src(t) \in Sources /\ sessions' = [sessions EXCEPT ![Src(t)].running = FALSE]
          /\ sessionMu = None /\ UNCHANGED <<sessionMu, file, unsaved, expired>>
          /\ \A u \in Threads : pc'[u] \in {"rewrite", "writing"} => pc'[u] = pc[u]
      BY <2>9, SourceOfCall DEF Panic
    <3>2. \A x \in Sources : sessions'[x].cookies = sessions[x].cookies
      BY <3>1
    <3> QED
      BY <3>1, <3>2 DEF FileInvariant
  <2>5. ASSUME NEW t \in Threads, BeginWrite(t) PROVE FileInvariant'
    <3>1. /\ sessionMu = t /\ Src(t) \in Sources
          /\ UNCHANGED <<calls, sessions, expired>>
          /\ \A u \in Threads \ {t} : pc'[u] = pc[u] /\ pc[u] \notin {"rewrite", "writing"}
          /\ unsaved \subseteq unsaved'
      BY <2>5, SourceOfCall DEF BeginWrite, Unlock, Resend, FileInvariant
    <3>2. \/ pc'[t] \notin {"rewrite", "writing"} /\ sessionMu' = None
          \/ pc'[t] = "writing" /\ sessionMu' = t /\ file' = file
      BY <2>5, <3>1 DEF BeginWrite, Unlock, Resend
    <3>3. ASSUME sessionMu' = None, NEW x \in Sources \ unsaved', Live(sessions[x].cookies)
          PROVE  file'[x] = sessions[x].cookies
      <4>1. CASE corrupt
        <5>1. Src(t) # x /\ file' = file
          BY <2>5, <3>3, <4>1 DEF BeginWrite
        <5> QED
          BY <3>1, <3>3, <5>1 DEF FileInvariant
      <4>2. CASE ~corrupt
        <5>1. Changed(t, Prune(file)) = Empty
          BY <2>5, <3>1, <3>3, <4>2 DEF BeginWrite
        <5>2. Changed(t, Prune(file))[x] = None
          BY <5>1 DEF Empty
        <5>3. CASE x = Src(t)
          BY <3>1, <3>3, <5>2, <5>3 DEF Changed, Prune
        <5>4. CASE x # Src(t)
          <6>1. file[x] = sessions[x].cookies
            BY <3>1, <3>3, <5>4 DEF FileInvariant
          <6>2. Prune(file)[x] = None
            BY <3>1, <5>2, <5>4 DEF Changed, Prune
          <6> QED
            BY <3>3, <6>1, <6>2 DEF Prune
        <5> QED
          BY <5>3, <5>4
      <4> QED
        BY <4>1, <4>2
    <3>4. CASE sessionMu' = None
      BY <3>1, <3>2, <3>3, <3>4 DEF FileInvariant
    <3>5. CASE sessionMu' # None
      BY <3>1, <3>2, <3>5, NamesAreKept DEF FileInvariant
    <3> QED
      BY <3>4, <3>5
  <2>6. ASSUME NEW t \in Threads, EndWrite(t) PROVE FileInvariant'
    <3>1. /\ sessionMu = t /\ Src(t) \in Sources /\ sessionMu' = None
          /\ UNCHANGED <<sessions, expired, unsaved>>
          /\ pc'[t] \notin {"rewrite", "writing"}
          /\ \A u \in Threads \ {t} : pc'[u] = pc[u] /\ pc[u] \notin {"rewrite", "writing"}
      BY <2>6, SourceOfCall DEF EndWrite, Unlock, Resend, FileInvariant
    <3>2. ASSUME NEW x \in Sources \ unsaved, Live(sessions[x].cookies)
          PROVE  file'[x] = sessions[x].cookies
      <4>1. CASE x = Src(t)
        BY <2>6, <3>1, <4>1 DEF EndWrite, Changed, Prune
      <4>2. CASE x # Src(t)
        <5>1. file[x] = sessions[x].cookies
          BY <3>1, <3>2, <4>2 DEF FileInvariant
        <5> QED
          BY <2>6, <3>1, <3>2, <4>2, <5>1 DEF EndWrite, Changed, Prune
      <4> QED
        BY <4>1, <4>2
    <3> QED
      BY <3>1, <3>2 DEF FileInvariant
  <2>7. ASSUME NEW l \in Leases, Expire(l) PROVE FileInvariant'
    BY <2>7 DEF Expire, FileInvariant, Src
  <2>8. CASE Restart
    BY <2>8 DEF Restart, Absent, FileInvariant
  <2> QED
    BY <2>1, <2>2, <2>3, <2>4, <2>5, <2>6, <2>7, <2>8, <2>9 DEF Next, Step
<1> QED
  BY <1>1, <1>2, TypeCorrect, PTL DEF Spec

\* persistSession, clearPersistedSession: no source loses its entry to another.
THEOREM SessionsSurviveRestartHolds == Spec => []SessionsSurviveRestart
<1>1. FileInvariant => SessionsSurviveRestart
  BY DEF FileInvariant, SessionsSurviveRestart
<1> QED
  BY <1>1, FileIsKept, PTL

----------------------------------------------------------------------------
(* AnimePahe: the pages and the cookies. *)
FetchPlaces == {"none", "queued", "plain", "lookup", "waiting", "solving", "send",
                "browser", "fetched", "failed"}
FetchType == [at : FetchPlaces, retry : BOOLEAN, cookies : AP!Jars \cup {Nothing},
              solver : AP!PageFetches \cup {Nothing}]

CallsTyped ==
  /\ activeBase \in AP!Bases
  /\ stage \in [Calls -> {"idle", "first", "rest", "done", "failed"}]
  /\ bases \in [Calls -> Seq(AP!Bases)]
  /\ DOMAIN all = Calls

JarsTyped ==
  /\ solved \in 0 .. MaxCookies
  /\ cached \in [AP!Bases -> (1 .. solved) \cup {Nothing}]
  /\ kept \in [AP!Bases -> (1 .. solved) \cup {Nothing}]
  /\ inflight \in [AP!Bases -> AP!PageFetches \cup {Nothing}]
  /\ fetch \in [Calls -> [AP!Pages -> FetchType]]
  /\ refused \in [Calls -> [AP!Pages -> SUBSET (1 .. solved)]]

\* The pages a call fetches, and those it has in hand, are of one mirror.
CallGoes(c) ==
  /\ stage[c] \in {"first", "rest"} => bases[c] # <<>>
  /\ stage[c] = "first" => all[c] = {} /\ \A p \in AP!Pages \ {1} : AP!At(c, p) = "none"
  /\ stage[c] = "rest" => /\ LastPage[c] > 1 /\ all[c] = {<<AP!Base(c), 1>>}
                          /\ \A p \in AP!Pages \ (2 .. LastPage[c]) : AP!At(c, p) = "none"
  /\ stage[c] \in {"idle", "done", "failed"} => \A p \in AP!Pages : AP!At(c, p) = "none"
  /\ stage[c] = "idle" => all[c] = {}
  /\ stage[c] = "done" => \E b \in AP!Bases : all[c] = {b} \X (1 .. LastPage[c])

Stored(b) == {cached[b], kept[b]} \ {Nothing}

\* The cookies of a solve are stored for one mirror.
JarsApart == \A b \in AP!Bases, d \in AP!Bases : b # d => Stored(b) \cap Stored(d) = {}

\* Who solves for a mirror is the one it names; who waits, waits for him.
SolversNamed ==
  /\ \A c \in Calls, p \in AP!Pages : AP!At(c, p) = "solving"
       => inflight[AP!Base(c)] = <<c, p>>
  /\ \A b \in AP!Bases : inflight[b] # Nothing =>
       \E c \in Calls, p \in AP!Pages :
         inflight[b] = <<c, p>> /\ AP!At(c, p) = "solving" /\ AP!Base(c) = b
  /\ \A c \in Calls, p \in AP!Pages :
       AP!At(c, p) = "waiting"
           => inflight[AP!Base(c)] # Nothing /\ fetch[c][p].solver = inflight[AP!Base(c)]

\* What a fetch is about to send was not refused to it, and is stored for its
\* mirror, if at all.
InHand(c, p) ==
  AP!At(c, p) = "send" =>
    /\ fetch[c][p].cookies \in (1 .. solved) \ refused[c][p]
    /\ \A b \in AP!Bases : b # AP!Base(c) => fetch[c][p].cookies \notin Stored(b)

\* Cookies that were refused are stored nowhere any more.
RefusedGone ==
  \A c \in Calls, p \in AP!Pages, b \in AP!Bases : refused[c][p] \cap Stored(b) = {}

JarsGo == /\ JarsApart /\ SolversNamed /\ RefusedGone
          /\ \A c \in Calls, p \in AP!Pages : InHand(c, p)

PaheInv == CallsTyped /\ JarsTyped /\ JarsGo /\ \A c \in Calls : CallGoes(c)

----------------------------------------------------------------------------
LEMMA Candidates ==
  ASSUME AP!AnimePaheAssumption, activeBase \in AP!Bases
  PROVE  AP!BaseCandidates \in Seq(AP!Bases) /\ AP!BaseCandidates # <<>>
<1> DEFINE k == CHOOSE i \in DOMAIN Mirrors : Mirrors[i] = activeBase
           u == SubSeq(Mirrors, 1, k - 1)
           v == SubSeq(Mirrors, k + 1, Len(Mirrors))
<1>1. Mirrors \in Seq(AP!Bases)
  BY DEF AP!AnimePaheAssumption
<1>2. \E i \in DOMAIN Mirrors : Mirrors[i] = activeBase
  BY DEF AP!Bases, AP!Range
<1>3. k \in 1 .. Len(Mirrors)
  BY <1>1, <1>2
<1> HIDE DEF k
<1>4. u \in Seq(AP!Bases) /\ v \in Seq(AP!Bases)
  BY <1>1, <1>3
<1>5. AP!BaseCandidates = <<activeBase>> \o u \o v
  BY DEF AP!BaseCandidates, k
<1> HIDE DEF u, v
<1> QED
  BY <1>4, <1>5

LEMMA PageOne == ASSUME AP!AnimePaheAssumption, NEW c \in Calls
  PROVE 1 \in AP!Pages /\ 1 .. LastPage[c] \subseteq AP!Pages
BY DEF AP!AnimePaheAssumption, AP!Pages

LEMMA Fetches ==
  /\ AP!NoFetch \in FetchType /\ AP!NoFetch.at = "none"
  /\ AP!NewFetch \in FetchType /\ AP!NewFetch.at = "plain"
  /\ [AP!NoFetch EXCEPT !.at = "queued"] \in FetchType
  /\ [AP!NoFetch EXCEPT !.at = "queued"].at = "queued"
BY DEF AP!NoFetch, AP!NewFetch, FetchType, FetchPlaces

\* A fetch that is set, alone.
LEMMA SetOne ==
  ASSUME JarsTyped, NEW c \in Calls, NEW p \in AP!Pages, NEW f \in FetchType,
         AP!Set(c, p, f)
  PROVE  /\ fetch' \in [Calls -> [AP!Pages -> FetchType]]
         /\ fetch'[c][p] = f
         /\ \A d \in Calls, q \in AP!Pages : <<d, q>> # <<c, p>>
              => fetch'[d][q] = fetch[d][q]
BY DEF AP!Set, JarsTyped

LEMMA Moves ==
  ASSUME JarsTyped, NEW c \in Calls, NEW p \in AP!Pages, NEW l \in FetchPlaces
  PROVE  /\ [fetch[c][p] EXCEPT !.at = l] \in FetchType
         /\ [fetch[c][p] EXCEPT !.at = l].at = l
<1>1. fetch[c][p] \in FetchType
  BY DEF JarsTyped
<1> QED
  BY <1>1 DEF FetchType

\* While its mirror and stage stay, the fetches of a call may go on.
LEMMA GoesOn ==
  ASSUME \A c \in Calls : CallGoes(c), UNCHANGED <<stage, bases, all>>,
         \A c \in Calls, p \in AP!Pages : AP!At(c, p) = "none" => fetch'[c][p].at = "none"
  PROVE  \A c \in Calls : CallGoes(c)'
BY DEF CallGoes, AP!At, AP!Base

LEMMA InitPahe == ASSUME AP!AnimePaheAssumption, AP!Init PROVE PaheInv
<1>1. CallsTyped
  <2>1. Mirrors[1] \in AP!Bases
    <3>1. 1 \in DOMAIN Mirrors
      BY DEF AP!AnimePaheAssumption
    <3> QED
      BY <3>1 DEF AP!Bases, AP!Range
  <2> QED
    BY <2>1 DEF AP!Init, CallsTyped
<1>2. JarsTyped
  BY Fetches DEF AP!Init, JarsTyped, AP!AnimePaheAssumption
<1>3. \A c \in Calls, p \in AP!Pages : fetch[c][p] = AP!NoFetch
  BY DEF AP!Init
<1>4. JarsGo
  BY <1>3, Fetches DEF AP!Init, JarsGo, JarsApart, SolversNamed, InHand, RefusedGone,
       Stored, AP!At
<1>5. \A c \in Calls : CallGoes(c)
  BY <1>3, Fetches DEF AP!Init, CallGoes, AP!At
<1> QED
  BY <1>1, <1>2, <1>4, <1>5 DEF PaheInv

----------------------------------------------------------------------------
\* A fetch moves on, and no cookies change hands.
LEMMA QuietKeeps ==
  ASSUME PaheInv, NEW c \in Calls, NEW p \in AP!Pages, NEW f \in FetchType, AP!Set(c, p, f),
         AP!At(c, p) \notin {"none", "solving"},
         f.at \in {"plain", "lookup", "browser", "fetched", "failed"},
         UNCHANGED <<activeBase, AP!jar, AP!own, refused>>
  PROVE  PaheInv'
<1>1. /\ fetch' \in [Calls -> [AP!Pages -> FetchType]]
      /\ fetch'[c][p] = f
      /\ \A d \in Calls, q \in AP!Pages : <<d, q>> # <<c, p>> => fetch'[d][q] = fetch[d][q]
  BY SetOne DEF PaheInv
<1>2. UNCHANGED <<cached, kept, inflight, solved, stage, bases, queries, all, activeBase,
        refused>>
  BY DEF AP!jar, AP!own
<1>3. \A d \in Calls : AP!Base(d)' = AP!Base(d)
  BY <1>2 DEF AP!Base
<1>4. \A b \in AP!Bases : Stored(b)' = Stored(b)
  BY <1>2 DEF Stored
<1>5. CallsTyped' /\ JarsTyped'
  BY <1>1, <1>2 DEF PaheInv, CallsTyped, JarsTyped
<1>6. \A d \in Calls : CallGoes(d)'
  <2>1. \A d \in Calls, q \in AP!Pages : AP!At(d, q) = "none" => fetch'[d][q].at = "none"
    BY <1>1 DEF AP!At
  <2> QED
    BY <1>2, <2>1, GoesOn DEF PaheInv
<1>7. \A d \in Calls, q \in AP!Pages :
         AP!At(d, q)' \in {"solving", "waiting", "send"} =>
           fetch'[d][q] = fetch[d][q] /\ <<d, q>> # <<c, p>>
  BY <1>1 DEF AP!At
<1>8. SolversNamed'
  <2>1. ASSUME NEW d \in Calls, NEW q \in AP!Pages, AP!At(d, q)' = "solving"
        PROVE  inflight'[AP!Base(d)'] = <<d, q>>
    BY <2>1, <1>2, <1>3, <1>7 DEF PaheInv, JarsGo, SolversNamed, AP!At
  <2>2. ASSUME NEW b \in AP!Bases, inflight'[b] # Nothing
        PROVE  \E d \in Calls, q \in AP!Pages :
                 inflight'[b] = <<d, q>> /\ AP!At(d, q)' = "solving" /\ AP!Base(d)' = b
    <3>1. PICK d \in Calls, q \in AP!Pages :
            inflight[b] = <<d, q>> /\ AP!At(d, q) = "solving" /\ AP!Base(d) = b
      BY <2>2, <1>2 DEF PaheInv, JarsGo, SolversNamed
    <3>2. fetch'[d][q] = fetch[d][q]
      BY <3>1, <1>1 DEF AP!At
    <3> QED
      BY <3>1, <3>2, <1>2, <1>3 DEF AP!At
  <2>3. ASSUME NEW d \in Calls, NEW q \in AP!Pages, AP!At(d, q)' = "waiting"
        PROVE  inflight'[AP!Base(d)'] # Nothing /\ fetch'[d][q].solver = inflight'[AP!Base(d)']
    BY <2>3, <1>2, <1>3, <1>7 DEF PaheInv, JarsGo, SolversNamed, AP!At
  <2> QED
    BY <2>1, <2>2, <2>3 DEF SolversNamed
<1>9. \A d \in Calls, q \in AP!Pages : InHand(d, q)'
  BY <1>2, <1>3, <1>4, <1>7 DEF PaheInv, JarsGo, InHand, AP!At
<1>10. JarsApart' /\ RefusedGone'
  BY <1>2, <1>4 DEF PaheInv, JarsGo, JarsApart, RefusedGone
<1> QED
  BY <1>5, <1>6, <1>8, <1>9, <1>10 DEF PaheInv, JarsGo

\* A call changes its fetches, none of which has to do with cookies.
Aside(l) == l \notin {"solving", "waiting", "send"}

LEMMA CallKeepsJars ==
  ASSUME PaheInv, NEW c \in Calls, fetch' \in [Calls -> [AP!Pages -> FetchType]],
         \A d \in Calls \ {c} : fetch'[d] = fetch[d] /\ bases'[d] = bases[d],
         \A p \in AP!Pages : Aside(AP!At(c, p)) /\ Aside(fetch'[c][p].at),
         UNCHANGED <<AP!jar, refused>>
  PROVE  JarsTyped' /\ JarsGo'
<1>1. UNCHANGED <<cached, kept, inflight, solved, refused>>
  BY DEF AP!jar
<1>2. \A d \in Calls, q \in AP!Pages :
        (~Aside(AP!At(d, q)) \/ ~Aside(fetch'[d][q].at))
            => fetch'[d][q] = fetch[d][q] /\ AP!Base(d)' = AP!Base(d)
  BY DEF AP!Base
<1>3. \A b \in AP!Bases : Stored(b)' = Stored(b)
  BY <1>1 DEF Stored
<1>4. JarsTyped'
  BY <1>1 DEF PaheInv, JarsTyped
<1>5. SolversNamed'
  <2>1. ASSUME NEW d \in Calls, NEW q \in AP!Pages, AP!At(d, q)' = "solving"
        PROVE  inflight'[AP!Base(d)'] = <<d, q>>
    BY <2>1, <1>1, <1>2 DEF PaheInv, JarsGo, SolversNamed, AP!At, Aside
  <2>2. ASSUME NEW b \in AP!Bases, inflight'[b] # Nothing
        PROVE  \E d \in Calls, q \in AP!Pages :
                 inflight'[b] = <<d, q>> /\ AP!At(d, q)' = "solving" /\ AP!Base(d)' = b
    <3>1. PICK d \in Calls, q \in AP!Pages :
            inflight[b] = <<d, q>> /\ AP!At(d, q) = "solving" /\ AP!Base(d) = b
      BY <2>2, <1>1 DEF PaheInv, JarsGo, SolversNamed
    <3>2. fetch'[d][q] = fetch[d][q] /\ AP!Base(d)' = AP!Base(d)
      BY <3>1, <1>2 DEF Aside
    <3> QED
      BY <3>1, <3>2, <1>1 DEF AP!At
  <2>3. ASSUME NEW d \in Calls, NEW q \in AP!Pages, AP!At(d, q)' = "waiting"
        PROVE  inflight'[AP!Base(d)'] # Nothing /\ fetch'[d][q].solver = inflight'[AP!Base(d)']
    BY <2>3, <1>1, <1>2 DEF PaheInv, JarsGo, SolversNamed, AP!At, Aside
  <2> QED
    BY <2>1, <2>2, <2>3 DEF SolversNamed
<1>6. \A d \in Calls, q \in AP!Pages : InHand(d, q)'
  BY <1>1, <1>2, <1>3 DEF PaheInv, JarsGo, InHand, AP!At, Aside
<1>7. JarsApart' /\ RefusedGone'
  BY <1>1, <1>3 DEF PaheInv, JarsGo, JarsApart, RefusedGone
<1> QED
  BY <1>4, <1>5, <1>6, <1>7 DEF JarsGo

\* The other calls are let alone.
LEMMA OthersGo ==
  ASSUME PaheInv, NEW d \in Calls, stage'[d] = stage[d], bases'[d] = bases[d],
         all'[d] = all[d], fetch'[d] = fetch[d]
  PROVE  CallGoes(d)'
BY DEF PaheInv, CallGoes, AP!At, AP!Base

LEMMA BeginKeeps == ASSUME AP!AnimePaheAssumption, PaheInv, NEW c \in Calls, AP!Begin(c)
  PROVE PaheInv'
<1>1. /\ stage[c] = "idle" /\ stage' = [stage EXCEPT ![c] = "first"]
      /\ bases' = [bases EXCEPT ![c] = AP!BaseCandidates]
      /\ AP!Set(c, 1, AP!NewFetch)
      /\ UNCHANGED <<activeBase, queries, AP!jar, all, refused>>
  BY DEF AP!Begin
<1>2. 1 \in AP!Pages /\ AP!BaseCandidates \in Seq(AP!Bases) /\ AP!BaseCandidates # <<>>
  BY PageOne, Candidates DEF PaheInv, CallsTyped
<1>3. /\ fetch' \in [Calls -> [AP!Pages -> FetchType]] /\ fetch'[c][1] = AP!NewFetch
      /\ \A d \in Calls, q \in AP!Pages : <<d, q>> # <<c, 1>> => fetch'[d][q] = fetch[d][q]
  BY <1>1, <1>2, SetOne, Fetches DEF PaheInv
<1>4. \A d \in Calls \ {c} : fetch'[d] = fetch[d] /\ bases'[d] = bases[d] /\ stage'[d] = stage[d]
  BY <1>1 DEF AP!Set, PaheInv, JarsTyped, CallsTyped
<1>5. \A p \in AP!Pages : AP!At(c, p) = "none"
  BY <1>1 DEF PaheInv, CallGoes
<1>6. fetch'[c][1].at = "plain" /\ \A p \in AP!Pages \ {1} : fetch'[c][p].at = "none"
  BY <1>3, <1>5, Fetches DEF AP!At
<1>7. JarsTyped' /\ JarsGo'
  <2>1. \A p \in AP!Pages : Aside(AP!At(c, p)) /\ Aside(fetch'[c][p].at)
    BY <1>5, <1>6 DEF Aside
  <2> QED
    BY <1>1, <1>3, <1>4, <2>1, CallKeepsJars
<1>8. CallsTyped'
  BY <1>1, <1>2 DEF PaheInv, CallsTyped
<1>9. CallGoes(c)'
  <2>1. stage'[c] = "first" /\ bases'[c] = AP!BaseCandidates /\ all'[c] = {}
    BY <1>1 DEF PaheInv, CallsTyped, CallGoes
  <2> QED
    BY <1>2, <1>6, <2>1 DEF CallGoes, AP!At
<1>10. ASSUME NEW d \in Calls \ {c} PROVE CallGoes(d)'
  BY <1>1, <1>4, OthersGo
<1> QED
  BY <1>7, <1>8, <1>9, <1>10 DEF PaheInv

\* On to the next mirror, from one at which no fetch has to do with cookies.
LEMMA NextBaseKeeps ==
  ASSUME AP!AnimePaheAssumption, PaheInv, NEW c \in Calls, AP!NextBase(c),
         stage[c] \in {"first", "rest"},
         \A p \in AP!Pages : Aside(AP!At(c, p)), activeBase' \in AP!Bases,
             UNCHANGED <<AP!jar, refused>>
  PROVE  PaheInv'
<1> DEFINE left == IF Len(bases[c]) > 1 THEN Tail(bases[c])
                   ELSE IF queries[c] > 1 THEN AP!BaseCandidates ELSE <<>>
           g == [p \in AP!Pages |-> IF p = 1 /\ left # <<>> THEN AP!NewFetch ELSE AP!NoFetch]
<1>1. /\ bases' = [bases EXCEPT ![c] = left]
      /\ stage' = [stage EXCEPT ![c] = IF left = <<>> THEN "failed" ELSE "first"]
      /\ fetch' = [fetch EXCEPT ![c] = g]
      /\ all' = [all EXCEPT ![c] = {}]
  BY DEF AP!NextBase, AP!Emptied
<1>2. left \in Seq(AP!Bases)
  <2>1. bases[c] \in Seq(AP!Bases) /\ AP!BaseCandidates \in Seq(AP!Bases)
    BY Candidates DEF PaheInv, CallsTyped
  <2>2. Len(bases[c]) > 1 => Tail(bases[c]) \in Seq(AP!Bases)
    BY <2>1
  <2> QED
    BY <2>1, <2>2
<1> HIDE DEF left
<1>3. g \in [AP!Pages -> FetchType] /\ \A p \in AP!Pages : g[p].at = IF p = 1 /\ left # <<>> THEN "plain" ELSE "none"
  BY Fetches
<1> HIDE DEF g
<1>4. /\ fetch' \in [Calls -> [AP!Pages -> FetchType]] /\ fetch'[c] = g
      /\ \A d \in Calls \ {c} : fetch'[d] = fetch[d] /\ bases'[d] = bases[d] /\ stage'[d] = stage[d]
                                 /\ all'[d] = all[d]
      /\ bases'[c] = left /\ stage'[c] = (IF left = <<>> THEN "failed" ELSE "first") /\ all'[c] = {}
  BY <1>1, <1>3 DEF PaheInv, JarsTyped, CallsTyped
<1>5. JarsTyped' /\ JarsGo'
  <2>1. \A p \in AP!Pages : Aside(fetch'[c][p].at)
    BY <1>3, <1>4 DEF Aside
  <2> QED
    BY <1>4, <2>1, CallKeepsJars
<1>6. CallsTyped'
  BY <1>1, <1>2 DEF PaheInv, CallsTyped
<1>7. CallGoes(c)'
  BY <1>3, <1>4 DEF CallGoes, AP!At
<1>8. ASSUME NEW d \in Calls \ {c} PROVE CallGoes(d)'
  BY <1>4, OthersGo
<1> QED
  BY <1>5, <1>6, <1>7, <1>8 DEF PaheInv

\* The call has what it was for.
LEMMA SucceedKeeps ==
  ASSUME AP!AnimePaheAssumption, PaheInv, NEW c \in Calls, NEW pages, AP!Succeed(c, pages),
         stage[c] \in {"first", "rest"}, \A p \in AP!Pages : Aside(AP!At(c, p)),
             UNCHANGED <<AP!jar, refused>>,
         all[c] \cup pages = {AP!Base(c)} \X (1 .. LastPage[c])
  PROVE  PaheInv'
<1> DEFINE g == [p \in AP!Pages |-> AP!NoFetch]
           whole == {AP!Base(c)} \X (1 .. LastPage[c])
<1>1. /\ activeBase' = AP!Base(c) /\ stage' = [stage EXCEPT ![c] = "done"]
      /\ all' = [all EXCEPT ![c] = all[c] \cup pages]
      /\ fetch' = [fetch EXCEPT ![c] = g] /\ UNCHANGED bases
  BY DEF AP!Succeed
<1>2. AP!Base(c) \in AP!Bases
  BY DEF AP!Base, PaheInv, CallsTyped, CallGoes
<1>3. g \in [AP!Pages -> FetchType] /\ \A p \in AP!Pages : g[p].at = "none"
  BY Fetches
<1> HIDE DEF g, whole
<1>4. /\ fetch' \in [Calls -> [AP!Pages -> FetchType]] /\ fetch'[c] = g
      /\ \A d \in Calls \ {c} : fetch'[d] = fetch[d] /\ bases'[d] = bases[d] /\ stage'[d] = stage[d]
                                 /\ all'[d] = all[d]
      /\ stage'[c] = "done" /\ all'[c] = whole
  BY <1>1, <1>3 DEF PaheInv, JarsTyped, CallsTyped, whole
<1>5. JarsTyped' /\ JarsGo'
  <2>1. \A p \in AP!Pages : Aside(fetch'[c][p].at)
    BY <1>3, <1>4 DEF Aside
  <2> QED
    BY <1>4, <2>1, CallKeepsJars
<1>6. CallsTyped'
  BY <1>1, <1>2 DEF PaheInv, CallsTyped
<1>7. CallGoes(c)'
  BY <1>2, <1>3, <1>4 DEF CallGoes, AP!At, whole
<1>8. ASSUME NEW d \in Calls \ {c} PROVE CallGoes(d)'
  BY <1>4, OthersGo
<1> QED
  BY <1>5, <1>6, <1>7, <1>8 DEF PaheInv

LEMMA FirstPageKeeps ==
  ASSUME AP!AnimePaheAssumption, PaheInv, NEW c \in Calls, AP!FirstPage(c) PROVE PaheInv'
<1> DEFINE first == {<<AP!Base(c), 1>>}
           g == [p \in AP!Pages |-> IF p \in 2 .. LastPage[c]
                                THEN [AP!NoFetch EXCEPT !.at = "queued"] ELSE AP!NoFetch]
<1>1. /\ stage[c] = "first" /\ UNCHANGED <<AP!jar, refused>>
      /\ all[c] = {} /\ bases[c] # <<>> /\ \A p \in AP!Pages \ {1} : AP!At(c, p) = "none"
  BY DEF AP!FirstPage, PaheInv, CallGoes
<1>2. AP!At(c, 1) \in {"fetched", "failed"}
  BY DEF AP!FirstPage
<1>3. \A p \in AP!Pages : Aside(AP!At(c, p))
  BY <1>1, <1>2 DEF Aside
<1>4. AP!Base(c) \in AP!Bases
  BY <1>1 DEF AP!Base, PaheInv, CallsTyped
<1>5. CASE AP!NextBase(c) /\ activeBase' \in {activeBase, AP!Base(c)}
  <2>1. activeBase' \in AP!Bases
    BY <1>4, <1>5 DEF PaheInv, CallsTyped
  <2> QED
    BY <1>1, <1>3, <1>5, <2>1, NextBaseKeeps
<1>6. CASE LastPage[c] = 1 /\ AP!Succeed(c, first)
  <2>1. all[c] \cup first = {AP!Base(c)} \X (1 .. LastPage[c])
    <3>1. 1 .. LastPage[c] = {1}
      BY <1>6
    <3> QED
      BY <1>1, <3>1
  <2> QED
    BY <1>1, <1>3, <1>6, <2>1, SucceedKeeps
<1>7. CASE /\ LastPage[c] > 1 /\ stage' = [stage EXCEPT ![c] = "rest"]
           /\ all' = [all EXCEPT ![c] = all[c] \cup first] /\ fetch' = [fetch EXCEPT ![c] = g]
           /\ UNCHANGED <<activeBase, bases, queries>>
  <2>1. /\ g \in [AP!Pages -> FetchType] /\ \A p \in AP!Pages : g[p].at \in {"none",
             "queued"}
        /\ \A p \in AP!Pages \ (2 .. LastPage[c]) : g[p].at = "none"
    BY Fetches
  <2> HIDE DEF g
  <2>2. /\ fetch' \in [Calls -> [AP!Pages -> FetchType]] /\ fetch'[c] = g
        /\ \A d \in Calls \ {c} : fetch'[d] = fetch[d] /\ bases'[d] = bases[d] /\ stage'[d] = stage[d]
                                   /\ all'[d] = all[d]
        /\ stage'[c] = "rest" /\ all'[c] = first /\ bases'[c] = bases[c]
    BY <1>1, <1>7, <2>1 DEF PaheInv, JarsTyped, CallsTyped
  <2>3. JarsTyped' /\ JarsGo'
    <3>1. \A p \in AP!Pages : Aside(fetch'[c][p].at)
      BY <2>1, <2>2 DEF Aside
    <3> QED
      BY <1>1, <1>3, <2>2, <3>1, CallKeepsJars
  <2>4. CallsTyped'
    BY <1>7 DEF PaheInv, CallsTyped
  <2>5. CallGoes(c)'
    BY <1>1, <1>7, <2>1, <2>2 DEF CallGoes, AP!At, AP!Base
  <2>6. ASSUME NEW d \in Calls \ {c} PROVE CallGoes(d)'
    BY <2>2, OthersGo
  <2> QED
    BY <2>3, <2>4, <2>5, <2>6 DEF PaheInv
<1> QED
  BY <1>5, <1>6, <1>7, Zenon DEF AP!FirstPage

LEMMA RestKeeps ==
  ASSUME AP!AnimePaheAssumption, PaheInv, NEW c \in Calls, AP!RestOfPages(c) PROVE PaheInv'
<1>1. /\ stage[c] = "rest" /\ UNCHANGED <<AP!jar, refused>> /\ LastPage[c] > 1
      /\ all[c] = {<<AP!Base(c), 1>>} /\ \A p \in AP!Pages \ (2 .. LastPage[c]) : AP!At(c,
           p) = "none"
      /\ \A p \in 2 .. LastPage[c] : AP!At(c, p) \in {"fetched", "failed"}
  BY DEF AP!RestOfPages, PaheInv, CallGoes
<1>2. \A p \in AP!Pages : Aside(AP!At(c, p))
  BY <1>1 DEF Aside
<1>3. CASE AP!Succeed(c, {<<AP!Base(c), p>> : p \in 2 .. LastPage[c]})
  <2>1. LastPage[c] \in Nat
    BY DEF AP!AnimePaheAssumption
  <2>2. 1 .. LastPage[c] = {1} \cup (2 .. LastPage[c])
    BY <1>1, <2>1
  <2>3. all[c] \cup {<<AP!Base(c),
          p>> : p \in 2 .. LastPage[c]} = {AP!Base(c)} \X (1 .. LastPage[c])
    BY <1>1, <2>2
  <2> QED
    BY <1>1, <1>2, <1>3, <2>3, SucceedKeeps
<1>4. CASE AP!NextBase(c) /\ UNCHANGED activeBase
  <2>1. activeBase' \in AP!Bases
    BY <1>4 DEF PaheInv, CallsTyped
  <2> QED
    BY <1>1, <1>2, <1>4, <2>1, NextBaseKeeps
<1> QED
  BY <1>3, <1>4, Zenon DEF AP!RestOfPages

----------------------------------------------------------------------------
\* The quiet steps of a fetch.
LEMMA QuietStepsKeep ==
  ASSUME PaheInv, NEW c \in Calls, NEW p \in AP!Pages,
         \/ AP!Dispatch(c, p) \/ AP!PlainRequest(c, p) \/ AP!BrowserFetch(c, p)
         \/ /\ AP!At(c,
                 p) = "send" /\ (AP!Goto(c, p, "fetched") \/ AP!Goto(c, p, "browser"))
            /\ UNCHANGED <<cached, kept, refused, activeBase, inflight, solved, AP!own>>
  PROVE  PaheInv'
<1>1. UNCHANGED <<activeBase, AP!jar, AP!own, refused>> /\ AP!At(c, p) \notin {"none",
        "solving"}
  BY DEF AP!Dispatch, AP!PlainRequest, AP!BrowserFetch, AP!jar
<1>2. PICK f \in FetchType :
        AP!Set(c, p, f) /\ f.at \in {"plain", "lookup", "browser", "fetched", "failed"}
  <2>1. ASSUME NEW l \in {"lookup", "browser", "fetched", "failed"}, AP!Goto(c, p, l)
        PROVE  \E f \in FetchType : AP!Set(c, p, f) /\ f.at \in {"plain", "lookup",
                 "browser", "fetched", "failed"}
    <3>1. l \in FetchPlaces
      BY DEF FetchPlaces
    <3> DEFINE f == [fetch[c][p] EXCEPT !.at = l]
    <3>2. f \in FetchType /\ f.at = l /\ AP!Set(c, p, f)
      BY <2>1, <3>1, Moves DEF AP!Goto, PaheInv
    <3> HIDE DEF f
    <3> QED
      BY <3>2
  <2>2. CASE AP!Set(c, p, AP!NewFetch)
    BY <2>2, Fetches
  <2>3. \/ AP!Set(c, p, AP!NewFetch) \/ AP!Goto(c, p, "lookup") \/ AP!Goto(c, p,
             "fetched") \/ AP!Goto(c, p, "browser")
        \/ AP!Goto(c, p, "failed")
    BY Zenon DEF AP!Dispatch, AP!PlainRequest, AP!BrowserFetch
  <2> QED
    BY <2>1, <2>2, <2>3
<1> QED
  BY <1>1, <1>2, QuietKeeps

\* A step of one fetch, whatever it does to the cookies.
LEMMA FetchStep ==
  ASSUME PaheInv, NEW c \in Calls, NEW p \in AP!Pages, NEW f \in FetchType, AP!Set(c, p, f),
         AP!At(c, p) # "none", UNCHANGED <<activeBase, AP!own>>
  PROVE  /\ fetch' \in [Calls -> [AP!Pages -> FetchType]]
         /\ fetch'[c][p] = f
         /\ \A d \in Calls, q \in AP!Pages : <<d, q>> # <<c, p>>
              => fetch'[d][q] = fetch[d][q]
         /\ \A d \in Calls : AP!Base(d)' = AP!Base(d)
         /\ CallsTyped' /\ \A d \in Calls : CallGoes(d)'
<1>1. /\ fetch' \in [Calls -> [AP!Pages -> FetchType]]
      /\ fetch'[c][p] = f
      /\ \A d \in Calls, q \in AP!Pages : <<d, q>> # <<c, p>> => fetch'[d][q] = fetch[d][q]
  BY SetOne DEF PaheInv
<1>2. UNCHANGED <<stage, bases, all, activeBase>>
  BY DEF AP!own
<1>3. \A d \in Calls : CallGoes(d)'
  <2>1. \A d \in Calls, q \in AP!Pages : AP!At(d, q) = "none" => fetch'[d][q].at = "none"
    BY <1>1 DEF AP!At
  <2> QED
    BY <1>2, <2>1, GoesOn DEF PaheInv
<1> QED
  BY <1>1, <1>2, <1>3 DEF PaheInv, CallsTyped, AP!Base

LEMMA CookiesKeep ==
  ASSUME AP!AnimePaheAssumption, PaheInv, NEW c \in Calls, NEW p \in AP!Pages,
         AP!GetValidCookies(c, p)
  PROVE  PaheInv'
<1> DEFINE b == AP!Base(c)
           sends == [fetch[c][p] EXCEPT !.at = "send", !.cookies = cached'[b]]
           wait == [fetch[c][p] EXCEPT !.at = "waiting", !.solver = inflight[b]]
           solve == [fetch[c][p] EXCEPT !.at = "solving"]
<1>1. /\ AP!At(c, p) = "lookup" /\ UNCHANGED <<activeBase, kept, solved, AP!own, refused>>
      /\ AP!At(c, p) # "none"
  BY DEF AP!GetValidCookies
<1>2. b \in AP!Bases /\ fetch[c][p] \in FetchType
  <2>1. bases[c] # <<>> /\ bases[c] \in Seq(AP!Bases)
    BY <1>1 DEF PaheInv, CallGoes, CallsTyped
  <2> QED
    BY <2>1 DEF AP!Base, PaheInv, JarsTyped
<1> HIDE DEF b
<1>3. CASE /\ Stored(b) # {} /\ AP!Set(c, p, sends) /\ UNCHANGED inflight
           /\ cached' = [cached EXCEPT ![b] = IF cached[b] # Nothing THEN cached[b] ELSE kept[b]]
  <2>1. /\ cached' \in [AP!Bases -> (1 .. solved) \cup {Nothing}] /\ cached'[b] \in Stored(b)
        /\ \A d \in AP!Bases \ {b} : cached'[d] = cached[d]
    BY <1>2, <1>3 DEF PaheInv, JarsTyped, Stored
  <2>2. \A d \in AP!Bases : Stored(d)' \subseteq Stored(d)
    BY <1>1, <2>1 DEF Stored
  <2>3. cached'[b] \in 1 .. solved /\ cached'[b] \in AP!Jars
    BY <1>2, <2>1 DEF PaheInv, JarsTyped, Stored, AP!Jars, AP!AnimePaheAssumption
  <2>4. sends \in FetchType /\ sends.at = "send" /\ sends.cookies = cached'[b]
    BY <1>2, <2>3 DEF FetchType, FetchPlaces
  <2> HIDE DEF sends
  <2>5. /\ fetch' \in [Calls -> [AP!Pages -> FetchType]]
        /\ fetch'[c][p] = sends
        /\ \A d \in Calls, q \in AP!Pages : <<d, q>> # <<c, p>>
             => fetch'[d][q] = fetch[d][q]
        /\ \A d \in Calls : AP!Base(d)' = AP!Base(d)
        /\ CallsTyped' /\ \A d \in Calls : CallGoes(d)'
    BY <1>1, <1>3, <2>4, FetchStep
  <2>6. JarsTyped'
    BY <1>1, <1>3, <2>1, <2>5 DEF PaheInv, JarsTyped
  <2>7. SolversNamed'
    <3>1. \A d \in Calls, q \in AP!Pages :
            (AP!At(d, q) \in {"solving", "waiting"} \/ AP!At(d, q)' \in {"solving",
                "waiting"})
              => fetch'[d][q] = fetch[d][q]
      BY <1>1, <2>4, <2>5 DEF AP!At
    <3>2. ASSUME NEW d \in AP!Bases, inflight'[d] # Nothing
          PROVE  \E e \in Calls, q \in AP!Pages :
                   inflight'[d] = <<e, q>> /\ AP!At(e, q)' = "solving" /\ AP!Base(e)' = d
      <4>1. PICK e \in Calls, q \in AP!Pages :
              inflight[d] = <<e, q>> /\ AP!At(e, q) = "solving" /\ AP!Base(e) = d
        BY <3>2, <1>3 DEF PaheInv, JarsGo, SolversNamed
      <4> QED
        BY <4>1, <3>1, <1>3, <2>5 DEF AP!At
    <3>3. ASSUME NEW d \in Calls, NEW q \in AP!Pages
          PROVE  /\ AP!At(d, q)' = "solving" => inflight'[AP!Base(d)'] = <<d, q>>
                 /\ AP!At(d, q)' = "waiting" => inflight'[AP!Base(d)'] # Nothing
                                             /\ fetch'[d][q].solver = inflight'[AP!Base(d)']
      BY <3>1, <1>3, <2>5 DEF PaheInv, JarsGo, SolversNamed, AP!At
    <3> QED
      BY <3>2, <3>3 DEF SolversNamed
  <2>8. \A d \in Calls, q \in AP!Pages : InHand(d, q)'
    <3>1. InHand(c, p)'
      <4>1. cached'[b] \notin refused[c][p]
        BY <1>2, <2>1 DEF PaheInv, JarsGo, RefusedGone
      <4>2. \A d \in AP!Bases \ {b} : cached'[b] \notin Stored(d)'
        BY <1>2, <2>1, <2>2 DEF PaheInv, JarsGo, JarsApart
      <4> QED
        BY <1>1, <2>3, <2>4, <2>5, <4>1, <4>2 DEF InHand, AP!At, b
    <3>2. ASSUME NEW d \in Calls, NEW q \in AP!Pages, <<d, q>> # <<c, p>>
          PROVE InHand(d, q)'
      <4>1. InHand(d, q) /\ fetch'[d][q] = fetch[d][q] /\ AP!Base(d)' = AP!Base(d)
        BY <2>5, <3>2 DEF PaheInv, JarsGo
      <4> QED
        BY <4>1, <1>1, <2>2 DEF InHand, AP!At
    <3> QED
      BY <3>1, <3>2
  <2>9. JarsApart' /\ RefusedGone'
    BY <1>1, <2>2 DEF PaheInv, JarsGo, JarsApart, RefusedGone
  <2> QED
    BY <2>5, <2>6, <2>7, <2>8, <2>9 DEF PaheInv, JarsGo
<1>4. CASE inflight[b] # Nothing /\ AP!Set(c, p, wait) /\ UNCHANGED <<cached, inflight>>
  <2>1. wait \in FetchType /\ wait.at = "waiting" /\ wait.solver = inflight[b]
    <3>1. inflight[b] \in AP!PageFetches
      BY <1>2, <1>4 DEF PaheInv, JarsTyped
    <3> QED
      BY <1>2, <3>1 DEF FetchType, FetchPlaces
  <2> HIDE DEF wait
  <2>2. /\ fetch' \in [Calls -> [AP!Pages -> FetchType]]
        /\ fetch'[c][p] = wait
        /\ \A d \in Calls, q \in AP!Pages : <<d, q>> # <<c, p>>
             => fetch'[d][q] = fetch[d][q]
        /\ \A d \in Calls : AP!Base(d)' = AP!Base(d)
        /\ CallsTyped' /\ \A d \in Calls : CallGoes(d)'
    BY <1>1, <1>4, <2>1, FetchStep
  <2>3. JarsTyped'
    BY <1>1, <1>4, <2>2 DEF PaheInv, JarsTyped
  <2>4. \A d \in AP!Bases : Stored(d)' = Stored(d)
    BY <1>1, <1>4 DEF Stored
  <2>5. SolversNamed'
    <3>1. ASSUME NEW d \in AP!Bases, inflight'[d] # Nothing
          PROVE  \E e \in Calls, q \in AP!Pages :
                   inflight'[d] = <<e, q>> /\ AP!At(e, q)' = "solving" /\ AP!Base(e)' = d
      <4>1. PICK e \in Calls, q \in AP!Pages :
              inflight[d] = <<e, q>> /\ AP!At(e, q) = "solving" /\ AP!Base(e) = d
        BY <3>1, <1>4 DEF PaheInv, JarsGo, SolversNamed
      <4>2. fetch'[e][q] = fetch[e][q]
        BY <4>1, <1>1, <2>2 DEF AP!At
      <4> QED
        BY <4>1, <4>2, <1>4, <2>2 DEF AP!At
    <3>2. ASSUME NEW d \in Calls, NEW q \in AP!Pages, <<d, q>> # <<c, p>>
          PROVE  /\ AP!At(d, q)' = "solving" => inflight'[AP!Base(d)'] = <<d, q>>
                 /\ AP!At(d, q)' = "waiting" => inflight'[AP!Base(d)'] # Nothing
                                             /\ fetch'[d][q].solver = inflight'[AP!Base(d)']
      BY <3>2, <1>4, <2>2 DEF PaheInv, JarsGo, SolversNamed, AP!At
    <3>3. /\ AP!At(c, p)' # "solving"
          /\ inflight'[AP!Base(c)'] # Nothing /\ fetch'[c][p].solver = inflight'[AP!Base(c)']
      BY <1>4, <2>1, <2>2 DEF AP!At, b
    <3> QED
      BY <3>1, <3>2, <3>3 DEF SolversNamed
  <2>6. \A d \in Calls, q \in AP!Pages : InHand(d, q)'
    <3>1. ASSUME NEW d \in Calls, NEW q \in AP!Pages, AP!At(d, q)' = "send"
          PROVE  InHand(d, q) /\ fetch'[d][q] = fetch[d][q] /\ AP!Base(d)' = AP!Base(d)
      BY <2>1, <2>2, <3>1 DEF PaheInv, JarsGo, AP!At
    <3> QED
      BY <3>1, <1>1, <2>4 DEF InHand, AP!At
  <2>7. JarsApart' /\ RefusedGone'
    BY <1>1, <2>4 DEF PaheInv, JarsGo, JarsApart, RefusedGone
  <2> QED
    BY <2>2, <2>3, <2>5, <2>6, <2>7 DEF PaheInv, JarsGo
<1>5. CASE /\ inflight[b] = Nothing /\ inflight' = [inflight EXCEPT ![b] = <<c, p>>]
           /\ AP!Set(c, p, solve) /\ UNCHANGED cached
  <2>1. solve \in FetchType /\ solve.at = "solving"
    BY <1>2 DEF FetchType, FetchPlaces
  <2> HIDE DEF solve
  <2>2. /\ fetch' \in [Calls -> [AP!Pages -> FetchType]]
        /\ fetch'[c][p] = solve
        /\ \A d \in Calls, q \in AP!Pages : <<d, q>> # <<c, p>>
             => fetch'[d][q] = fetch[d][q]
        /\ \A d \in Calls : AP!Base(d)' = AP!Base(d)
        /\ CallsTyped' /\ \A d \in Calls : CallGoes(d)'
    BY <1>1, <1>5, <2>1, FetchStep
  <2>3. /\ inflight' \in [AP!Bases -> AP!PageFetches \cup {Nothing}] /\ inflight'[b] = <<c,
             p>>
        /\ \A d \in AP!Bases \ {b} : inflight'[d] = inflight[d]
    BY <1>2, <1>5 DEF PaheInv, JarsTyped, AP!PageFetches
  <2>4. JarsTyped'
    BY <1>1, <1>5, <2>2, <2>3 DEF PaheInv, JarsTyped
  <2>5. \A d \in AP!Bases : Stored(d)' = Stored(d)
    BY <1>1, <1>5 DEF Stored
  <2>6. SolversNamed'
    <3>1. ASSUME NEW d \in AP!Bases, inflight'[d] # Nothing
          PROVE  \E e \in Calls, q \in AP!Pages :
                   inflight'[d] = <<e, q>> /\ AP!At(e, q)' = "solving" /\ AP!Base(e)' = d
      <4>1. CASE d = b
        BY <4>1, <2>1, <2>2, <2>3 DEF AP!At, b
      <4>2. CASE d # b
        <5>1. PICK e \in Calls, q \in AP!Pages :
                inflight[d] = <<e, q>> /\ AP!At(e, q) = "solving" /\ AP!Base(e) = d
          BY <3>1, <4>2, <2>3 DEF PaheInv, JarsGo, SolversNamed
        <5>2. fetch'[e][q] = fetch[e][q]
          BY <5>1, <1>1, <2>2 DEF AP!At
        <5> QED
          BY <5>1, <5>2, <4>2, <2>2, <2>3 DEF AP!At
      <4> QED
        BY <4>1, <4>2
    <3>2. ASSUME NEW d \in Calls, NEW q \in AP!Pages, <<d, q>> # <<c, p>>,
                 AP!At(d, q)' \in {"solving", "waiting"}
          PROVE  /\ AP!At(d, q)' = "solving" => inflight'[AP!Base(d)'] = <<d, q>>
                 /\ AP!At(d, q)' = "waiting" => inflight'[AP!Base(d)'] # Nothing
                                             /\ fetch'[d][q].solver = inflight'[AP!Base(d)']
      <4>1. fetch'[d][q] = fetch[d][q] /\ AP!Base(d)' = AP!Base(d) /\ AP!At(d,
              q)' = AP!At(d, q)
        BY <2>2, <3>2 DEF AP!At
      <4>2. bases[d] # <<>> /\ bases[d] \in Seq(AP!Bases)
        BY <3>2, <4>1 DEF PaheInv, CallsTyped, CallGoes
      <4>3. AP!Base(d) \in AP!Bases
        BY <4>2 DEF AP!Base
      <4>4. inflight[AP!Base(d)] # Nothing
        <5>1. <<d, q>> \in AP!PageFetches /\ Nothing \notin AP!PageFetches
          BY DEF AP!AnimePaheAssumption, AP!PageFetches
        <5>2. AP!At(d, q) = "solving" => inflight[AP!Base(d)] = <<d, q>>
          BY DEF PaheInv, JarsGo, SolversNamed
        <5>3. AP!At(d, q) = "waiting" => inflight[AP!Base(d)] # Nothing
          BY DEF PaheInv, JarsGo, SolversNamed
        <5> QED
          BY <3>2, <4>1, <5>1, <5>2, <5>3
      <4>5. AP!Base(d) # b
        BY <4>4, <1>5
      <4> QED
        BY <3>2, <4>1, <4>3, <4>5, <2>3 DEF PaheInv, JarsGo, SolversNamed
    <3>3. AP!At(c, p)' = "solving" /\ inflight'[AP!Base(c)'] = <<c, p>>
      BY <2>1, <2>2, <2>3 DEF AP!At, b
    <3> QED
      BY <3>1, <3>2, <3>3 DEF SolversNamed
  <2>7. \A d \in Calls, q \in AP!Pages : InHand(d, q)'
    <3>1. ASSUME NEW d \in Calls, NEW q \in AP!Pages, AP!At(d, q)' = "send"
          PROVE  InHand(d, q) /\ fetch'[d][q] = fetch[d][q] /\ AP!Base(d)' = AP!Base(d)
      BY <2>1, <2>2, <3>1 DEF PaheInv, JarsGo, AP!At
    <3> QED
      BY <3>1, <1>1, <2>5 DEF InHand, AP!At
  <2>8. JarsApart' /\ RefusedGone'
    BY <1>1, <2>5 DEF PaheInv, JarsGo, JarsApart, RefusedGone
  <2> QED
    BY <2>2, <2>4, <2>6, <2>7, <2>8 DEF PaheInv, JarsGo
<1>6. Stored(b) # {} <=> cached[b] # Nothing \/ kept[b] # Nothing
  BY DEF Stored
<1> QED
  BY <1>3, <1>4, <1>5, <1>6, Zenon DEF AP!GetValidCookies, AP!Goto, b

\* The end of a solve: all who share it have its cookies, or go on without.
LEMMA SolvedKeeps ==
  ASSUME AP!AnimePaheAssumption, PaheInv, NEW c \in Calls, NEW p \in AP!Pages,
         AP!Solved(c, p)
  PROVE  PaheInv'
<1> DEFINE b == AP!Base(c)
           Aboard(d, q) == <<d, q>> = <<c,
               p>> \/ (AP!At(d, q) = "waiting" /\ fetch[d][q].solver = <<c, p>>)
           next == IF cached'[b] = Nothing THEN "browser" ELSE "send"
           New(f) == [f EXCEPT !.solver = Nothing, !.cookies = cached'[b], !.at = next]
<1>1. /\ AP!At(c, p) = "solving" /\ UNCHANGED <<activeBase, stage, bases, queries, all,
           refused>>
      /\ kept' = [kept EXCEPT ![b] = cached'[b]] /\ inflight' = [inflight EXCEPT ![b] = Nothing]
      /\ \/ solved < MaxCookies /\ solved' = solved + 1 /\ cached' = [cached EXCEPT ![b] = solved + 1]
         \/ cached' = [cached EXCEPT ![b] = Nothing] /\ UNCHANGED solved
  BY DEF AP!Solved, AP!own
<1>2. b \in AP!Bases /\ inflight[b] = <<c, p>>
  <2>1. bases[c] # <<>> /\ bases[c] \in Seq(AP!Bases)
    BY <1>1 DEF PaheInv, CallGoes, CallsTyped
  <2>2. AP!Base(c) \in AP!Bases
    BY <2>1 DEF AP!Base
  <2>3. inflight[AP!Base(c)] = <<c, p>>
    BY <1>1 DEF PaheInv, JarsGo, SolversNamed
  <2> QED
    BY <2>2, <2>3
<1>3. \A d \in Calls, q \in AP!Pages :
        fetch'[d][q] = IF Aboard(d, q) THEN New(fetch[d][q]) ELSE fetch[d][q]
  BY DEF AP!Solved, AP!Outcome, AP!At
<1>4. \A d \in Calls : AP!Base(d)' = AP!Base(d)
  BY <1>1 DEF AP!Base
\* Whoever is aboard is at the mirror.
<1>5. \A d \in Calls, q \in AP!Pages : Aboard(d, q) => AP!Base(d) = b
  <2> SUFFICES ASSUME NEW d \in Calls, NEW q \in AP!Pages, AP!At(d, q) = "waiting",
        fetch[d][q].solver = <<c, p>>
               PROVE  AP!Base(d) = b
    OBVIOUS
  <2>1. inflight[AP!Base(d)] # Nothing /\ inflight[AP!Base(d)] = <<c, p>>
    BY DEF PaheInv, JarsGo, SolversNamed
  <2>2. bases[d] # <<>> /\ bases[d] \in Seq(AP!Bases)
    BY DEF PaheInv, CallGoes, CallsTyped
  <2>3. AP!Base(d) \in AP!Bases
    BY <2>2 DEF AP!Base
  <2>4. PICK e \in Calls,
          r \in AP!Pages : inflight[AP!Base(d)] = <<e, r>> /\ AP!Base(e) = AP!Base(d)
    BY <2>1, <2>3 DEF PaheInv, JarsGo, SolversNamed
  <2> QED
    BY <2>1, <2>4
<1>6. /\ solved' \in 0 .. MaxCookies /\ solved <= solved' /\ solved \in Nat /\ solved' \in Nat
      /\ cached'[b] \in {Nothing, solved + 1} /\ kept'[b] = cached'[b]
      /\ cached'[b] # Nothing => cached'[b] = solved + 1 /\ solved' = solved + 1
      /\ \A d \in AP!Bases \ {b} : cached'[d] = cached[d] /\ kept'[d] = kept[d] /\ inflight'[d] = inflight[d]
      /\ inflight'[b] = Nothing
  BY <1>1, <1>2 DEF PaheInv, JarsTyped, AP!AnimePaheAssumption
<1>7. cached'[b] \in (1 .. solved') \cup {Nothing}
  BY <1>6
<1>8. /\ cached' \in [AP!Bases -> (1 .. solved') \cup {Nothing}]
      /\ kept' \in [AP!Bases -> (1 .. solved') \cup {Nothing}]
      /\ inflight' \in [AP!Bases -> AP!PageFetches \cup {Nothing}]
  <2>1. /\ cached \in [AP!Bases -> (1 .. solved') \cup {Nothing}]
        /\ kept \in [AP!Bases -> (1 .. solved') \cup {Nothing}]
        /\ inflight \in [AP!Bases -> AP!PageFetches \cup {Nothing}]
    <3>1. 1 .. solved \subseteq 1 .. solved'
      BY <1>6
    <3> QED
      BY <3>1 DEF PaheInv, JarsTyped
  <2>2. cached' = [cached EXCEPT ![b] = cached'[b]] /\ DOMAIN cached = AP!Bases
    BY <1>1, <1>2 DEF PaheInv, JarsTyped
  <2> QED
    BY <1>1, <1>2, <1>7, <2>1, <2>2
<1>9. ASSUME NEW d \in Calls, NEW q \in AP!Pages
      PROVE  /\ fetch'[d][q] \in FetchType
             /\ Aboard(d, q) => fetch'[d][q].at = next /\ fetch'[d][q].cookies = cached'[b]
             /\ ~Aboard(d, q) => fetch'[d][q] = fetch[d][q]
  <2>1. fetch[d][q] \in FetchType /\ cached'[b] \in AP!Jars \cup {Nothing} /\ next \in FetchPlaces
    BY <1>6, <1>7 DEF PaheInv, JarsTyped, AP!Jars, FetchPlaces
  <2> HIDE DEF next, Aboard
  <2> QED
    BY <1>3, <2>1 DEF FetchType
<1> HIDE DEF New
<1>10. fetch' \in [Calls -> [AP!Pages -> FetchType]]
  <2>1. fetch' = [d \in Calls |-> [q \in AP!Pages |-> fetch'[d][q]]]
    BY Zenon DEF AP!Solved
  <2> HIDE DEF Aboard, next
  <2> QED
    BY <1>9, <2>1
<1>11. JarsTyped'
  <2>1. refused \in [Calls -> [AP!Pages -> SUBSET (1 .. solved')]]
    <3>1. 1 .. solved \subseteq 1 .. solved'
      BY <1>6
    <3> QED
      BY <3>1 DEF PaheInv, JarsTyped
  <2> QED
    BY <1>1, <1>6, <1>8, <1>10, <2>1 DEF JarsTyped
<1>12. CallsTyped' /\ \A d \in Calls : CallGoes(d)'
  <2>1. CallsTyped'
    BY <1>1 DEF PaheInv, CallsTyped
  <2>2. \A d \in Calls, q \in AP!Pages : AP!At(d, q) = "none" => fetch'[d][q].at = "none"
    BY <1>1, <1>9 DEF AP!At
  <2> QED
    BY <1>1, <2>1, <2>2, GoesOn DEF PaheInv
<1>13. SolversNamed'
  <2>1. \A d \in Calls, q \in AP!Pages :
          AP!At(d, q)' \in {"solving", "waiting"}
              => ~Aboard(d, q) /\ fetch'[d][q] = fetch[d][q]
    BY <1>9 DEF AP!At
  <2>2. ASSUME NEW d \in Calls, NEW q \in AP!Pages, AP!At(d, q)' \in {"solving", "waiting"}
        PROVE  /\ AP!At(d, q) = AP!At(d, q)' /\ fetch'[d][q] = fetch[d][q]
               /\ AP!Base(d) \in AP!Bases \ {b}
    <3>1. fetch'[d][q] = fetch[d][q] /\ AP!At(d, q) = AP!At(d, q)' /\ ~Aboard(d, q)
      BY <2>1, <2>2 DEF AP!At
    <3>2. bases[d] # <<>> /\ bases[d] \in Seq(AP!Bases)
      BY <2>2, <3>1 DEF PaheInv, CallGoes, CallsTyped
    <3>3. AP!Base(d) \in AP!Bases
      BY <3>2 DEF AP!Base
    <3>4. AP!At(d, q) = "solving" => inflight[AP!Base(d)] = <<d, q>>
      BY DEF PaheInv, JarsGo, SolversNamed
    <3>5. AP!At(d, q) = "waiting" => fetch[d][q].solver = inflight[AP!Base(d)]
      BY DEF PaheInv, JarsGo, SolversNamed
    <3>6. AP!Base(d) # b
      BY <1>2, <2>2, <3>1, <3>4, <3>5
    <3> QED
      BY <3>1, <3>3, <3>6
  <2>3. ASSUME NEW d \in AP!Bases, inflight'[d] # Nothing
        PROVE  \E e \in Calls, q \in AP!Pages :
                 inflight'[d] = <<e, q>> /\ AP!At(e, q)' = "solving" /\ AP!Base(e)' = d
    <3>1. d # b
      BY <2>3, <1>6
    <3>2. PICK e \in Calls, q \in AP!Pages :
            inflight[d] = <<e, q>> /\ AP!At(e, q) = "solving" /\ AP!Base(e) = d
      BY <2>3, <3>1, <1>6 DEF PaheInv, JarsGo, SolversNamed
    <3>3. ~Aboard(e, q)
      BY <3>1, <3>2, <1>5
    <3>4. fetch'[e][q] = fetch[e][q]
      BY <3>3, <1>9
    <3> QED
      BY <3>1, <3>2, <3>4, <1>4, <1>6 DEF AP!At
  <2>4. ASSUME NEW d \in Calls, NEW q \in AP!Pages, AP!At(d, q)' = "solving"
        PROVE  inflight'[AP!Base(d)'] = <<d, q>>
    <3>1. AP!At(d, q) = "solving" /\ AP!Base(d) \in AP!Bases \ {b}
      BY <2>2, <2>4
    <3>2. inflight[AP!Base(d)] = <<d, q>>
      BY <3>1 DEF PaheInv, JarsGo, SolversNamed
    <3> QED
      BY <3>1, <3>2, <1>4, <1>6
  <2>5. ASSUME NEW d \in Calls, NEW q \in AP!Pages, AP!At(d, q)' = "waiting"
        PROVE  inflight'[AP!Base(d)'] # Nothing /\ fetch'[d][q].solver = inflight'[AP!Base(d)']
    <3>1. AP!At(d,
            q) = "waiting" /\ AP!Base(d) \in AP!Bases \ {b} /\ fetch'[d][q] = fetch[d][q]
      BY <2>2, <2>5
    <3>2. inflight[AP!Base(d)] # Nothing /\ fetch[d][q].solver = inflight[AP!Base(d)]
      BY <3>1 DEF PaheInv, JarsGo, SolversNamed
    <3> QED
      BY <3>1, <3>2, <1>4, <1>6
  <2> QED
    BY <2>3, <2>4, <2>5 DEF SolversNamed
\* What is new was neither stored nor refused before.
<1>14. \A d \in AP!Bases : d = b => Stored(d)' \subseteq {solved + 1}
  <2> SUFFICES ASSUME NEW d \in AP!Bases, d = b
        PROVE {cached'[d], kept'[d]} \ {Nothing} \subseteq {solved + 1}
    BY DEF Stored
  <2>1. cached'[d] \in {Nothing, solved + 1} /\ kept'[d] = cached'[d]
    BY <1>6
  <2> QED
    BY <2>1
<1>15. /\ \A d \in AP!Bases : Stored(d)' \subseteq Stored(d) \cup {solved + 1}
       /\ \A d \in AP!Bases \ {b} : Stored(d)' = Stored(d)
       /\ \A d \in AP!Bases : Stored(d) \subseteq 1 .. solved
  <2>1. \A d \in AP!Bases \ {b} : Stored(d)' = Stored(d)
    BY <1>6 DEF Stored
  <2>2. \A d \in AP!Bases : Stored(d) \subseteq 1 .. solved
    BY DEF Stored, PaheInv, JarsTyped
  <2>3. \A d \in AP!Bases : d = b => Stored(d)' \subseteq {solved + 1}
    BY <1>14
  <2> HIDE DEF b
  <2> QED
    BY <2>1, <2>2, <2>3
<1>16. solved + 1 \notin 1 .. solved /\ 1 .. solved \subseteq 1 .. solved'
  BY <1>6
<1>17. JarsApart'
  BY <1>15, <1>14, <1>16 DEF PaheInv, JarsGo, JarsApart
<1>18. RefusedGone'
  <2>1. \A d \in Calls,
          q \in AP!Pages : refused'[d][q] = refused[d][q] /\ refused[d][q] \subseteq 1 .. solved
    BY <1>1 DEF PaheInv, JarsTyped
  <2> QED
    BY <1>15, <1>16, <2>1 DEF PaheInv, JarsGo, RefusedGone
<1>19. ASSUME NEW d \in Calls, NEW q \in AP!Pages PROVE InHand(d, q)'
  <2>1. refused'[d][q] = refused[d][q] /\ refused[d][q] \subseteq 1 .. solved
    BY <1>1 DEF PaheInv, JarsTyped
  <2>2. CASE Aboard(d, q)
    <3>1. AP!Base(d)' = b /\ fetch'[d][q].cookies = cached'[b] /\ fetch'[d][q].at = next
      BY <1>4, <1>5, <1>9, <2>2
    <3>2. CASE cached'[b] = Nothing
      BY <3>1, <3>2 DEF InHand, AP!At
    <3>3. CASE cached'[b] # Nothing
      <4>1. cached'[b] = solved + 1 /\ cached'[b] \in 1 .. solved'
        BY <1>6, <3>3
      <4>2. \A e \in AP!Bases \ {b} : cached'[b] \notin Stored(e)'
        BY <1>15, <1>16, <4>1
      <4> QED
        BY <2>1, <3>1, <4>1, <4>2, <1>16 DEF InHand
    <3> QED
      BY <3>2, <3>3
  <2>3. CASE ~Aboard(d, q)
    <3>1. fetch'[d][q] = fetch[d][q] /\ InHand(d, q)
      BY <1>9, <2>3 DEF PaheInv, JarsGo
    <3> QED
      BY <3>1, <2>1, <1>4, <1>15, <1>16 DEF InHand, AP!At
  <2> QED
    BY <2>2, <2>3
<1> QED
  BY <1>11, <1>12, <1>13, <1>17, <1>18, <1>19 DEF PaheInv, JarsGo

\* A mirror's cookies are forgotten, and perhaps refused to one of its fetches.
LEMMA ForgetKeeps ==
  ASSUME PaheInv, NEW b \in AP!Bases, AP!InvalidateCookies(b),
         UNCHANGED <<inflight, solved>>,
         CallsTyped', \A d \in Calls : CallGoes(d)',
             \A d \in Calls : AP!Base(d)' = AP!Base(d),
         fetch' \in [Calls -> [AP!Pages -> FetchType]],
         \A d \in Calls, q \in AP!Pages : \/ fetch'[d][q] = fetch[d][q]
                                          \/ AP!At(d,
                                               q) = "send" /\ fetch'[d][q].at = "plain",
         refused' \in [Calls -> [AP!Pages -> SUBSET (1 .. solved)]],
         \A d \in Calls, q \in AP!Pages :
           fetch'[d][q] = fetch[d][q] => refused'[d][q] = refused[d][q],
         \A d \in Calls, q \in AP!Pages, e \in AP!Bases \ {b} :
           (refused'[d][q] \ refused[d][q]) \cap Stored(e) = {}
  PROVE  PaheInv'
<1>1. /\ cached' \in [AP!Bases -> (1 .. solved) \cup {Nothing}] /\ cached'[b] = Nothing
      /\ kept' \in [AP!Bases -> (1 .. solved) \cup {Nothing}] /\ kept'[b] = Nothing
      /\ \A d \in AP!Bases \ {b} : cached'[d] = cached[d] /\ kept'[d] = kept[d]
  BY DEF AP!InvalidateCookies, PaheInv, JarsTyped
<1>2. \A d \in AP!Bases : Stored(d)' = IF d = b THEN {} ELSE Stored(d)
  BY <1>1 DEF Stored
<1>3. JarsTyped'
  BY <1>1 DEF PaheInv, JarsTyped
<1>4. \A d \in Calls, q \in AP!Pages :
        (AP!At(d, q) \in {"solving", "waiting"} \/ AP!At(d, q)' \in {"solving", "waiting",
            "send"})
          => fetch'[d][q] = fetch[d][q]
  BY DEF AP!At
<1>5. SolversNamed'
  <2>1. ASSUME NEW d \in AP!Bases, inflight'[d] # Nothing
        PROVE  \E e \in Calls, q \in AP!Pages :
                 inflight'[d] = <<e, q>> /\ AP!At(e, q)' = "solving" /\ AP!Base(e)' = d
    <3>1. PICK e \in Calls, q \in AP!Pages :
            inflight[d] = <<e, q>> /\ AP!At(e, q) = "solving" /\ AP!Base(e) = d
      BY <2>1 DEF PaheInv, JarsGo, SolversNamed
    <3> QED
      BY <3>1, <1>4 DEF AP!At
  <2>2. ASSUME NEW d \in Calls, NEW q \in AP!Pages
        PROVE  /\ AP!At(d, q)' = "solving" => inflight'[AP!Base(d)'] = <<d, q>>
               /\ AP!At(d, q)' = "waiting" => inflight'[AP!Base(d)'] # Nothing
                                           /\ fetch'[d][q].solver = inflight'[AP!Base(d)']
    BY <1>4 DEF PaheInv, JarsGo, SolversNamed, AP!At
  <2> QED
    BY <2>1, <2>2 DEF SolversNamed
<1>6. \A d \in Calls, q \in AP!Pages : InHand(d, q)'
  <2>1. ASSUME NEW d \in Calls, NEW q \in AP!Pages, AP!At(d, q)' = "send"
        PROVE  /\ InHand(d, q) /\ fetch'[d][q] = fetch[d][q]
               /\ AP!At(d, q) = "send" /\ refused'[d][q] = refused[d][q]
    <3>1. fetch'[d][q] = fetch[d][q]
      BY <2>1, <1>4
    <3> QED
      BY <2>1, <3>1 DEF PaheInv, JarsGo, AP!At
  <2> QED
    BY <2>1, <1>2 DEF InHand
<1>7. JarsApart'
  BY <1>2 DEF PaheInv, JarsGo, JarsApart
<1>8. RefusedGone'
  <2>1. ASSUME NEW d \in Calls, NEW q \in AP!Pages, NEW e \in AP!Bases \ {b}
        PROVE  refused'[d][q] \cap Stored(e) = {}
    BY DEF PaheInv, JarsGo, RefusedGone
  <2> QED
    BY <2>1, <1>2 DEF RefusedGone
<1> QED
  BY <1>3, <1>5, <1>6, <1>7, <1>8 DEF PaheInv, JarsGo

\* A refusal: what was sent is forgotten, and stored for no other mirror.
LEMMA RefuseKeeps ==
  ASSUME PaheInv, NEW c \in Calls, NEW p \in AP!Pages, AP!At(c, p) = "send",
         AP!InvalidateCookies(AP!Base(c)),
             AP!Set(c, p, [AP!NewFetch EXCEPT !.retry = FALSE]),
         refused' = [refused EXCEPT ![c][p] = @ \cup {fetch[c][p].cookies}],
         UNCHANGED <<activeBase, inflight, solved, AP!own>>
  PROVE  PaheInv'
<1> DEFINE f == [AP!NewFetch EXCEPT !.retry = FALSE]
           k == fetch[c][p].cookies
<1>1. f \in FetchType /\ f.at = "plain"
  BY Fetches DEF FetchType
<1> HIDE DEF f
<1>2. /\ fetch' \in [Calls -> [AP!Pages -> FetchType]] /\ fetch'[c][p] = f
      /\ \A d \in Calls, q \in AP!Pages : <<d, q>> # <<c, p>> => fetch'[d][q] = fetch[d][q]
      /\ \A d \in Calls : AP!Base(d)' = AP!Base(d)
      /\ CallsTyped' /\ \A d \in Calls : CallGoes(d)'
  BY <1>1, FetchStep DEF f
<1>3. AP!Base(c) \in AP!Bases
  <2>1. bases[c] # <<>> /\ bases[c] \in Seq(AP!Bases)
    BY DEF PaheInv, CallGoes, CallsTyped
  <2> QED
    BY <2>1 DEF AP!Base
<1>4. k \in 1 .. solved /\ \A e \in AP!Bases \ {AP!Base(c)} : k \notin Stored(e)
  BY DEF PaheInv, JarsGo, InHand
<1> HIDE DEF k
<1>5. /\ refused' \in [Calls -> [AP!Pages -> SUBSET (1 .. solved)]]
      /\ refused'[c][p] = refused[c][p] \cup {k}
      /\ \A d \in Calls, q \in AP!Pages : <<d, q>> # <<c, p>>
           => refused'[d][q] = refused[d][q]
  <2>1. refused' = [refused EXCEPT ![c][p] = refused[c][p] \cup {k}]
    BY DEF k
  <2> QED
    BY <1>4, <2>1 DEF PaheInv, JarsTyped
<1>6. \A d \in Calls, q \in AP!Pages, e \in AP!Bases \ {AP!Base(c)} :
        (refused'[d][q] \ refused[d][q]) \cap Stored(e) = {}
  BY <1>4, <1>5
<1>7. \A d \in Calls, q \in AP!Pages : \/ fetch'[d][q] = fetch[d][q]
                                       \/ AP!At(d, q) = "send" /\ fetch'[d][q].at = "plain"
  BY <1>1, <1>2
<1>8. \A d \in Calls, q \in AP!Pages : fetch'[d][q] = fetch[d][q]
        => refused'[d][q] = refused[d][q]
  BY <1>1, <1>2, <1>5 DEF AP!At
<1> QED
  BY <1>2, <1>3, <1>5, <1>6, <1>7, <1>8, ForgetKeeps

LEMMA SendKeeps == ASSUME PaheInv, NEW c \in Calls, NEW p \in AP!Pages, AP!SendCookies(c, p)
  PROVE PaheInv'
<1>1. /\ AP!At(c, p) = "send" /\ UNCHANGED <<activeBase, inflight, solved, AP!own>>
      /\ \/ /\ AP!Goto(c, p, "fetched") \/ AP!Goto(c, p, "browser")
            /\ UNCHANGED <<cached, kept, refused>>
         \/ /\ AP!InvalidateCookies(AP!Base(c))
            /\ refused' = [refused EXCEPT ![c][p] = @ \cup {fetch[c][p].cookies}]
            /\ AP!Set(c, p, [AP!NewFetch EXCEPT !.retry = FALSE])
  BY Zenon DEF AP!SendCookies
<1>2. CASE (AP!Goto(c, p, "fetched") \/ AP!Goto(c, p, "browser")) /\ UNCHANGED <<cached,
             kept, refused>>
  BY <1>1, <1>2, QuietStepsKeep
<1>3. CASE /\ AP!InvalidateCookies(AP!Base(c))
           /\ refused' = [refused EXCEPT ![c][p] = @ \cup {fetch[c][p].cookies}]
           /\ AP!Set(c, p, [AP!NewFetch EXCEPT !.retry = FALSE])
  BY <1>1, <1>3, RefuseKeeps
<1> QED
  BY <1>1, <1>2, <1>3

LEMMA ExpireKeeps == ASSUME PaheInv, NEW b \in AP!Bases, AP!Expire(b) PROVE PaheInv'
<1>1. AP!InvalidateCookies(b) /\ UNCHANGED <<activeBase, inflight, solved, stage, bases,
        queries, all, fetch, refused>>
  BY DEF AP!Expire, AP!own
<1>2. CallsTyped' /\ \A d \in Calls : CallGoes(d)' /\ AP!Base(d)' = AP!Base(d)
  BY <1>1 DEF PaheInv, CallsTyped, CallGoes, AP!At, AP!Base
<1>3. /\ fetch' \in [Calls -> [AP!Pages -> FetchType]]
      /\ refused' \in [Calls -> [AP!Pages -> SUBSET (1 .. solved)]]
      /\ \A d \in Calls,
           q \in AP!Pages : fetch'[d][q] = fetch[d][q] /\ refused'[d][q] = refused[d][q]
  BY <1>1 DEF PaheInv, JarsTyped
<1> QED
  BY <1>1, <1>2, <1>3, ForgetKeeps

----------------------------------------------------------------------------
LEMMA PaheKeeps == ASSUME AP!AnimePaheAssumption, PaheInv, [AP!Next]_(AP!vars)
  PROVE PaheInv'
<1>1. CASE UNCHANGED AP!vars
  <2>1. UNCHANGED <<activeBase, cached, kept, inflight, solved, stage, bases, queries,
                    fetch, all, refused>>
    BY <1>1 DEF AP!vars
  <2>2. CallsTyped' /\ JarsTyped' /\ \A c \in Calls : CallGoes(c)'
    BY <2>1 DEF PaheInv, CallsTyped, JarsTyped, CallGoes, AP!At, AP!Base
  <2>3. JarsGo'
    BY <2>1 DEF PaheInv, JarsGo, JarsApart, SolversNamed, RefusedGone, InHand, Stored,
         AP!At, AP!Base
  <2> QED
    BY <2>2, <2>3 DEF PaheInv
<1>2. ASSUME NEW c \in Calls, AP!Begin(c) \/ AP!FirstPage(c) \/ AP!RestOfPages(c)
      PROVE  PaheInv'
  BY <1>2, BeginKeeps, FirstPageKeeps, RestKeeps
<1>3. ASSUME NEW c \in Calls, NEW p \in AP!Pages, AP!Fetch(c, p)
      PROVE  PaheInv'
  BY <1>3, QuietStepsKeep, CookiesKeep, SolvedKeeps, SendKeeps, Zenon DEF AP!Fetch
<1>4. ASSUME NEW b \in AP!Bases, AP!Expire(b)
      PROVE  PaheInv'
  BY <1>4, ExpireKeeps
<1> QED
  BY <1>1, <1>2, <1>3, <1>4, Zenon DEF AP!Next, AP!Proceed

LEMMA PaheInvariant == ASSUME AP!AnimePaheAssumption PROVE AP!Spec => []PaheInv
<1>1. AP!Init => PaheInv
  BY InitPahe
<1>2. PaheInv /\ [AP!Next]_(AP!vars) => PaheInv'
  BY PaheKeeps
<1> QED
  BY <1>1, <1>2, PTL DEF AP!Spec

THEOREM RefusedNotResentHolds == ASSUME AP!AnimePaheAssumption
  PROVE AP!Spec => []RefusedNotResent
<1>1. ASSUME PaheInv PROVE RefusedNotResent
  <2>1. Nothing \notin AP!Jars
    BY DEF AP!AnimePaheAssumption
  <2>2. 1 .. solved \subseteq AP!Jars
    BY <1>1 DEF PaheInv, JarsTyped, AP!Jars, AP!AnimePaheAssumption
  <2> QED
    BY <1>1, <2>1, <2>2 DEF RefusedNotResent, AP!RefusedNotResent, PaheInv, JarsGo, InHand
<1> QED
  BY <1>1, PaheInvariant, PTL

THEOREM EpisodesAreWholeHolds == ASSUME AP!AnimePaheAssumption
  PROVE AP!Spec => []EpisodesAreWhole
<1>1. ASSUME PaheInv PROVE EpisodesAreWhole
  BY <1>1 DEF EpisodesAreWhole, AP!EpisodesAreWhole, PaheInv, CallGoes
<1> QED
  BY <1>1, PaheInvariant, PTL

----------------------------------------------------------------------------
(* M440: the lists, and the one flight for a manga. *)
\* One flight per manga.
LoadersFly == \A c \in Listers : m440Pc[c] \in M4!Loading => flight[slug[c]] = c

\* Who is past the second look has found nothing rendered, and as nobody else
\* loads the manga, there is nothing yet.
NothingRendered ==
  \A c \in Listers : m440Pc[c] \in M4!Loading \ {"recheck"} => rendered[slug[c]] = "none"

ListInv == M4!TypeOK /\ LoadersFly /\ NothingRendered /\ M4!ListsAreWhole

----------------------------------------------------------------------------
\* Whoever leaves the flight is at rest; the others are where they were.
LEMMA Landing ==
  ASSUME M4!TypeOK, LoadersFly, NEW c \in Listers, m440Pc[c] \in M4!Loading,
         NEW list \in {"error"} \cup M4!Lists, M4!Land(c, list)
  PROVE  /\ flight' \in [Slugs -> Listers \cup {Nothing}]
         /\ m440Pc' \in [Listers -> M4!Loading \cup {"idle", "cached", "join", "wait"}]
         /\ m440Answer' \in [Listers -> {"none", "error"} \cup M4!Lists]
         /\ m440Pc'[c] = "idle"
         /\ \A d \in Listers : m440Pc'[d] = "idle" \/ m440Pc'[d] = m440Pc[d]
         /\ \A d \in Listers : m440Pc'[d] \in M4!Loading => d # c /\ flight'[slug[d]] = d
         /\ \A d \in Listers : m440Answer'[d] \in {m440Answer[d], list}
BY DEF M4!Land, M4!TypeOK, LoadersFly, M4!Loading, M4!Lists

LEMMA ListInvariant ==
  ASSUME M4!M440Assumption
  PROVE  M4!Spec => []ListInv
<1>1. M4!Init => ListInv
  BY DEF M4!Init, ListInv, M4!TypeOK, LoadersFly, NothingRendered, M4!ListsAreWhole,
         M4!Loading, M4!Lists
<1>2. ListInv /\ [M4!Next]_(M4!vars) => ListInv'
  <2> SUFFICES ASSUME ListInv, [M4!Next]_(M4!vars) PROVE ListInv'
    OBVIOUS
  <2> USE DEF ListInv, M4!TypeOK, LoadersFly, NothingRendered, M4!ListsAreWhole,
          M4!Loading, M4!Lists, M4!cacheVars, M4!browserVars
  <2>1. CASE UNCHANGED M4!vars
    BY <2>1 DEF M4!vars
  <2>2. ASSUME NEW c \in Listers, M4!GetChapters(c) PROVE ListInv'
    BY <2>2 DEF M4!GetChapters, M4!Goto, M4!M440Assumption
  <2>3. ASSUME NEW c \in Listers, M4!ReadCache(c) PROVE ListInv'
    BY <2>3 DEF M4!ReadCache, M4!Goto
  <2>4. ASSUME NEW c \in Listers, M4!Join(c) PROVE ListInv'
    BY <2>4 DEF M4!Join, M4!Goto, M4!M440Assumption
  <2>5. ASSUME NEW c \in Listers, M4!Recheck(c) PROVE ListInv'
    BY <2>5, Landing DEF M4!Recheck, M4!Goto
  <2>6. ASSUME NEW c \in Listers, M4!FetchPage(c) PROVE ListInv'
    BY <2>6, Landing DEF M4!FetchPage, M4!NeedsBrowser, M4!Goto
  <2>7. ASSUME NEW c \in Listers, M4!EnsureSharedBrowser(c) PROVE ListInv'
    BY <2>7, Landing DEF M4!EnsureSharedBrowser, M4!GiveUp, M4!Goto
  <2>8. ASSUME NEW c \in Listers, M4!LoadChapters(c) PROVE ListInv'
    BY <2>8, Landing DEF M4!LoadChapters, M4!GiveUp, M4!Goto
  <2>9. ASSUME NEW c \in Listers, M4!ResetSharedBrowser(c) PROVE ListInv'
    BY <2>9 DEF M4!ResetSharedBrowser, M4!Goto
  <2>10. CASE M4!LeaseEnds \/ M4!TimerCallback
    BY <2>10 DEF M4!LeaseEnds, M4!TimerCallback
  <2>11. ASSUME NEW s \in Slugs, M4!Lapse(s) PROVE ListInv'
    BY <2>11 DEF M4!Lapse
  <2> QED
    BY <2>1, <2>2, <2>3, <2>4, <2>5, <2>6, <2>7, <2>8, <2>9, <2>10, <2>11
    DEF M4!Next, M4!Step
<1> QED
  BY <1>1, <1>2, PTL DEF M4!Spec

\* What GetChapters answers, and what its caches hold.
THEOREM ListsAreWholeHolds ==
  ASSUME M4!M440Assumption
  PROVE  M4!Spec => []M4!ListsAreWhole
<1>1. ListInv => M4!ListsAreWhole
  BY DEF ListInv
<1> QED
  BY <1>1, ListInvariant, PTL

----------------------------------------------------------------------------
(* MangaFire: the inventory and the pages of a chapter. *)
\* The lock is held by whom it names, who loads the chapter he has in hand.
LoadersAreNamed ==
  /\ \A a \in MF!Actors : firePc[a] \in MF!Fetching => loader = a
  /\ \A c \in Readers : firePc[c] \in MF!Browsing => owner[chapter[c]] = c
  /\ \A c \in Readers : firePc[c] \in MF!Opening => chapter[c] \in Chapters

\* What was loaded stays until those who are told of it have looked.
LoadsAreKept ==
  \A a \in MF!Actors : got[a] = "ok" =>
    /\ firePc[a] \in {"save", "saving", "close", "lookFresh", "lookAny"}
         => inventory = "fresh"
    /\ firePc[a] \in {"finish", "lookPages"} => shown[chapter[a]] = TRUE

FireInv == MF!TypeOK /\ LoadersAreNamed /\ LoadsAreKept

----------------------------------------------------------------------------
(* Every reachable state of the inventory and the pages is well formed.    *)
LEMMA FireTyped ==
  ASSUME MF!MangaFireAssumption
  PROVE  MF!Spec => []MF!TypeOK
<1>1. MF!Init => MF!TypeOK
  BY DEF MF!Init, MF!TypeOK, MF!MangaFireAssumption, MF!Actors, MF!Opening, MF!Browsing,
           MF!Places
<1>2. MF!TypeOK /\ [MF!Next]_(MF!vars) => MF!TypeOK'
  <2> SUFFICES ASSUME MF!TypeOK, [MF!Next]_(MF!vars) PROVE MF!TypeOK'
    OBVIOUS
  <2> USE DEF MF!MangaFireAssumption, MF!Actors, MF!Goto, MF!Return, MF!Call,
          MF!inventoryVars, MF!pageVars, MF!TypeOK, MF!Opening, MF!Browsing, MF!Places,
              MF!Fetching
  <2>1. CASE UNCHANGED MF!vars
    BY <2>1 DEF MF!vars
  <2>2. ASSUME NEW c \in Readers, MF!Search(c) \/ MF!GetPages(c) PROVE MF!TypeOK'
    BY <2>2 DEF MF!Search, MF!GetPages
  <2>3. ASSUME NEW a \in MF!Actors, MF!Step(a) PROVE MF!TypeOK'
    <3>1. CASE MF!LoadInventory(a)
      BY <3>1 DEF MF!LoadInventory
    <3>2. CASE MF!Refresh(a)
      BY <3>2 DEF MF!Refresh
    <3>3. CASE MF!FetchInventory(a)
      BY <3>3 DEF MF!FetchInventory
    <3>4. CASE MF!SaveInventory(a)
      BY <3>4 DEF MF!SaveInventory
    <3>5. CASE MF!CloseInventory(a)
      BY <3>5 DEF MF!CloseInventory, MF!Close, MF!Look
    <3>6. CASE MF!LookAtInventory(a)
      BY <3>6 DEF MF!LookAtInventory
    <3>7. CASE MF!CachedPages(a) \/ MF!LoadPages(a)
      BY <3>7 DEF MF!CachedPages, MF!LoadPages
    <3>8. CASE MF!ClaimPages(a)
      <4>1. a \in Readers /\ chapter[a] \in Chapters \cup {Nothing}
        BY <3>8 DEF MF!ClaimPages
      <4> QED
        BY <3>8, <4>1 DEF MF!ClaimPages
    <3>9. CASE MF!StorePages(a)
      BY <3>9 DEF MF!StorePages
    <3>10. CASE MF!FinishPages(a)
      BY <3>10 DEF MF!FinishPages, MF!Close, MF!Look
    <3>11. CASE MF!LookAtPages(a)
      BY <3>11 DEF MF!LookAtPages
    <3> QED
      BY <2>3, <3>1, <3>2, <3>3, <3>4, <3>5, <3>6, <3>7, <3>8, <3>9, <3>10,
           <3>11 DEF MF!Step
  <2>4. CASE MF!CheckAsync
    BY <2>4 DEF MF!CheckAsync
  <2>5. CASE MF!Lapse
    BY <2>5 DEF MF!Lapse
  <2>6. CASE MF!Restart
    BY <2>6 DEF MF!Restart
  <2> QED
    BY <2>1, <2>2, <2>3, <2>4, <2>5, <2>6 DEF MF!Next
<1> QED
  BY <1>1, <1>2, PTL DEF MF!Spec

\* The inductive invariant: of two loaders of one thing each would be the one
\* that is named; and only time or a restart takes a fresh load away, neither
\* while somebody has still to look at it.
LEMMA LoadInvariant ==
  ASSUME MF!MangaFireAssumption
  PROVE  MF!Spec => []FireInv
<1>1. MF!Init => FireInv
  BY DEF MF!Init, FireInv, MF!TypeOK, LoadersAreNamed, LoadsAreKept, MF!MangaFireAssumption,
           MF!Actors,
      MF!Opening, MF!Browsing, MF!Places, MF!Fetching
<1>2. FireInv /\ MF!TypeOK' /\ [MF!Next]_(MF!vars) => FireInv'
  <2> SUFFICES ASSUME FireInv, MF!TypeOK', [MF!Next]_(MF!vars)
               PROVE  LoadersAreNamed' /\ LoadsAreKept'
    BY DEF FireInv
  <2> USE DEF MF!MangaFireAssumption, MF!Actors, MF!Goto, MF!Return, MF!Call,
          MF!inventoryVars, MF!pageVars, MF!TypeOK, MF!Opening, MF!Browsing, MF!Places,
              MF!Fetching, FireInv,
          LoadersAreNamed, LoadsAreKept
  <2> DEFINE Goal == LoadersAreNamed' /\ LoadsAreKept'
  <2>1. CASE UNCHANGED MF!vars
    BY <2>1 DEF MF!vars
  <2>2. ASSUME NEW c \in Readers, MF!Search(c) \/ MF!GetPages(c) PROVE Goal
    BY <2>2 DEF MF!Search, MF!GetPages
  <2>3. ASSUME NEW a \in MF!Actors, MF!Step(a) PROVE Goal
    <3>1. CASE MF!LoadInventory(a)
      BY <3>1 DEF MF!LoadInventory
    <3>2. CASE MF!Refresh(a)
      BY <3>2 DEF MF!Refresh
    <3>3. CASE MF!FetchInventory(a)
      BY <3>3 DEF MF!FetchInventory
    <3>4. CASE MF!SaveInventory(a)
      BY <3>4 DEF MF!SaveInventory
    <3>5. CASE MF!CloseInventory(a)
      BY <3>5 DEF MF!CloseInventory, MF!Close, MF!Look
    <3>6. CASE MF!LookAtInventory(a)
      BY <3>6 DEF MF!LookAtInventory
    <3>7. CASE MF!CachedPages(a) \/ MF!ClaimPages(a) \/ MF!LoadPages(a)
      BY <3>7 DEF MF!CachedPages, MF!ClaimPages, MF!LoadPages
    <3>8. CASE MF!StorePages(a)
      BY <3>8 DEF MF!StorePages
    <3>9. CASE MF!FinishPages(a)
      BY <3>9 DEF MF!FinishPages, MF!Close, MF!Look
    <3>10. CASE MF!LookAtPages(a)
      BY <3>10 DEF MF!LookAtPages
    <3> QED
      BY <2>3, <3>1, <3>2, <3>3, <3>4, <3>5, <3>6, <3>7, <3>8, <3>9, <3>10 DEF MF!Step
  <2>4. CASE MF!CheckAsync
    BY <2>4 DEF MF!CheckAsync
  <2>5. CASE MF!Lapse
    BY <2>5 DEF MF!Lapse
  <2>6. CASE MF!Restart
    BY <2>6 DEF MF!Restart
  <2> QED
    BY <2>1, <2>2, <2>3, <2>4, <2>5, <2>6 DEF MF!Next
<1> QED
  BY <1>1, <1>2, FireTyped, PTL DEF MF!Spec

----------------------------------------------------------------------------
(* WeebCentral: the flights that load a list. *)
SeriesInv == WC!TypeOK /\ WC!OneFlight

\* The list of a series is loaded by one call at a time, whatever fails.
LEMMA SeriesInvariant ==
  ASSUME WC!WeebCentralAssumption
  PROVE  WC!Spec => []SeriesInv
  <1>1. WC!Init => SeriesInv
    BY DEF WC!WeebCentralAssumption, WC!Init, SeriesInv, WC!TypeOK, WC!OneFlight
  <1>2. ASSUME SeriesInv, [WC!Next]_(WC!vars)  PROVE SeriesInv'
    <2> USE <1>2 DEF WC!WeebCentralAssumption, SeriesInv, WC!TypeOK, WC!OneFlight, WC!Goto
    <2>1. ASSUME NEW c \in Fans, WC!GetChapters(c)  PROVE SeriesInv'
      BY <2>1 DEF WC!GetChapters
    <2>2. ASSUME NEW c \in Fans, WC!ReadCache(c)  PROVE SeriesInv'
      BY <2>2 DEF WC!ReadCache
    <2>3. ASSUME NEW c \in Fans, WC!FetchPage(c)  PROVE SeriesInv'
      <3>1. /\ weebPc[c] = "page" /\ UNCHANGED weebFlight
            /\ \E p \in {"join", "idle"} : weebPc' = [weebPc EXCEPT ![c] = p]
        BY <2>3 DEF WC!FetchPage
      <3> QED  BY <3>1
    <2>4. ASSUME NEW c \in Fans, WC!Join(c)  PROVE SeriesInv'
      BY <2>4 DEF WC!Join
    <2>5. ASSUME NEW c \in Fans, WC!FetchList(c)  PROVE SeriesInv'
      <3>1. /\ weebPc[c] = "list" /\ weebFlight' = Nothing
            /\ weebPc' = [d \in Fans |-> IF d = c \/ weebPc[d] = "wait" THEN "idle" ELSE weebPc[d]]
        BY <2>5 DEF WC!FetchList
      <3> QED  BY <3>1
    <2>6. CASE WC!Lapse \/ UNCHANGED WC!vars
      BY <2>6 DEF WC!Lapse, WC!vars
    <2> QED  BY <2>1, <2>2, <2>3, <2>4, <2>5, <2>6 DEF WC!Next, WC!Step
  <1> QED  BY <1>1, <1>2, PTL DEF WC!Spec

----------------------------------------------------------------------------
(* OnlineSearch: the goroutines of a search and their channels. *)

\* Who is to keep or to send an answer has one.
SendersHave == \A q \in Searches, s \in Engines :
  asker[q][s] \in {"keeping", "sending"} => result[q][s] \in ON!Outcomes

\* A search that was not begun has no goroutines and has taken nothing.
Unused == \A q \in Searches, s \in Engines : search[q] = "unused" =>
  asker[q][s] = "none" /\ box[q][s] = "none" /\ taken[q][s] = "none"

SearchInv == ON!TypeOK /\ SendersHave /\ Unused /\ ON!NobodyIsStuck

\* One goroutine of a search goes on, and nothing else of searches changes.
LEMMA OneAsks ==
  ASSUME ON!TypeOK, NEW q \in Searches, NEW s \in Engines,
         NEW at \in {"reading", "asking", "keeping", "sending", "done"}, ON!Becomes(q, s, at)
  PROVE  /\ asker' \in [Searches -> [Engines ->
                          {"none", "reading", "asking", "keeping", "sending", "done"}]]
         /\ asker'[q][s] = at
         /\ \A r \in Searches, e \in Engines :
              r # q \/ e # s => asker'[r][e] = asker[r][e]
  <1> DEFINE Places == {"none", "reading", "asking", "keeping", "sending", "done"}
  <1>1. asker \in [Searches -> [Engines -> Places]] /\ at \in Places
    BY DEF ON!TypeOK
  <1>2. asker' = [asker EXCEPT ![q][s] = at]
    BY DEF ON!Becomes
  <1> HIDE DEF Places
  <1>3. asker' \in [Searches -> [Engines -> Places]]
    BY <1>1, <1>2
  <1>4. asker'[q][s] = at
    BY <1>1, <1>2
  <1>5. \A r \in Searches, e \in Engines : r # q \/ e # s => asker'[r][e] = asker[r][e]
    BY <1>1, <1>2
  <1> QED  BY <1>3, <1>4, <1>5 DEF Places

\* One goroutine of a search has something, and no other gains or loses anything.
LEMMA OneHas ==
  ASSUME ON!TypeOK, NEW q \in Searches, NEW s \in Engines,
         NEW what \in ON!Outcomes \cup {"none"}, ON!Finds(q, s, what)
  PROVE  /\ result' \in [Searches -> [Engines -> ON!Outcomes \cup {"none"}]]
         /\ result'[q][s] = what
         /\ \A r \in Searches, e \in Engines :
              r # q \/ e # s => result'[r][e] = result[r][e]
  <1> DEFINE Has == ON!Outcomes \cup {"none"}
  <1>1. result \in [Searches -> [Engines -> Has]] /\ what \in Has
    BY DEF ON!TypeOK
  <1>2. result' = [result EXCEPT ![q][s] = what]
    BY DEF ON!Finds
  <1> HIDE DEF Has
  <1>3. result' \in [Searches -> [Engines -> Has]]
    BY <1>1, <1>2
  <1>4. result'[q][s] = what
    BY <1>1, <1>2
  <1>5. \A r \in Searches, e \in Engines : r # q \/ e # s => result'[r][e] = result[r][e]
    BY <1>1, <1>2
  <1> QED  BY <1>3, <1>4, <1>5 DEF Has

\* A goroutine that goes on before it sends keeps the invariant, whatever it has,
\* as long as it has an answer when it is to send one.
LEMMA AskerGoesOn ==
  ASSUME SearchInv, NEW q \in Searches, NEW s \in Engines,
         asker[q][s] \in {"reading", "asking", "keeping"},
         NEW at \in {"asking", "keeping", "sending"}, ON!Becomes(q, s, at),
         UNCHANGED <<search, box, taken>>,
         hits' \in [Engines -> ON!Outcomes \cup {"none"}],
         result' \in [Searches -> [Engines -> ON!Outcomes \cup {"none"}]],
         at # "asking" => result'[q][s] \in ON!Outcomes,
         \A r \in Searches, e \in Engines : r # q \/ e # s => result'[r][e] = result[r][e]
  PROVE  SearchInv'
  <1>1. /\ asker' \in [Searches -> [Engines ->
                         {"none", "reading", "asking", "keeping", "sending", "done"}]]
        /\ asker'[q][s] = at
        /\ \A r \in Searches, e \in Engines : r # q \/ e # s => asker'[r][e] = asker[r][e]
    BY OneAsks DEF SearchInv
  <1>2. ON!TypeOK'
    BY <1>1 DEF SearchInv, ON!TypeOK
  <1>3. SendersHave'
    BY <1>1 DEF SearchInv, SendersHave
  <1>4. Unused' /\ ON!NobodyIsStuck'
    <2>1. box[q][s] = "none" /\ taken[q][s] \notin ON!Outcomes
      BY DEF SearchInv, ON!TypeOK, ON!NobodyIsStuck, ON!Outcomes
    <2>2. search[q] # "unused"
      BY DEF SearchInv, Unused
    <2>3. Unused'
      BY <1>1, <2>2 DEF SearchInv, Unused
    <2>4. ON!NobodyIsStuck'
      BY <1>1, <2>1 DEF SearchInv, ON!NobodyIsStuck, ON!HasPlace
    <2> QED  BY <2>3, <2>4
  <1> QED  BY <1>2, <1>3, <1>4 DEF SearchInv

\* Wherever the goroutines and their searches are, the channels have places.
LEMMA SearchInvariant ==
  ASSUME ON!OnlineSearchAssumption
  PROVE  ON!Spec => []SearchInv
  <1>1. ON!Init => SearchInv
    BY DEF ON!Init, ON!Everywhere, SearchInv, ON!TypeOK, SendersHave, Unused,
       ON!NobodyIsStuck, ON!Outcomes, ON!HasPlace
  <1>2. ASSUME SearchInv, [ON!Next]_(ON!vars)  PROVE SearchInv'
    <2> USE <1>2 DEF SearchInv, ON!TypeOK, SendersHave, Unused, ON!NobodyIsStuck,
          ON!Outcomes, ON!HasPlace
    <2>1. ASSUME NEW q \in Searches, ON!SearchOnline(q)  PROVE SearchInv'
      BY <2>1 DEF ON!SearchOnline
    <2> DEFINE Has(what, q, s) ==
          /\ result' \in [Searches -> [Engines -> ON!Outcomes \cup {"none"}]]
          /\ result'[q][s] = what
          /\ \A r \in Searches, e \in Engines : r # q \/ e # s => result'[r][e] = result[r][e]
    <2>2. ASSUME NEW q \in Searches, NEW s \in Engines, ON!ReadCache(q, s)  PROVE SearchInv'
      <3>1. /\ asker[q][s] = "reading" /\ UNCHANGED <<hits, search, box, taken>>
            /\ \/ hits[s] \in ON!Outcomes /\ ON!Finds(q, s, hits[s]) /\ ON!Becomes(q, s, "sending")
               \/ ON!Becomes(q, s, "asking") /\ UNCHANGED result
        BY <2>2 DEF ON!ReadCache
      <3> HIDE DEF ON!NobodyIsStuck, ON!Outcomes, SearchInv, SendersHave, Unused, ON!TypeOK
      <3>2. SearchInv /\ hits' \in [Engines -> ON!Outcomes \cup {"none"}]
        BY <3>1 DEF SearchInv, ON!TypeOK
      <3>3. CASE ON!Becomes(q, s, "asking") /\ UNCHANGED result
        <4>1. result' \in [Searches -> [Engines -> ON!Outcomes \cup {"none"}]]
          BY <3>2, <3>3 DEF SearchInv, ON!TypeOK
        <4> QED  BY ONLY <3>1, <3>2, <3>3, <4>1, AskerGoesOn, q \in Searches, s \in Engines
      <3>4. CASE hits[s] \in ON!Outcomes /\ ON!Finds(q, s, hits[s]) /\ ON!Becomes(q, s, "sending")
        <4>1. Has(hits[s], q, s)
          BY <3>2, <3>4, OneHas DEF SearchInv
        <4>2. asker[q][s] \in {"reading", "asking", "keeping"}
          BY <3>1
        <4>3. UNCHANGED <<search, box, taken>> /\ ON!Becomes(q, s, "sending")
          BY <3>1, <3>4
        <4> QED  BY ONLY <3>2, <3>4, <4>1, <4>2, <4>3, AskerGoesOn, q \in Searches, s \in Engines
      <3> QED  BY <3>1, <3>3, <3>4
    <2>3. ASSUME NEW q \in Searches, NEW s \in Engines, ON!Answer(q, s)  PROVE SearchInv'
      <3>1. /\ asker[q][s] = "asking" /\ UNCHANGED <<hits, search, box, taken>>
            /\ \E what \in ON!Outcomes, at \in {"keeping", "sending"} :
                 ON!Finds(q, s, what) /\ ON!Becomes(q, s, at)
        BY <2>3 DEF ON!Answer
      <3> HIDE DEF ON!NobodyIsStuck, ON!Outcomes, SearchInv, SendersHave, Unused, ON!TypeOK
      <3>2. SearchInv /\ hits' \in [Engines -> ON!Outcomes \cup {"none"}]
        BY <3>1 DEF SearchInv, ON!TypeOK
      <3>3. ASSUME NEW what \in ON!Outcomes, NEW at \in {"keeping", "sending"},
                   ON!Finds(q, s, what), ON!Becomes(q, s, at)
            PROVE  SearchInv'
        <4>1. Has(what, q, s)
          BY <3>2, <3>3, OneHas DEF SearchInv
        <4>2. asker[q][s] \in {"reading", "asking", "keeping"}
          BY <3>1
        <4>3. UNCHANGED <<search, box, taken>> /\ ON!Becomes(q, s, at)
          BY <3>1, <3>3
        <4> QED  BY ONLY <3>2, <4>1, <4>2, <4>3, at \in {"keeping", "sending"}, AskerGoesOn,
                 q \in Searches, s \in Engines
      <3> QED  BY <3>1, <3>3
    <2>4. ASSUME NEW q \in Searches, NEW s \in Engines, ON!Keep(q, s)  PROVE SearchInv'
      <3>1. /\ asker[q][s] = "keeping" /\ UNCHANGED <<search, result, box, taken>>
            /\ ON!Becomes(q, s, "sending")
            /\ \E answer \in {hits[s], result[q][s]} : hits' = [hits EXCEPT ![s] = answer]
        BY <2>4 DEF ON!Keep
      <3>2. hits' \in [Engines -> ON!Outcomes \cup {"none"}]
        BY <3>1
      <3>3. result[q][s] \in ON!Outcomes
        BY <3>1
      <3> QED  BY ONLY <3>1, <3>2, <3>3, SearchInv, AskerGoesOn, q \in Searches, s \in Engines
    <2>5. ASSUME NEW q \in Searches, NEW s \in Engines, ON!Send(q, s)  PROVE SearchInv'
      BY <2>5 DEF ON!Send, ON!Becomes, ON!Finds
    <2>6. ASSUME NEW q \in Searches, NEW s \in Engines, ON!Receive(q, s)  PROVE SearchInv'
      BY <2>6 DEF ON!Receive, ON!Take
    <2>7. ASSUME NEW q \in Searches, NEW s \in Engines, ON!TimeOut(q, s)  PROVE SearchInv'
      BY <2>7 DEF ON!TimeOut, ON!Take
    <2>8. ASSUME NEW q \in Searches, ON!Merge(q)  PROVE SearchInv'
      BY <2>8 DEF ON!Merge
    <2>9. ASSUME NEW s \in Engines, ON!Expire(s)  PROVE SearchInv'
      BY <2>9 DEF ON!Expire
    <2>10. CASE UNCHANGED ON!vars
      BY <2>10 DEF ON!vars
    <2> QED
      BY <2>1, <2>2, <2>3, <2>4, <2>5, <2>6, <2>7, <2>8, <2>9, <2>10 DEF ON!Next
  <1> QED  BY <1>1, <1>2, PTL DEF ON!Spec

----------------------------------------------------------------------------
(* What is shared.                                                         *)

\* refreshInventoryNow, waitForChapterPages, chapterWarm.Do and SearchOnline: one
\* loads what all want, who waited for it finds what it loaded, and who loads for
\* a search that may be gone is never held up by it.
THEOREM WaitersShareHolds ==
  ASSUME MF!MangaFireAssumption, WC!WeebCentralAssumption, ON!OnlineSearchAssumption
  PROVE  MF!Spec /\ WC!Spec /\ ON!Spec => []WaitersShare
<1>1. FireInv => MF!OneLoad
  BY DEF FireInv, MF!TypeOK, LoadersAreNamed, MF!OneLoad, MF!Opening
<1>2. FireInv => MF!WaitersShare
  BY DEF FireInv, LoadsAreKept, MF!WaitersShare, MF!Actors
<1>3. FireInv /\ SeriesInv /\ SearchInv => WaitersShare
  BY <1>1, <1>2 DEF WaitersShare, SeriesInv, SearchInv
<1> QED
  BY <1>3, LoadInvariant, SeriesInvariant, SearchInvariant, PTL

(* Every source's state is well formed: of the sessions, the mirrors, the lists,
   the inventory, the series and the searches. *)
THEOREM SourcesTypeCorrect ==
  ASSUME SharedLoadsAssumption
  PROVE  /\ Spec => []TypeOK
         /\ AP!Spec => []AP!TypeOK
         /\ M4!Spec => []M4!TypeOK
         /\ MF!Spec => []MF!TypeOK
         /\ WC!Spec => []WC!TypeOK
         /\ ON!Spec => []ON!TypeOK
<1> USE DEF SharedLoadsAssumption
<1>1. Spec => []TypeOK
  BY TypedIsTypeOK, TypeCorrect, PTL
<1>2. AP!Spec => []AP!TypeOK
  <2>1. PaheInv => AP!TypeOK
    BY DEF PaheInv, CallsTyped, JarsTyped, AP!TypeOK, FetchType, FetchPlaces, AP!Jars,
           AP!AnimePaheAssumption
  <2> QED
    BY <2>1, PaheInvariant, PTL
<1>3. M4!Spec => []M4!TypeOK
  <2>1. ListInv => M4!TypeOK
    BY DEF ListInv
  <2> QED
    BY <2>1, ListInvariant, PTL
<1>4. WC!Spec => []WC!TypeOK
  <2>1. SeriesInv => WC!TypeOK
    BY DEF SeriesInv
  <2> QED
    BY <2>1, SeriesInvariant, PTL
<1>5. ON!Spec => []ON!TypeOK
  <2>1. SearchInv => ON!TypeOK
    BY DEF SearchInv
  <2> QED
    BY <2>1, SearchInvariant, PTL
<1> QED
  BY <1>1, <1>2, <1>3, <1>4, <1>5, FireTyped
=============================================================================
