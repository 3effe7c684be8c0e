----------------------------- MODULE Snapshots -----------------------------
(***************************************************************************)
(* One key of the application's cache: the copy in memory, the stale copy  *)
(* kept longer beside it, and the snapshot in the settings table, under    *)
(* the policy of the kind of data it holds:                                *)
(*   "plain"     rememberJSONWithStale: memory only;                       *)
(*   "chapters"  rememberMangaChaptersWithPolicy: memory only, and an      *)
(*               empty list is a miss;                                     *)
(*   "snapshot"  rememberPersistentSnapshotWithStale, and the catalog      *)
(*               homes, which repeat it;                                   *)
(*   "search"    rememberPersistentAniList...Search: an empty page is a    *)
(*               miss, and is never put into the table;                    *)
(*   "detail"    rememberAniListMangaDetailSnapshot.                       *)
(* Every read, write and request is a step.  A value is "full" or "empty": *)
(* no results, no details.                                                 *)
(***************************************************************************)
EXTENDS Naturals, Sequences

CONSTANTS
  Kinds,       \* the kinds of key to look at
  Callers,     \* threads of the front-end
  Refreshers,  \* bound: refreshes in the background at a time
  MaxCalls,    \* bound: calls in all
  MaxRestarts, \* bound: ends of the process
  None

SnapshotsAssumption ==
  /\ Callers \cap Refreshers = {} /\ MaxCalls \in Nat
  /\ None \notin {"full", "empty", "error", "fresh", "stale"}

Jobs       == Callers \cup Refreshers
Misses     == {"chapters", "search", "detail"}
Persistent == {"snapshot", "search", "detail"}

VARIABLES
  kind,
  store,    \* store[s]: the copy in memory, the stale one, the one in the table
  window,   \* of the snapshot in the table: "fresh", "stale" or None
  job,      \* job[j]: where a call or a refresh is
  answer,   \* answer[c]: of the caller's last call
  calls,
  restarts,
  kept      \* kept[c]: a stale copy to fall back on was there all the call long

vars == <<kind, store, window, job, answer, calls, restarts, kept>>
held == <<kind, store, window>>
call == <<answer, calls, kept>>

Verified(v) == v # None /\ (kind \in Misses => v = "full")

Idle         == [pc |-> "idle", value |-> None, writes |-> <<>>]
At(j, pc)    == job[j].pc = pc
Become(j, r) == job' = [job EXCEPT ![j] = r]
Goto(j, pc)  == Become(j, [job[j] EXCEPT !.pc = pc])

\* Writes that are left before a call answers v; and a last look at the stale
\* copy before it answers v, with the writes to make if there is one.
Write(v, ws)    == [pc |-> "write", value |-> v, writes |-> ws]
Fallback(v, ws) == [pc |-> "fallback", value |-> v, writes |-> ws]

Init ==
  /\ kind \in Kinds
  /\ store = [s \in {"fresh", "stale", "saved"} |-> None]
  /\ window = None
  /\ job = [j \in Jobs |-> Idle]
  /\ answer = [c \in Callers |-> None]
  /\ calls = 0
  /\ restarts = 0
  /\ kept = [c \in Callers |-> FALSE]

Begin(c) ==
  /\ At(c, "idle")
  /\ calls < MaxCalls
  /\ calls' = calls + 1
  /\ answer' = [answer EXCEPT ![c] = None]
  /\ kept' = [kept EXCEPT ![c] = Verified(store["stale"])]
  /\ Goto(c, "fresh")
  /\ UNCHANGED <<held, restarts>>

----------------------------------------------------------------------------
(* Reads.                                                                  *)

\* Mutant: a remembered miss is answered at once.
OnMissAnswered(ws) == Write("empty", <<>>)

\* A miss remembered for fifteen seconds.
OnMiss(ws) == Fallback("empty", ws)

\* Whatever the policy behind a snapshot answers is saved in the table.
Saving == IF kind \in Persistent THEN <<"saved">> ELSE <<>>

\* "fresh": the first look; "again": the one of the policy behind a snapshot.
ReadFresh(j) ==
  /\ At(j, "fresh") \/ At(j, "again")
  /\ LET v  == store["fresh"]
         ws == IF At(j, "again") THEN Saving ELSE <<>>
     IN  \/ /\ Verified(v)
            /\ Become(j, Write(v, ws))
         \/ /\ v = "empty" /\ kind \in {"chapters", "search"}
            /\ Become(j, OnMiss(ws))
         \/ /\ v = None \/ (v = "empty" /\ kind = "detail")
            /\ Goto(j, IF At(j, "again") \/ kind \notin Persistent THEN "load"
                       ELSE IF kind = "detail" THEN "stale" ELSE "saved")
  /\ UNCHANGED <<held, call, restarts>>

\* rememberAniListMangaDetailSnapshot looks at the stale copy before the table.
ReadStale(j) ==
  /\ At(j, "stale")
  /\ Become(j, IF Verified(store["stale"]) THEN Write(store["stale"], <<>>)
               ELSE [job[j] EXCEPT !.pc = "saved"])
  /\ UNCHANGED <<held, call, restarts>>

\* A snapshot past its fresh window is answered, and refreshed meanwhile.
ReadSaved(j) ==
  /\ At(j, "saved")
  /\ LET v   == store["saved"]
         hit == window # None /\ Verified(v)
     IN  \/ /\ ~hit
            /\ Goto(j, IF kind = "detail" THEN "load" ELSE "again")
         \/ /\ hit /\ window = "fresh"
            /\ Become(j, Write(v, <<"stale", "fresh">>))
         \/ /\ hit /\ window = "stale"
            /\ \E r \in Refreshers :
                 /\ At(r, "idle")
                 /\ job' = [job EXCEPT
                      ![j] = Write(v, <<"stale">>),
                      ![r].pc = IF kind = "search" THEN "again" ELSE "load"]
  /\ UNCHANGED <<held, call, restarts>>

----------------------------------------------------------------------------
(* The request, and what its outcome leads to.                             *)

\* Mutant: an empty page is kept like any other.
LoadedAlways(v) == Write(v, <<"fresh", "stale">> \o Saving)

\* An answer is kept in this order; of an empty page only that it was a miss,
\* and of missing details nothing.
Loaded(v) ==
  IF Verified(v) THEN Write(v, <<"fresh", "stale">> \o Saving)
  ELSE IF kind = "detail" THEN Write(v, <<>>)
  ELSE [pc |-> "miss", value |-> v, writes |-> <<>>]

\* For details, and in a refresh of a snapshot, there is no way round an error.
Load(j) ==
  /\ At(j, "load")
  /\ \/ \E v \in {"full", "empty"} : Become(j, Loaded(v))
     \/ Become(j, IF kind = "detail" \/ (kind = "snapshot" /\ j \in Refreshers)
                  THEN Write("error", <<>>) ELSE Fallback("error", Saving))
  /\ UNCHANGED <<held, call, restarts>>

FallBack(j) ==
  /\ At(j, "fallback")
  /\ Become(j, IF Verified(store["stale"]) THEN Write(store["stale"], job[j].writes)
               ELSE Write(job[j].value, <<>>))
  /\ UNCHANGED <<held, call, restarts>>

\* What is in memory already is replaced; the cache may drop what is new to it.
Keeps(s, v) ==
  \/ store' = [store EXCEPT ![s] = v]
  \/ store[s] = None /\ s # "saved" /\ UNCHANGED store

RememberMiss(j) ==
  /\ At(j, "miss")
  /\ Keeps("fresh", "empty")
  /\ Become(j, Fallback("empty", Saving))
  /\ UNCHANGED <<kind, window, call, restarts>>

Keep(j) ==
  /\ At(j, "write")
  /\ job[j].writes # <<>>
  /\ LET s == Head(job[j].writes)
     IN  /\ Keeps(s, job[j].value)
         /\ window' = IF s = "saved" THEN "fresh" ELSE window
  /\ Become(j, [job[j] EXCEPT !.writes = Tail(@)])
  /\ UNCHANGED <<kind, call, restarts>>

Return(j) ==
  /\ At(j, "write")
  /\ job[j].writes = <<>>
  /\ answer' = IF j \in Callers THEN [answer EXCEPT ![j] = job[j].value] ELSE answer
  /\ Become(j, Idle)
  /\ UNCHANGED <<held, calls, kept, restarts>>

----------------------------------------------------------------------------
\* Time, or the cache making room.
Expire(s) ==
  /\ store[s] # None
  /\ store' = [store EXCEPT ![s] = None]
  /\ kept' = IF s = "stale" THEN [c \in Callers |-> FALSE] ELSE kept
  /\ UNCHANGED <<kind, window, job, answer, calls, restarts>>

Age ==
  /\ window # None
  /\ window' = IF window = "fresh" THEN "stale" ELSE None
  /\ UNCHANGED <<kind, store, job, call, restarts>>

Restart ==
  /\ restarts < MaxRestarts
  /\ restarts' = restarts + 1
  /\ store' = [store EXCEPT !["fresh"] = None, !["stale"] = None]
  /\ job' = [j \in Jobs |-> Idle]
  /\ answer' = [c \in Callers |-> None]
  /\ kept' = [c \in Callers |-> FALSE]
  /\ UNCHANGED <<kind, window, calls>>

Next ==
  \/ \E c \in Callers : Begin(c)
  \/ \E j \in Jobs : \/ ReadFresh(j) \/ ReadStale(j) \/ ReadSaved(j) \/ Load(j)
                     \/ FallBack(j) \/ RememberMiss(j) \/ Keep(j) \/ Return(j)
  \/ \E s \in {"fresh", "stale"} : Expire(s)
  \/ Age \/ Restart

Spec == Init /\ [][Next]_vars

----------------------------------------------------------------------------
TypeOK ==
  /\ kind \in Kinds
  /\ store \in [{"fresh", "stale", "saved"} -> {"full", "empty", None}]
  /\ window \in {"fresh", "stale", None}
  /\ window # None => kind \in Persistent /\ store["saved"] # None
  /\ \A j \in Jobs : job[j].value \in {"full", "empty", "error", None}
  /\ calls \in 0 .. MaxCalls /\ kept \in [Callers -> BOOLEAN]

(* app.go 211-213: "If we already have a verified stale payload, serve it so
   transient parser failures do not blank the UI": a call all along which a
   verified stale copy was stored answers neither with an error nor with a
   blank, whatever the other calls and refreshes of the key are doing; and where
   a blank is a miss, none is put into the stale copy or into the table.  A copy
   that has expired, or was lost with the process, protects nobody, and a miss in
   memory goes before the table while it lasts. *)
ResultsSurviveMisses ==
  /\ \A c \in Callers : kept[c] /\ answer[c] # None =>
       Verified(answer[c]) /\ answer[c] # "error"
  /\ kind \in Misses => "empty" \notin {store["stale"], store["saved"]}
=============================================================================
