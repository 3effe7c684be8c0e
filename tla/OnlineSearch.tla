---------------------------- MODULE OnlineSearch ----------------------------
(***************************************************************************)
(* Searches for one title in one or all anime sources.  Every source is    *)
(* asked by a goroutine of its own, which may know the answer from the     *)
(* cache; a source that takes too long is given up, while the goroutine    *)
(* goes on and keeps what it gets.                                         *)
(***************************************************************************)
CONSTANTS
  Searches,  \* calls of SearchOnline
  Sources,
  Asked      \* Asked[q]: the sources q is for, one or all

OnlineSearchAssumption == Asked \in [Searches -> SUBSET Sources]

VARIABLES
  cache,   \* cache[s]: what a search in s found in the last ten minutes
  pc,      \* pc[q]: "unused", "waiting" or "done"
  worker,  \* worker[q][s]: where the goroutine that asks s for q is
  found,   \* found[q][s]: what it has
  box,     \* box[q][s]: its channel, which has one place
  got      \* got[q][s]: what q took for the answer of s

vars == <<cache, pc, worker, found, box, got>>

Everywhere(v) == [q \in Searches |-> [s \in Sources |-> v]]

Init ==
  /\ cache = [s \in Sources |-> "none"] /\ pc = [q \in Searches |-> "unused"]
  /\ worker = Everywhere("none") /\ found = Everywhere("none")
  /\ box = Everywhere("none") /\ got = Everywhere("none")

SearchOnline(q) ==
  /\ pc[q] = "unused" /\ pc' = [pc EXCEPT ![q] = "waiting"]
  /\ worker' = [worker EXCEPT ![q] = [s \in Sources |-> IF s \in Asked[q] THEN "reading" ELSE "none"]]
  /\ UNCHANGED <<cache, found, box, got>>

----------------------------------------------------------------------------
(* The goroutine: cachedAnimeSearch by way of RememberJSON.                *)

Becomes(q, s, at) == worker' = [worker EXCEPT ![q][s] = at]
Finds(q, s, what) == found' = [found EXCEPT ![q][s] = what]

ReadCache(q, s) ==
  /\ worker[q][s] = "reading"
  /\ IF cache[s] # "none" THEN Finds(q, s, cache[s]) /\ Becomes(q, s, "sending")
     ELSE Becomes(q, s, "asking") /\ UNCHANGED found
  /\ UNCHANGED <<cache, pc, box, got>>

\* The source answers, if it ever does; having nothing is an answer that is
\* kept, an error is not.
Answer(q, s) ==
  /\ worker[q][s] = "asking"
  /\ \/ \E what \in {"hits", "nothing"} : Finds(q, s, what) /\ Becomes(q, s, "keeping")
     \/ Finds(q, s, "nothing") /\ Becomes(q, s, "sending")
  /\ UNCHANGED <<cache, pc, box, got>>

Keep(q, s) ==
  /\ worker[q][s] = "keeping" /\ Becomes(q, s, "sending")
  /\ \E kept \in {cache[s], found[q][s]} : cache' = [cache EXCEPT ![s] = kept]
  /\ UNCHANGED <<pc, found, box, got>>

\* Mutant: a channel without a place, on which only the search waits.
OnlyIfAwaited(q, s) == box[q][s] = "none" /\ got[q][s] = "none"

\* The channel has a place for the answer whether anybody waits or not.
HasPlace(q, s) == box[q][s] = "none"

Send(q, s) ==
  /\ worker[q][s] = "sending" /\ HasPlace(q, s)
  /\ box' = [box EXCEPT ![q][s] = found[q][s]]
  /\ Finds(q, s, "none") /\ Becomes(q, s, "done")
  /\ UNCHANGED <<cache, pc, got>>

----------------------------------------------------------------------------
(* The search.                                                             *)

Take(q, s, what) ==
  /\ pc[q] = "waiting" /\ s \in Asked[q] /\ got[q][s] = "none"
  /\ got' = [got EXCEPT ![q][s] = what]
  /\ UNCHANGED <<cache, pc, worker, found>>

Receive(q, s) ==
  /\ box[q][s] # "none" /\ Take(q, s, box[q][s])
  /\ box' = [box EXCEPT ![q][s] = "none"]
TimeOut(q, s) == Take(q, s, "timeout") /\ UNCHANGED box

\* p.Wait.
Merge(q) ==
  /\ pc[q] = "waiting" /\ \A s \in Asked[q] : got[q][s] # "none"
  /\ pc' = [pc EXCEPT ![q] = "done"]
  /\ UNCHANGED <<cache, worker, found, box, got>>

Expire(s) ==
  /\ cache[s] # "none" /\ cache' = [cache EXCEPT ![s] = "none"]
  /\ UNCHANGED <<pc, worker, found, box, got>>

Next ==
  \/ \E q \in Searches, s \in Sources :
       \/ ReadCache(q, s) \/ Answer(q, s) \/ Keep(q, s) \/ Send(q, s)
       \/ Receive(q, s) \/ TimeOut(q, s)
  \/ \E q \in Searches : SearchOnline(q) \/ Merge(q)
  \/ \E s \in Sources : Expire(s)

Spec == Init /\ [][Next]_vars

\* Goroutines run and timers fire; a source need not answer.
Runs(q) ==
  \/ Merge(q)
  \/ \E s \in Sources : ReadCache(q, s) \/ Keep(q, s) \/ Send(q, s) \/ TimeOut(q, s)

----------------------------------------------------------------------------
Outcomes == {"hits", "nothing"}

TypeOK ==
  /\ pc \in [Searches -> {"unused", "waiting", "done"}]
  /\ worker \in [Searches -> [Sources ->
                   {"none", "reading", "asking", "keeping", "sending", "done"}]]
  /\ found \in [Searches -> [Sources -> Outcomes \cup {"none"}]]
  /\ box \in [Searches -> [Sources -> Outcomes \cup {"none"}]]
  /\ got \in [Searches -> [Sources -> Outcomes \cup {"none", "timeout"}]]
  /\ cache \in [Sources -> Outcomes \cup {"none"}]

(* SearchOnline, app.go 1510-1528: a goroutine that has its answer never waits to
   hand it over, though its search may have given it up and be gone; and a search
   takes no answer that its own goroutine did not send. *)
NobodyIsStuck ==
  \A q \in Searches, s \in Sources :
    /\ worker[q][s] = "sending" => HasPlace(q, s)
    /\ box[q][s] # "none" => worker[q][s] = "done"
    /\ got[q][s] \in Outcomes => worker[q][s] = "done" /\ box[q][s] = "none"

\* A search is under way, or a goroutine of it that has its answer.
Busy(q) == \/ pc[q] = "waiting"
           \/ \E s \in Sources : worker[q][s] \in {"reading", "keeping", "sending"}
=============================================================================
