----------------------------- MODULE ReadThrough -----------------------------
(***************************************************************************)
(* What the metadata gateway promises its callers.  Upstream answers have  *)
(* versions 1, 2, ... per key.  A call returns an error or one version     *)
(* that was fetched, and never a version older than one that some caller   *)
(* had been given before this call was made: fresh cache, stale cache,     *)
(* shared answers and retries never step back in time.                     *)
(***************************************************************************)
EXTENDS Integers

CONSTANTS Requests, Keys
VARIABLES key, phase, fetched, given, floor, result

vars == <<key, phase, fetched, given, floor, result>>

Init ==
  /\ key \in [Requests -> Keys]
  /\ phase = [r \in Requests |-> "idle"]
  /\ fetched = [k \in Keys |-> 0]
  /\ given = [k \in Keys |-> 0]
  /\ floor = [r \in Requests |-> 0]
  /\ result = [r \in Requests |-> 0]

Call(r) ==
  /\ phase[r] = "idle"
  /\ phase' = [phase EXCEPT ![r] = "busy"]
  /\ floor' = [floor EXCEPT ![r] = given[key[r]]]
  /\ UNCHANGED <<key, fetched, given, result>>

Fetch(k) ==
  /\ fetched' = [fetched EXCEPT ![k] = @ + 1]
  /\ UNCHANGED <<key, phase, given, floor, result>>

\* 0 is the error.
Return(r) ==
  /\ phase[r] = "busy"
  /\ phase' = [phase EXCEPT ![r] = "done"]
  /\ \E v \in 0..fetched[key[r]] :
       /\ v = 0 \/ v >= floor[r]
       /\ result' = [result EXCEPT ![r] = v]
       /\ given' = [given EXCEPT ![key[r]] = IF v > @ THEN v ELSE @]
  /\ UNCHANGED <<key, fetched, floor>>

Next ==
  \/ \E r \in Requests : Call(r) \/ Return(r)
  \/ \E k \in Keys : Fetch(k)

Spec == Init /\ [][Next]_vars
=============================================================================
