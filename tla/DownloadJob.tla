---------------------------- MODULE DownloadJob ----------------------------
(***************************************************************************)
(* What the download manager promises of one download, whatever happens to *)
(* its row: it runs once, it makes at most one closing callback and makes  *)
(* it while it runs, and it stops without one only if it was asked to or   *)
(* the process exits.                                                      *)
(***************************************************************************)
EXTENDS Integers

CONSTANT Ids
VARIABLES phase, asked, verdict, exits

vars == <<phase, asked, verdict, exits>>

Init ==
  /\ phase = [id \in Ids |-> "idle"]
  /\ asked = {}
  /\ verdict = [id \in Ids |-> "none"]
  /\ exits = 0

Begin(id) ==
  /\ phase[id] = "idle"
  /\ phase' = [phase EXCEPT ![id] = "running"]
  /\ UNCHANGED <<asked, verdict, exits>>

Ask(id) ==
  /\ phase[id] = "running"
  /\ asked' = asked \cup {id}
  /\ UNCHANGED <<phase, verdict, exits>>

Deliver(id, outcome) ==
  /\ phase[id] = "running"
  /\ verdict[id] = "none"
  /\ verdict' = [verdict EXCEPT ![id] = outcome]
  /\ UNCHANGED <<phase, asked, exits>>

Stop(id) ==
  /\ phase[id] = "running"
  /\ verdict[id] # "none" \/ id \in asked
  /\ phase' = [phase EXCEPT ![id] = "stopped"]
  /\ UNCHANGED <<asked, verdict, exits>>

\* The process ends under every running job.
Abort ==
  /\ phase' = [id \in Ids |-> IF phase[id] = "running" THEN "stopped"
                              ELSE phase[id]]
  /\ exits' = exits + 1
  /\ UNCHANGED <<asked, verdict>>

Next ==
  \/ \E id \in Ids :
       \/ Begin(id) \/ Ask(id) \/ Stop(id)
       \/ \E outcome \in {"completed", "failed"} : Deliver(id, outcome)
  \/ Abort

Spec == Init /\ [][Next]_vars
=============================================================================
