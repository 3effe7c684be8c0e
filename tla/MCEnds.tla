------------------------------- MODULE MCEnds -------------------------------
(* What must come to an end, each in a part of its own: the worker of a      *)
(* download; the rows of the outbox, two entries and a retry of one row;     *)
(* requests for metadata; logins.  The part a behaviour is about is chosen   *)
(* at the start.                                                             *)
EXTENDS ListSync, TLC

CONSTANTS e1, e2, c1, t1, d1, p1, k1, k2, a1, o1, None

Pair     == {e1, e2}
OneCall  == {c1}
Retrying == {t1}
Unknown  == {0}
Both     == {k1, k2}

VARIABLES
  part,
  row, saved, target, hls, active, cancel, panicked, worker, verdict, file,
  linked, starting, cancelling, removing, importer, library, exits,
  now, key, place, attempt, wake, body, leader, unstable, inFlight, fresh, stale,
  nextTurn, cooldownEnd, mode, degradedUntil, degradedAt, since, count,
  fetched, given, floor, turns, penalty, blips,
  port, channel, told, login, token, pages

DL == INSTANCE Downloads WITH Ids <- {d1}, Paths <- {p1}, Posix <- TRUE,
                              MaxExits <- 1, pc <- worker
MG == INSTANCE MetadataGateway WITH
        Requests <- Both, AniListKeys <- {a1}, OtherKeys <- {o1},
        AniListAttempts <- 2, OtherAttempts <- 1, TurnDelay <- 1, BackoffBase <- 2,
        BackoffStep <- 1, Threshold <- 2, Window <- 2, DegradeCooldown <- 2,
        MaxTime <- 1, pc <- place
OL == INSTANCE OAuthLogin WITH Logins <- Both, MaxPages <- 3

ASSUME OL!OAuthLoginAssumption

downloadVars == <<row, saved, target, hls, active, cancel, panicked, worker,
                  verdict, file, linked, starting, cancelling, removing,
                  importer, library, exits>>
requestVars  == <<now, key, place, attempt, wake, body, leader, unstable, inFlight,
                  fresh, stale, nextTurn, cooldownEnd, mode, degradedUntil,
                  degradedAt, since, count, fetched, given, floor, turns, penalty,
                  blips>>
loginVars    == <<port, channel, told, login, token, pages>>
callVars     == <<requestVars, loginVars>>
mcvars       == <<part, vars, downloadVars, callVars>>

MCInit ==
  /\ part \in {"download", "outbox", "requests", "login"}
  /\ Init /\ DL!Init /\ MG!Init /\ OL!Init
  /\ part # "download" => hls = {}
  /\ part # "requests" => key = [r \in Both |-> a1] /\ leader = [r \in Both |-> r]

Download(A) == part = "download" /\ A /\ UNCHANGED <<part, vars, callVars>>
Outbox(A)   == part = "outbox" /\ A /\ UNCHANGED <<part, downloadVars, callVars>>
Metadata(A) == part = "requests" /\ A /\ UNCHANGED <<part, vars, downloadVars, loginVars>>
Login(A)    == part = "login" /\ A /\ UNCHANGED <<part, vars, downloadVars, requestVars>>

MCNext == Download(DL!Next) \/ Outbox(Next) \/ Metadata(MG!Next) \/ Login(OL!Next)

Proceeds(k) == Metadata(MG!Step(k)) \/ Login(OL!Step(k))

\* Goroutines run, and time passes.
MCSpec ==
  /\ MCInit /\ [][MCNext]_mcvars
  /\ WF_mcvars(Outbox(NextSecond) \/ Metadata(MG!Tick))
  /\ WF_mcvars(Outbox(Continue(c1)) \/ Download(DL!Worker(d1)) \/ Proceeds(k1))
  /\ WF_mcvars(Outbox(Continue(t1)) \/ Proceeds(k2))

----------------------------------------------------------------------------
\* Downloads: a worker that was told to stop does.
CancelStopsWorker == DL!CancelStopsWorker

(* Every call ends that was begun: a request, as a leader or a follower; a
   login, which gives the port back, whatever pages come, or none. *)
Waits(k) ==
  CASE part = "requests" -> MG!Busy(k) [] part = "login" -> OL!Busy(k)
    [] OTHER -> FALSE

CallsEnd ==
  /\ Waits(k1) ~> ~Waits(k1)
  /\ Waits(k2) ~> ~Waits(k2)
=============================================================================
