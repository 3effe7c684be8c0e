--------------------------- MODULE MetadataGateway ---------------------------
(***************************************************************************)
(* The request gateway of backend/metadata/manager.go: requestBytes and    *)
(* what it calls.  Identical requests in flight share one answer, answers  *)
(* are kept in a fresh and a stale cache, requests to AniList are paced by *)
(* turns and held back after a 429, and a burst of AniList failures puts   *)
(* the gateway in a degraded mode in which some readers go to Jikan.       *)
(*                                                                         *)
(* A request is one invocation of requestBytes.  Times are instants of a   *)
(* discrete clock; 0 stands for Go's zero time.  A body is the number of   *)
(* the answer among the answers fetched for its key; 0 is no body.         *)
(***************************************************************************)
EXTENDS Integers, FiniteSets

CONSTANTS
  Requests,        \* invocations of requestBytes, each made once
  AniListKeys,     \* cache keys of requests to AniList
  OtherKeys,       \* cache keys of requests to MangaDex and Jikan
  AniListAttempts, \* attempts of one request (4 in the code)
  OtherAttempts,   \* attempts of one request elsewhere (3)
  TurnDelay,       \* aniListTurnDelay (320 ms)
  BackoffBase,     \* aniListRateLimitBackoff: 6 s ...
  BackoffStep,     \* ... and 4 s more for each attempt
  Threshold,       \* aniListDegradeThreshold (2)
  Window,          \* aniListDegradeWindow (45 s)
  DegradeCooldown, \* aniListDegradeCooldown (8 min)
  MaxTime          \* bound: past it, the clock only serves who waits for a turn

Keys == AniListKeys \cup OtherKeys

ASSUME ConstantsAssumption ==
  /\ AniListKeys \cap OtherKeys = {}
  /\ Keys # {}
  /\ AniListAttempts \in Nat \ {0}
  /\ OtherAttempts \in Nat \ {0}
  /\ TurnDelay \in Nat \ {0}
  /\ BackoffBase \in Nat \ {0}
  /\ BackoffStep \in Nat
  /\ Threshold \in Nat \ {0}
  /\ Window \in Nat
  /\ DegradeCooldown \in Nat
  /\ DegradeCooldown >= Window
  /\ MaxTime \in Nat \ {0}

VARIABLES
  now,
  key,           \* key[r]: the cache key of request r
  pc,            \* pc[r]: where requestBytes is
  attempt,       \* attempt[r]: the loop counter
  wake,          \* wake[r]: when its turn comes
  body,          \* body[r]: what the request, or its leader, returns
  leader,        \* leader[r]: the request whose call r waits for
  unstable,      \* requests whose last error isAniListInstabilityError
  inFlight,      \* Manager.active: requests that registered a call
  fresh,         \* fresh[k]: the body cached under k
  stale,         \* stale[k]: the body cached under k|stale
  nextTurn,      \* nextAniListRequest
  cooldownEnd,   \* aniListCooldownEnd
  mode,          \* aniListMode
  degradedUntil, \* aniListDegradedUntil
  degradedAt,    \* aniListDegradedAt
  since,         \* aniListInstabilitySince
  count,         \* aniListInstabilityCount
  \* History, read by the properties only:
  fetched,       \* fetched[k]: answers received for k
  given,         \* given[k]: the latest body returned to a caller
  floor,         \* floor[r]: given[key[r]] when r was called
  turns,         \* <<r, attempt, instant>> of every turn handed out
  penalty,       \* the latest end of a back-off that AniList asked for
  blips          \* <<r, instant>> of the instabilities since AniList answered

requests == <<key, leader>>
caches   == <<fresh, stale>>
limiter  == <<nextTurn, cooldownEnd>>
degrade  == <<mode, degradedUntil, degradedAt, since, count>>
answers  == <<fetched, given, floor>>
pacing   == <<turns, penalty>>
vars     == <<now, key, pc, attempt, wake, body, leader, unstable, inFlight,
              fresh, stale, nextTurn, cooldownEnd, mode, degradedUntil,
              degradedAt, since, count, fetched, given, floor, turns, penalty,
              blips>>

Leading == {"turn", "paced", "store", "mirror", "recover", "publish",
            "settle", "fallback"}
Places  == Leading \cup {"idle", "lookup", "begin", "follow", "done", "diverted"}

AniList(r)     == key[r] \in AniListKeys
MaxAttempts(r) == IF AniList(r) THEN AniListAttempts ELSE OtherAttempts
Latest(a, b)   == IF a > b THEN a ELSE b
Goto(r, label) == pc' = [pc EXCEPT ![r] = label]

Init ==
  /\ now = 1
  /\ key \in [Requests -> Keys]
  /\ pc = [r \in Requests |-> "idle"]
  /\ attempt = [r \in Requests |-> 0]
  /\ wake = [r \in Requests |-> 0]
  /\ body = [r \in Requests |-> 0]
  /\ leader = [r \in Requests |-> r]
  /\ unstable = {}
  /\ inFlight = {}
  /\ fresh = [k \in Keys |-> 0]
  /\ stale = [k \in Keys |-> 0]
  /\ nextTurn = 0
  /\ cooldownEnd = 0
  /\ mode = "normal"
  /\ degradedUntil = 0
  /\ degradedAt = 0
  /\ since = 0
  /\ count = 0
  /\ fetched = [k \in Keys |-> 0]
  /\ given = [k \in Keys |-> 0]
  /\ floor = [r \in Requests |-> 0]
  /\ turns = {}
  /\ penalty = 0
  /\ blips = {}

----------------------------------------------------------------------------
(* The caller's side.                                                      *)

\* shouldUseJikanFallback.
FallbackActive == mode = "degraded" /\ now < degradedUntil

\* The return of a request: its body (0: an error) reaches the caller.
Deliver(r, b) ==
  /\ Goto(r, "done")
  /\ body' = [body EXCEPT ![r] = b]
  /\ given' = [given EXCEPT ![key[r]] = Latest(@, b)]

Call(r) ==
  /\ pc[r] = "idle"
  /\ Goto(r, "lookup")
  /\ floor' = [floor EXCEPT ![r] = given[key[r]]]
  /\ UNCHANGED <<now, requests, attempt, wake, body, unstable, inFlight,
                 caches, limiter, degrade, fetched, given, pacing, blips>>

\* SearchAniList and the catalog home ask Jikan instead.  (They look again
\* after an error, which changes nothing here.)
Divert(r) ==
  /\ pc[r] = "idle"
  /\ AniList(r)
  /\ FallbackActive
  /\ Goto(r, "diverted")
  /\ UNCHANGED <<now, requests, attempt, wake, body, unstable, inFlight,
                 caches, limiter, degrade, answers, pacing, blips>>

Lookup(r) ==
  /\ pc[r] = "lookup"
  /\ IF fresh[key[r]] # 0
     THEN Deliver(r, fresh[key[r]])
     ELSE Goto(r, "begin") /\ UNCHANGED <<body, given>>
  /\ UNCHANGED <<now, requests, attempt, wake, unstable, inFlight, caches,
                 limiter, degrade, fetched, floor, pacing, blips>>

\* Mutant: every caller registers a call of its own.
BeginAlwaysLeads(r) ==
  /\ pc[r] = "begin"
  /\ inFlight' = inFlight \cup {r}
  /\ Goto(r, "turn")
  /\ UNCHANGED <<now, requests, attempt, wake, body, unstable, caches,
                 limiter, degrade, answers, pacing, blips>>

\* beginRequest: join the call in flight for the key, or register one.
Begin(r) ==
  /\ pc[r] = "begin"
  /\ \/ \E l \in inFlight : /\ key[l] = key[r]
                            /\ leader' = [leader EXCEPT ![r] = l]
        /\ Goto(r, "follow")
        /\ UNCHANGED inFlight
     \/ /\ \A l \in inFlight : key[l] # key[r]
        /\ inFlight' = inFlight \cup {r}
        /\ Goto(r, "turn")
        /\ UNCHANGED leader
  /\ UNCHANGED <<now, key, attempt, wake, body, unstable, caches, limiter,
                 degrade, answers, pacing, blips>>

\* <-call.done: the follower returns what its leader returned.
Follow(r) ==
  /\ pc[r] = "follow"
  /\ leader[r] \notin inFlight
  /\ Deliver(r, body[leader[r]])
  /\ UNCHANGED <<now, requests, attempt, wake, unstable, inFlight, caches,
                 limiter, degrade, fetched, floor, pacing, blips>>

----------------------------------------------------------------------------
(* The leader's loop.                                                      *)

\* Mutant: the next turn is counted from now, not from the turn given.
ReserveFromNow(r) ==
  /\ pc[r] = "turn"
  /\ IF AniList(r)
     THEN LET readyAt == Latest(now, Latest(nextTurn, cooldownEnd))
          IN /\ wake' = [wake EXCEPT ![r] = readyAt]
             /\ nextTurn' = Latest(nextTurn, now + TurnDelay)
             /\ turns' = turns \cup {<<r, attempt[r], readyAt>>}
     ELSE /\ wake' = [wake EXCEPT ![r] = now]
          /\ UNCHANGED <<nextTurn, turns>>
  /\ Goto(r, "paced")
  /\ UNCHANGED <<now, requests, attempt, body, unstable, inFlight, caches,
                 cooldownEnd, degrade, answers, penalty, blips>>

\* waitAniListTurn, reserveAniListTurn.
ReserveTurn(r) ==
  /\ pc[r] = "turn"
  /\ IF AniList(r)
     THEN LET readyAt == Latest(now, Latest(nextTurn, cooldownEnd))
          IN /\ wake' = [wake EXCEPT ![r] = readyAt]
             /\ nextTurn' = readyAt + TurnDelay
             /\ turns' = turns \cup {<<r, attempt[r], readyAt>>}
     ELSE /\ wake' = [wake EXCEPT ![r] = now]
          /\ UNCHANGED <<nextTurn, turns>>
  /\ Goto(r, "paced")
  /\ UNCHANGED <<now, requests, attempt, body, unstable, inFlight, caches,
                 cooldownEnd, degrade, answers, penalty, blips>>

\* The turn has come and the request was answered.
Answered(r) == pc[r] = "paced" /\ now >= wake[r]

\* lastErr: only AniList's errors are ever asked for their kind.
LastError(r, isUnstable) ==
  /\ isUnstable => AniList(r)
  /\ unstable' = IF isUnstable THEN unstable \cup {r} ELSE unstable \ {r}

\* Mutant: one attempt too many.
RetryOnceMore(r) ==
  /\ attempt' = [attempt EXCEPT ![r] = @ + 1]
  /\ Goto(r, IF attempt[r] < MaxAttempts(r) THEN "turn" ELSE "settle")

\* The end of a failed attempt: sleep and go round, or leave the loop.  The
\* length of the sleep is left to the interleaving.
Retry(r) ==
  /\ attempt' = [attempt EXCEPT ![r] = @ + 1]
  /\ Goto(r, IF attempt[r] + 1 < MaxAttempts(r) THEN "turn" ELSE "settle")

\* A network error, a 409, a 5xx, a 429 elsewhere or a GraphQL error.
Fail(r) ==
  /\ Answered(r)
  /\ \E isUnstable \in BOOLEAN : LastError(r, isUnstable)
  /\ Retry(r)
  /\ UNCHANGED <<now, requests, wake, body, inFlight, caches, limiter,
                 degrade, answers, pacing, blips>>

Backoff(n) == BackoffBase + n * BackoffStep

\* Mutant: only the cooldown moves, not the next turn.
NoteRateLimitCooldownOnly(r) ==
  /\ cooldownEnd' = Latest(cooldownEnd, now + Backoff(attempt[r]))
  /\ nextTurn' = nextTurn
  /\ penalty' = Latest(penalty, now + Backoff(attempt[r]))

\* noteAniListRateLimit.
NoteRateLimit(r) ==
  /\ cooldownEnd' = Latest(cooldownEnd, now + Backoff(attempt[r]))
  /\ nextTurn' = Latest(nextTurn, now + Backoff(attempt[r]))
  /\ penalty' = Latest(penalty, now + Backoff(attempt[r]))

\* A 429 of AniList, or a GraphQL error that says the same.
Limited(r) ==
  /\ Answered(r)
  /\ AniList(r)
  /\ NoteRateLimit(r)
  /\ LastError(r, TRUE)
  /\ Retry(r)
  /\ UNCHANGED <<now, requests, wake, body, inFlight, caches, degrade,
                 answers, turns, blips>>

\* Any other status outside 2xx ends the loop at once.
Reject(r) ==
  /\ Answered(r)
  /\ \E isUnstable \in BOOLEAN : LastError(r, isUnstable)
  /\ Goto(r, "settle")
  /\ UNCHANGED <<now, requests, attempt, wake, body, inFlight, caches,
                 limiter, degrade, answers, pacing, blips>>

Succeed(r) ==
  /\ Answered(r)
  /\ fetched' = [fetched EXCEPT ![key[r]] = @ + 1]
  /\ body' = [body EXCEPT ![r] = fetched'[key[r]]]
  /\ Goto(r, "store")
  /\ UNCHANGED <<now, requests, attempt, wake, unstable, inFlight, caches,
                 limiter, degrade, given, floor, pacing, blips>>

\* SetBytes: an entry that is present is updated; a new one may be dropped
\* when the cache's buffers are full.
SetBytes(entry, k, b) ==
  {[entry EXCEPT ![k] = b]} \cup (IF entry[k] = 0 THEN {entry} ELSE {})

StoreFresh(r) ==
  /\ pc[r] = "store"
  /\ fresh' \in SetBytes(fresh, key[r], body[r])
  /\ Goto(r, "mirror")
  /\ UNCHANGED <<now, requests, attempt, wake, body, unstable, inFlight,
                 stale, limiter, degrade, answers, pacing, blips>>

\* Mutant: the stale copy is kept while there is one.
StoreStaleOnce(r) ==
  /\ pc[r] = "mirror"
  /\ stale' \in IF stale[key[r]] = 0 THEN SetBytes(stale, key[r], body[r])
                ELSE {stale}
  /\ Goto(r, IF AniList(r) THEN "recover" ELSE "publish")
  /\ UNCHANGED <<now, requests, attempt, wake, body, unstable, inFlight,
                 fresh, limiter, degrade, answers, pacing, blips>>

StoreStale(r) ==
  /\ pc[r] = "mirror"
  /\ stale' \in SetBytes(stale, key[r], body[r])
  /\ Goto(r, IF AniList(r) THEN "recover" ELSE "publish")
  /\ UNCHANGED <<now, requests, attempt, wake, body, unstable, inFlight,
                 fresh, limiter, degrade, answers, pacing, blips>>

\* Mutant: a success does not reset the count of failures.
RecoverKeepsCount(r) ==
  /\ pc[r] = "recover"
  /\ cooldownEnd' = 0
  /\ UNCHANGED <<since, count>>
  /\ blips' = {}
  /\ IF degradedUntil <= now
     THEN mode' = "normal" /\ degradedUntil' = 0 /\ degradedAt' = 0
     ELSE UNCHANGED <<mode, degradedUntil, degradedAt>>
  /\ Goto(r, "publish")
  /\ UNCHANGED <<now, requests, attempt, wake, body, unstable, inFlight,
                 caches, nextTurn, answers, pacing>>

\* clearAniListRateLimitCooldown, noteAniListRecovery.
Recover(r) ==
  /\ pc[r] = "recover"
  /\ cooldownEnd' = 0
  /\ since' = 0
  /\ count' = 0
  /\ blips' = {}
  /\ IF degradedUntil <= now
     THEN mode' = "normal" /\ degradedUntil' = 0 /\ degradedAt' = 0
     ELSE UNCHANGED <<mode, degradedUntil, degradedAt>>
  /\ Goto(r, "publish")
  /\ UNCHANGED <<now, requests, attempt, wake, body, unstable, inFlight,
                 caches, nextTurn, answers, pacing>>

\* finishRequest with the answer.
Publish(r) ==
  /\ pc[r] = "publish"
  /\ inFlight' = inFlight \ {r}
  /\ Deliver(r, body[r])
  /\ UNCHANGED <<now, requests, attempt, wake, unstable, caches, limiter,
                 degrade, fetched, floor, pacing, blips>>

\* noteAniListInstability.
NoteInstability(r) ==
  LET restart == since = 0 \/ now - since > Window
      burst   == count' >= Threshold
  IN /\ since' = IF restart THEN now ELSE since
     /\ count' = IF restart THEN 1 ELSE count + 1
     /\ mode' = IF burst THEN "degraded" ELSE mode
     /\ degradedAt' = IF burst /\ degradedAt = 0 THEN now ELSE degradedAt
     /\ degradedUntil' = IF burst THEN Latest(degradedUntil, now + DegradeCooldown)
                         ELSE degradedUntil
     /\ blips' = blips \cup {<<r, now>>}

\* The attempts are used up.
Settle(r) ==
  /\ pc[r] = "settle"
  /\ IF AniList(r) /\ r \in unstable
     THEN NoteInstability(r)
     ELSE UNCHANGED <<degrade, blips>>
  /\ Goto(r, "fallback")
  /\ UNCHANGED <<now, requests, attempt, wake, body, unstable, inFlight,
                 caches, limiter, answers, pacing>>

\* Mutant: the error is returned without finishRequest.
FallbackUnfinished(r) ==
  /\ pc[r] = "fallback"
  /\ inFlight' = IF AniList(r) /\ stale[key[r]] # 0 THEN inFlight \ {r}
                 ELSE inFlight
  /\ Deliver(r, IF AniList(r) THEN stale[key[r]] ELSE 0)
  /\ UNCHANGED <<now, requests, attempt, wake, unstable, caches, limiter,
                 degrade, fetched, floor, pacing, blips>>

\* The stale copy if there is one, else the error; finishRequest.
Fallback(r) ==
  /\ pc[r] = "fallback"
  /\ inFlight' = inFlight \ {r}
  /\ Deliver(r, IF AniList(r) THEN stale[key[r]] ELSE 0)
  /\ UNCHANGED <<now, requests, attempt, wake, unstable, caches, limiter,
                 degrade, fetched, floor, pacing, blips>>

Step(r) ==
  \/ Lookup(r) \/ Begin(r) \/ Follow(r) \/ ReserveTurn(r) \/ Fail(r)
  \/ Limited(r) \/ Reject(r) \/ Succeed(r) \/ StoreFresh(r) \/ StoreStale(r)
  \/ Recover(r) \/ Publish(r) \/ Settle(r) \/ Fallback(r)

----------------------------------------------------------------------------
(* The caches and the clock.                                               *)

\* Expiry or eviction, at any time.
Forget(k) ==
  /\ \/ fresh[k] # 0 /\ fresh' = [fresh EXCEPT ![k] = 0] /\ UNCHANGED stale
     \/ stale[k] # 0 /\ stale' = [stale EXCEPT ![k] = 0] /\ UNCHANGED fresh
  /\ UNCHANGED <<now, requests, pc, attempt, wake, body, unstable, inFlight,
                 limiter, degrade, answers, pacing, blips>>

Tick ==
  /\ now < MaxTime \/ \E r \in Requests : pc[r] = "paced" /\ now < wake[r]
  /\ now' = now + 1
  /\ UNCHANGED <<requests, pc, attempt, wake, body, unstable, inFlight,
                 caches, limiter, degrade, answers, pacing, blips>>

Next ==
  \/ \E r \in Requests : Call(r) \/ Divert(r) \/ Step(r)
  \/ \E k \in Keys : Forget(k)
  \/ Tick

\* Goroutines run, requests are answered (the clients have a timeout of 15 s)
\* and time passes.  Nobody has to call and no cache has to forget.
Fairness == WF_vars(Tick) /\ \A r \in Requests : WF_vars(Step(r))

Spec     == Init /\ [][Next]_vars
FairSpec == Spec /\ Fairness

----------------------------------------------------------------------------
(* Properties.                                                             *)

TypeOK ==
  /\ now \in Nat \ {0}
  /\ key \in [Requests -> Keys]
  /\ pc \in [Requests -> Places]
  /\ attempt \in [Requests -> Nat]
  /\ \A r \in Requests : attempt[r] <= MaxAttempts(r)
  /\ wake \in [Requests -> Nat]
  /\ body \in [Requests -> Nat]
  /\ leader \in [Requests -> Requests]
  /\ unstable \in SUBSET Requests
  /\ inFlight \in SUBSET Requests
  /\ fresh \in [Keys -> Nat]
  /\ stale \in [Keys -> Nat]
  /\ nextTurn \in Nat
  /\ cooldownEnd \in Nat
  /\ mode \in {"normal", "degraded"}
  /\ degradedUntil \in Nat
  /\ degradedAt \in Nat
  /\ since \in Nat
  /\ count \in Nat
  /\ fetched \in [Keys -> Nat]
  /\ given \in [Keys -> Nat]
  /\ floor \in [Requests -> Nat]
  /\ turns \in SUBSET (Requests \X Nat \X Nat)
  /\ penalty \in Nat
  /\ blips \in SUBSET (Requests \X Nat)

\* At most one request per key is on its way, from the cache miss that started
\* it to the answer its followers read.
SingleFlight ==
  \A r, s \in Requests :
    pc[r] \in Leading /\ pc[s] \in Leading /\ key[r] = key[s] => r = s

\* Two turns are at least the delay apart, whatever cooldowns were set and
\* lifted between their reservations.
TurnsSpaced ==
  \A t, u \in turns :
    t # u => t[3] >= u[3] + TurnDelay \/ u[3] >= t[3] + TurnDelay

\* A turn handed out after a 429 does not come before the back-off is over,
\* although the answer to a request sent earlier lifts the cooldown.
PenaltyIsServed ==
  [][\A t \in turns' \ turns : t[3] >= penalty]_vars

\* Readers are sent to Jikan only after a burst: enough failed requests within
\* the window, with no answer of AniList between them.
FallbackNeedsBurst ==
  [][~FallbackActive /\ FallbackActive' =>
       Cardinality({b \in blips' : b[2] >= now' - Window}) >= Threshold]_vars

\* A call is under way, as a leader or a follower.
Busy(r) == pc[r] \notin {"idle", "diverted", "done"}

\* The callers see a read-through register that never steps back.
phaseOf  == [r \in Requests |-> CASE pc[r] \in {"idle", "diverted"} -> "idle"
                                  [] pc[r] = "done" -> "done"
                                  [] OTHER -> "busy"]
resultOf == [r \in Requests |-> IF pc[r] = "done" THEN body[r] ELSE 0]
Register == INSTANCE ReadThrough WITH phase <- phaseOf, result <- resultOf
ReadThroughSpec == Register!Spec
=============================================================================
