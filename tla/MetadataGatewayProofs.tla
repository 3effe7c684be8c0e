----------------------- MODULE MetadataGatewayProofs -----------------------
(* Theorems about MetadataGateway, for any set of requests and keys, any   *)
(* delays and any number of attempts.                                      *)
EXTENDS MetadataGateway, FiniteSetTheorems, TLAPS

\* Unfolds the abbreviations that group variables.
USE DEF requests, caches, limiter, degrade, answers, pacing

----------------------------------------------------------------------------
(* Type correctness, with the bound on the attempts.                       *)

\* The loop counter is below its bound wherever another attempt may follow.
AttemptsLeft ==
  \A r \in Requests : pc[r] \in Places \ {"settle", "fallback", "done"} =>
                        attempt[r] < MaxAttempts(r)

LEMMA LatestIsMax ==
  ASSUME NEW a \in Nat, NEW b \in Nat
  PROVE  Latest(a, b) \in Nat /\ Latest(a, b) >= a /\ Latest(a, b) >= b
  BY DEF Latest

LEMMA MaxAttemptsType ==
  ASSUME NEW r \in Requests PROVE MaxAttempts(r) \in Nat \ {0}
  BY ConstantsAssumption DEF ConstantsAssumption, MaxAttempts

LEMMA BackoffType ==
  ASSUME NEW n \in Nat PROVE Backoff(n) \in Nat
  BY ConstantsAssumption DEF ConstantsAssumption, Backoff

LEMMA DeliverType ==
  ASSUME TypeOK, NEW r \in Requests, NEW b \in Nat, Deliver(r, b)
  PROVE  /\ pc' = [pc EXCEPT ![r] = "done"]
         /\ body' \in [Requests -> Nat]
         /\ given' \in [Keys -> Nat]
<1>1. given[key[r]] \in Nat
  BY DEF TypeOK
<1> QED
  BY <1>1, LatestIsMax DEF TypeOK, Deliver, Goto

LEMMA RetryType ==
  ASSUME TypeOK, AttemptsLeft, NEW r \in Requests, pc[r] = "paced", Retry(r),
         UNCHANGED key
  PROVE  /\ pc' \in [Requests -> Places]
         /\ attempt' \in [Requests -> Nat]
         /\ \A s \in Requests : attempt'[s] <= MaxAttempts(s)'
         /\ AttemptsLeft'
<1>1. /\ attempt[r] \in Nat /\ attempt[r] < MaxAttempts(r)
      /\ \A s \in Requests : MaxAttempts(s)' = MaxAttempts(s)
  BY DEF TypeOK, AttemptsLeft, Places, Leading, MaxAttempts, AniList
<1>2. /\ attempt' = [attempt EXCEPT ![r] = @ + 1]
      /\ pc' = [pc EXCEPT ![r] = IF attempt[r] + 1 < MaxAttempts(r) THEN "turn"
                                 ELSE "settle"]
  BY DEF Retry, Goto
<1> QED
  BY <1>1, <1>2, MaxAttemptsType DEF TypeOK, AttemptsLeft, Places, Leading

LEMMA NoteInstabilityType ==
  ASSUME TypeOK, NEW r \in Requests, NoteInstability(r)
  PROVE  /\ mode' \in {"normal", "degraded"}
         /\ degradedUntil' \in Nat /\ degradedAt' \in Nat
         /\ since' \in Nat /\ count' \in Nat
         /\ blips' \in SUBSET (Requests \X Nat)
<1>0. degradedUntil \in Nat /\ now + DegradeCooldown \in Nat
  BY ConstantsAssumption DEF ConstantsAssumption, TypeOK
<1>1. Latest(degradedUntil, now + DegradeCooldown) \in Nat
  BY <1>0, LatestIsMax
<1>2. degradedUntil' \in Nat
  BY <1>1 DEF NoteInstability, TypeOK
<1>3. mode' = "degraded" \/ mode' = mode
  BY DEF NoteInstability
<1>4. degradedAt' = now \/ degradedAt' = degradedAt
  BY DEF NoteInstability
<1>5. /\ since' = now \/ since' = since
      /\ count' = 1 \/ count' = count + 1
  BY DEF NoteInstability
<1>6. blips' \in SUBSET (Requests \X Nat)
  BY DEF NoteInstability, TypeOK
<1> QED
  BY <1>2, <1>3, <1>4, <1>5, <1>6 DEF TypeOK

LEMMA InitType == Init => TypeOK /\ AttemptsLeft
<1> SUFFICES ASSUME Init PROVE TypeOK /\ AttemptsLeft
  OBVIOUS
<1>1. \A r \in Requests : attempt[r] <= MaxAttempts(r) /\ attempt[r] < MaxAttempts(r)
  BY MaxAttemptsType DEF Init
<1> QED
  BY <1>1 DEF Init, TypeOK, AttemptsLeft, Places

LEMMA NextType == TypeOK /\ AttemptsLeft /\ [Next]_vars => TypeOK' /\ AttemptsLeft'
<1> SUFFICES ASSUME TypeOK, AttemptsLeft, [Next]_vars
             PROVE  TypeOK' /\ AttemptsLeft'
  OBVIOUS
<1> DEFINE Goal == TypeOK' /\ AttemptsLeft'
<1> USE DEF Goto, Places, Leading, TypeOK, AttemptsLeft, MaxAttempts, AniList
<1>1. ASSUME NEW r \in Requests, Call(r) \/ Divert(r) PROVE Goal
  BY <1>1 DEF Call, Divert
<1>2. ASSUME NEW r \in Requests, Lookup(r) PROVE Goal
  <2>1. fresh[key[r]] \in Nat
    OBVIOUS
  <2>2. CASE fresh[key[r]] # 0
    BY <1>2, <2>1, <2>2, DeliverType DEF Lookup
  <2>3. CASE fresh[key[r]] = 0
    BY <1>2, <2>3 DEF Lookup
  <2> QED
    BY <2>2, <2>3
<1>3. ASSUME NEW r \in Requests, Begin(r) PROVE Goal
  BY <1>3 DEF Begin
<1>4. ASSUME NEW r \in Requests, Follow(r) PROVE Goal
  BY <1>4, LatestIsMax DEF Follow, Deliver
<1>5. ASSUME NEW r \in Requests, ReserveTurn(r) PROVE Goal
  <2>1. TurnDelay \in Nat
    BY ConstantsAssumption DEF ConstantsAssumption
  <2>2. Latest(now, Latest(nextTurn, cooldownEnd)) \in Nat
    BY LatestIsMax
  <2> QED
    BY <1>5, <2>1, <2>2 DEF ReserveTurn
<1>6. ASSUME NEW r \in Requests, Fail(r) PROVE Goal
  <2>1. /\ pc[r] = "paced" /\ Retry(r)
        /\ unstable' \in SUBSET Requests
        /\ UNCHANGED <<now, requests, wake, body, inFlight, caches, limiter,
                       degrade, answers, pacing, blips>>
    BY <1>6 DEF Fail, Answered, LastError
  <2> QED
    BY <2>1, RetryType
<1>7. ASSUME NEW r \in Requests, Limited(r) PROVE Goal
  <2>1. /\ pc[r] = "paced" /\ Retry(r)
        /\ unstable' \in SUBSET Requests
        /\ UNCHANGED <<now, requests, wake, body, inFlight, caches, degrade,
                       answers, turns, blips>>
    BY <1>7 DEF Limited, Answered, LastError
  <2>2. now + Backoff(attempt[r]) \in Nat
    BY BackoffType
  <2>3. nextTurn' \in Nat /\ cooldownEnd' \in Nat /\ penalty' \in Nat
    BY <1>7, <2>2, LatestIsMax DEF Limited, NoteRateLimit
  <2> QED
    BY <2>1, <2>3, RetryType
<1>8. ASSUME NEW r \in Requests, Reject(r) PROVE Goal
  BY <1>8 DEF Reject, Answered, LastError
<1>9. ASSUME NEW r \in Requests, Succeed(r) PROVE Goal
  BY <1>9 DEF Succeed, Answered
<1>10. ASSUME NEW r \in Requests, StoreFresh(r) PROVE Goal
  BY <1>10 DEF StoreFresh, SetBytes
<1>11. ASSUME NEW r \in Requests, StoreStale(r) PROVE Goal
  BY <1>11 DEF StoreStale, SetBytes
<1>12. ASSUME NEW r \in Requests, Recover(r) PROVE Goal
  BY <1>12 DEF Recover
<1>13. ASSUME NEW r \in Requests, Publish(r) PROVE Goal
  BY <1>13, LatestIsMax DEF Publish, Deliver
<1>14. ASSUME NEW r \in Requests, Settle(r) PROVE Goal
  <2>1. /\ pc' = [pc EXCEPT ![r] = "fallback"]
        /\ UNCHANGED <<now, requests, attempt, wake, body, unstable, inFlight,
                       caches, limiter, answers, pacing>>
    BY <1>14 DEF Settle
  <2>2. /\ mode' \in {"normal", "degraded"}
        /\ degradedUntil' \in Nat /\ degradedAt' \in Nat
        /\ since' \in Nat /\ count' \in Nat
        /\ blips' \in SUBSET (Requests \X Nat)
    BY <1>14, NoteInstabilityType DEF Settle
  <2> QED
    BY <2>1, <2>2
<1>15. ASSUME NEW r \in Requests, Fallback(r) PROVE Goal
  BY <1>15, LatestIsMax DEF Fallback, Deliver
<1>16. ASSUME NEW k \in Keys, Forget(k) PROVE Goal
  BY <1>16 DEF Forget
<1>17. CASE Tick
  BY <1>17 DEF Tick
<1>18. CASE UNCHANGED vars
  BY <1>18 DEF vars
<1> QED
  BY <1>1, <1>2, <1>3, <1>4, <1>5, <1>6, <1>7, <1>8, <1>9, <1>10, <1>11,
     <1>12, <1>13, <1>14, <1>15, <1>16, <1>17, <1>18 DEF Next, Step

\* Every reachable state is well typed and no loop exceeds its attempts.
THEOREM TypeCorrect == Spec => []TypeOK
  BY InitType, NextType, PTL DEF Spec

----------------------------------------------------------------------------
(* Calls in flight and turns.                                              *)

\* The map holds exactly the leaders, and one per key.
MapIsHonest ==
  /\ \A r \in Requests : r \in inFlight <=> pc[r] \in Leading
  /\ \A r, s \in inFlight : key[r] = key[s] => r = s

\* The next turn comes after every turn given and every back-off imposed.
NextTurnIsLast ==
  /\ \A t \in turns : t[3] + TurnDelay <= nextTurn
  /\ penalty <= nextTurn

FlightInv == /\ TypeOK /\ AttemptsLeft
             /\ MapIsHonest /\ NextTurnIsLast /\ TurnsSpaced

LEMMA InitFlight == Init => FlightInv
<1> SUFFICES ASSUME Init PROVE FlightInv
  OBVIOUS
<1>1. MapIsHonest
  BY DEF Init, MapIsHonest, Leading
<1>2. NextTurnIsLast /\ TurnsSpaced
  BY DEF Init, NextTurnIsLast, TurnsSpaced
<1> QED
  BY <1>1, <1>2, InitType DEF FlightInv

\* A turn lies after the turns and the back-offs before it.
LEMMA ReserveTurnIsLast ==
  ASSUME FlightInv, NEW r \in Requests, ReserveTurn(r)
  PROVE  /\ NextTurnIsLast' /\ TurnsSpaced'
         /\ \A t \in turns' \ turns : t[3] >= penalty
<1> DEFINE readyAt == Latest(now, Latest(nextTurn, cooldownEnd))
<1> USE DEF FlightInv, TypeOK, NextTurnIsLast, TurnsSpaced
<1>1. TurnDelay \in Nat
  BY ConstantsAssumption DEF ConstantsAssumption
<1>2. readyAt \in Nat /\ readyAt >= nextTurn
  <2>1. now \in Nat /\ nextTurn \in Nat /\ cooldownEnd \in Nat
    OBVIOUS
  <2>2. /\ Latest(nextTurn, cooldownEnd) \in Nat
        /\ Latest(nextTurn, cooldownEnd) >= nextTurn
    BY <2>1, LatestIsMax
  <2>3. readyAt \in Nat /\ readyAt >= Latest(nextTurn, cooldownEnd)
    BY <2>1, <2>2, LatestIsMax
  <2> QED
    BY <2>1, <2>2, <2>3
<1>3. penalty' = penalty
  BY DEF ReserveTurn
<1>4. CASE AniList(r)
  <2>1. /\ nextTurn' = readyAt + TurnDelay
        /\ turns' = turns \cup {<<r, attempt[r], readyAt>>}
    BY <1>4 DEF ReserveTurn
  <2>2. \A t \in turns : t[3] \in Nat
    OBVIOUS
  <2> HIDE DEF readyAt
  <2>3. NextTurnIsLast'
    BY <1>1, <1>2, <1>3, <2>1, <2>2
  <2>4. TurnsSpaced'
    BY <1>1, <1>2, <2>1, <2>2
  <2> QED
    BY <1>2, <2>1, <2>3, <2>4
<1>5. CASE ~AniList(r)
  BY <1>3, <1>5 DEF ReserveTurn
<1> QED
  BY <1>4, <1>5

LEMMA NextFlight == FlightInv /\ [Next]_vars => FlightInv'
<1> SUFFICES ASSUME FlightInv, [Next]_vars PROVE FlightInv'
  OBVIOUS
<1> DEFINE Goal == MapIsHonest' /\ NextTurnIsLast' /\ TurnsSpaced'
<1> TypeOK' /\ AttemptsLeft'
  BY NextType DEF FlightInv
<1> SUFFICES Goal
  BY DEF FlightInv
<1> USE DEF FlightInv, MapIsHonest, Leading
<1>1. ASSUME NEW r \in Requests, ReserveTurn(r) PROVE Goal
  <2>1. NextTurnIsLast' /\ TurnsSpaced'
    BY <1>1, ReserveTurnIsLast
  <2>2. MapIsHonest'
    BY <1>1 DEF ReserveTurn, Goto, TypeOK
  <2> QED
    BY <2>1, <2>2
<1>2. ASSUME NEW r \in Requests, Limited(r) PROVE Goal
  <2>1. now + Backoff(attempt[r]) \in Nat
    BY BackoffType DEF TypeOK
  <2>2. nextTurn' >= nextTurn /\ penalty' <= nextTurn' /\ nextTurn' \in Nat
    BY <1>2, <2>1 DEF Limited, NoteRateLimit, Latest, TypeOK, NextTurnIsLast
  <2>3. NextTurnIsLast'
    <3>1. turns' = turns
      BY <1>2 DEF Limited
    <3>2. \A t \in turns : t[3] \in Nat
      BY DEF TypeOK
    <3>3. TurnDelay \in Nat /\ nextTurn \in Nat
      BY ConstantsAssumption DEF ConstantsAssumption, TypeOK
    <3> QED
      BY <2>2, <3>1, <3>2, <3>3 DEF NextTurnIsLast
  <2>4. MapIsHonest' /\ TurnsSpaced'
    BY <1>2 DEF Limited, Answered, Retry, Goto, TypeOK, TurnsSpaced
  <2> QED
    BY <2>3, <2>4
<1>3. ASSUME NEW r \in Requests,
             \/ Call(r) \/ Divert(r) \/ Lookup(r) \/ Begin(r) \/ Follow(r)
             \/ Fail(r) \/ Reject(r) \/ Succeed(r) \/ StoreFresh(r)
             \/ StoreStale(r) \/ Recover(r) \/ Publish(r) \/ Settle(r)
             \/ Fallback(r)
      PROVE  Goal
  <2>1. UNCHANGED <<key, nextTurn, turns, penalty>>
    BY <1>3 DEF Call, Divert, Lookup, Begin, Follow, Fail, Reject, Succeed,
                StoreFresh, StoreStale, Recover, Publish, Settle, Fallback
  <2>2. NextTurnIsLast' /\ TurnsSpaced'
    BY <2>1 DEF NextTurnIsLast, TurnsSpaced
  <2> USE DEF Goto, Deliver, TypeOK
  <2>3. CASE Call(r) \/ Divert(r) \/ Lookup(r) \/ Follow(r)
    BY <2>2, <2>3 DEF Call, Divert, Lookup, Follow
  <2>4. CASE Begin(r)
    BY <2>2, <2>4 DEF Begin
  <2>5. CASE Fail(r) \/ Reject(r) \/ Succeed(r)
    BY <2>2, <2>5 DEF Fail, Reject, Succeed, Answered, Retry
  <2>6. CASE StoreFresh(r) \/ StoreStale(r) \/ Recover(r) \/ Settle(r)
    BY <2>2, <2>6 DEF StoreFresh, StoreStale, Recover, Settle
  <2>7. CASE Publish(r) \/ Fallback(r)
    BY <2>2, <2>7 DEF Publish, Fallback
  <2> QED
    BY <1>3, <2>3, <2>4, <2>5, <2>6, <2>7
<1>4. CASE Tick \/ UNCHANGED vars \/ \E k \in Keys : Forget(k)
  <2>1. UNCHANGED <<key, pc, inFlight, nextTurn, turns, penalty>>
    BY <1>4 DEF Tick, vars, Forget
  <2> QED
    BY <2>1 DEF NextTurnIsLast, TurnsSpaced
<1> QED
  BY <1>1, <1>2, <1>3, <1>4 DEF Next, Step

\* The invariant behind the theorems about flights and turns.
THEOREM FlightInvariant == Spec => []FlightInv
  BY InitFlight, NextFlight, PTL DEF Spec

\* One request per key is under way, however the callers interleave.
THEOREM SingleFlightHolds == Spec => []SingleFlight
<1>1. FlightInv => SingleFlight
  BY DEF FlightInv, MapIsHonest, SingleFlight
<1> QED
  BY <1>1, FlightInvariant, PTL

\* Turns are the delay apart, however cooldowns come and go.
THEOREM TurnsSpacedHolds == Spec => []TurnsSpaced
<1>1. FlightInv => TurnsSpaced
  BY DEF FlightInv
<1> QED
  BY <1>1, FlightInvariant, PTL

\* No turn given after a 429 falls inside its back-off.
THEOREM PenaltyIsServedHolds == Spec => PenaltyIsServed
<1> DEFINE Served == \A t \in turns' \ turns : t[3] >= penalty
<1>1. FlightInv /\ [Next]_vars => [Served]_vars
  <2> SUFFICES ASSUME FlightInv, Next PROVE Served
    OBVIOUS
  <2>1. ASSUME NEW r \in Requests, ReserveTurn(r) PROVE Served
    BY <2>1, ReserveTurnIsLast
  <2>2. CASE turns' = turns
    BY <2>2
  <2> QED
    BY <2>1, <2>2
    DEF Next, Step, Tick, Forget, Call, Divert, Lookup, Begin, Follow, Fail,
        Limited, Reject, Succeed, StoreFresh, StoreStale, Recover, Publish,
        Settle, Fallback
<1> QED
  BY <1>1, FlightInvariant, PTL DEF Spec, PenaltyIsServed

----------------------------------------------------------------------------
(* The burst that sends readers to Jikan.                                  *)

\* The failures noted at or after the instant t.
From(t) == {b \in blips : b[2] >= t}

\* A request that noted a failure has left its loop for good; the counter
\* counts no failure twice and none from before the present burst.
BurstInv ==
  /\ TypeOK /\ AttemptsLeft
  /\ IsFiniteSet(blips)
  /\ \A b \in blips : pc[b[1]] \in {"fallback", "done"} /\ b[2] <= now
  /\ since <= now
  /\ since # 0 => count <= Cardinality(From(since))

LEMMA InitBurst == Init => BurstInv
<1> SUFFICES ASSUME Init PROVE BurstInv
  OBVIOUS
<1>1. blips = {} /\ since = 0 /\ now = 1
  BY DEF Init
<1> QED
  BY <1>1, InitType, FS_EmptySet DEF BurstInv

\* A failure that is noted is one more within the burst, and the burst begins
\* within the window.
LEMMA NoteInstabilityCounts ==
  ASSUME BurstInv, NEW r \in Requests, pc[r] = "settle", NoteInstability(r), now' = now
  PROVE  /\ IsFiniteSet(blips')
         /\ since' <= now /\ since' >= now - Window
         /\ count' <= Cardinality(From(since)')
         /\ count' <= Cardinality({b \in blips' : b[2] >= now' - Window})
<1> DEFINE b0 == <<r, now>>
           burst == {b \in blips' : b[2] >= since'}
           recent == {b \in blips' : b[2] >= now' - Window}
<1>1. /\ blips' = blips \cup {b0}
      /\ IsFiniteSet(blips) /\ IsFiniteSet(blips')
  BY FS_AddElement DEF BurstInv, NoteInstability
<1>2. /\ now \in Nat \ {0} /\ since \in Nat /\ count \in Nat /\ Window \in Nat
      /\ \A b \in blips : b[2] \in Nat
  BY ConstantsAssumption DEF ConstantsAssumption, BurstInv, TypeOK
<1>3. b0 \notin blips /\ b0[2] = now
  BY DEF BurstInv
<1>4. IsFiniteSet(burst) /\ Cardinality(burst) \in Nat
  BY <1>1, FS_Subset, FS_CardinalityType
<1>5. /\ since' <= now /\ since' >= now - Window /\ since' \in Nat
      /\ count' \in Nat
      /\ count' <= Cardinality(burst)
  <2>1. CASE since = 0 \/ now - since > Window
    <3>1. since' = now /\ count' = 1
      BY <2>1 DEF NoteInstability
    <3>2. b0 \in burst
      BY <1>1, <1>2, <1>3, <3>1
    <3>3. Cardinality(burst) # 0
      BY <1>4, <3>2, FS_EmptySet
    <3> HIDE DEF burst
    <3> QED
      BY <1>2, <1>4, <3>1, <3>3
  <2>2. CASE ~(since = 0 \/ now - since > Window)
    <3>1. since' = since /\ count' = count + 1 /\ since <= now
      BY <2>2 DEF NoteInstability, BurstInv
    <3>2. burst = From(since) \cup {b0}
      BY <1>1, <1>2, <1>3, <3>1 DEF From
    <3>3. b0 \notin From(since) /\ IsFiniteSet(From(since))
      BY <1>1, <1>3, FS_Subset DEF From
    <3>4. Cardinality(burst) = Cardinality(From(since)) + 1
      BY <3>2, <3>3, FS_AddElement
    <3>5. count <= Cardinality(From(since)) /\ Cardinality(From(since)) \in Nat
      BY <2>2, <3>3, FS_CardinalityType DEF BurstInv
    <3> HIDE DEF burst
    <3> QED
      BY <1>2, <2>2, <3>1, <3>4, <3>5
  <2> QED
    BY <2>1, <2>2
<1>6. IsFiniteSet(recent) /\ Cardinality(burst) <= Cardinality(recent)
  <2>1. burst \subseteq recent
    BY <1>1, <1>2, <1>3, <1>5
  <2>2. IsFiniteSet(recent)
    BY <1>1, FS_Subset
  <2> QED
    BY <2>1, <2>2, FS_Subset
<1>7. Cardinality(recent) \in Nat
  BY <1>6, FS_CardinalityType
<1>8. count' <= Cardinality(recent)
  <2> HIDE DEF burst, recent
  <2> QED
    BY <1>4, <1>5, <1>6, <1>7
<1>9. From(since)' = burst
  BY DEF From
<1> QED
  BY <1>1, <1>5, <1>8, <1>9

LEMMA NextBurst == BurstInv /\ [Next]_vars => BurstInv'
<1> SUFFICES ASSUME BurstInv, [Next]_vars PROVE BurstInv'
  OBVIOUS
<1>0. TypeOK' /\ AttemptsLeft'
  BY NextType DEF BurstInv
<1> DEFINE Settled == \A b \in blips' : pc'[b[1]] \in {"fallback", "done"} /\ b[2] <= now'
           Counted == since' # 0 => count' <= Cardinality(From(since)')
<1> SUFFICES IsFiniteSet(blips') /\ Settled /\ since' <= now' /\ Counted
  BY <1>0 DEF BurstInv
<1>1. ASSUME NEW r \in Requests, Settle(r), AniList(r) /\ r \in unstable
      PROVE  IsFiniteSet(blips') /\ Settled /\ since' <= now' /\ Counted
  <2>1. /\ pc[r] = "settle" /\ pc' = [pc EXCEPT ![r] = "fallback"]
        /\ NoteInstability(r) /\ now' = now /\ blips' = blips \cup {<<r, now>>}
    BY <1>1 DEF Settle, Goto, NoteInstability
  <2>2. Settled
    BY <2>1 DEF BurstInv, TypeOK
  <2> QED
    BY <2>1, <2>2, NoteInstabilityCounts
<1>2. ASSUME NEW r \in Requests, Recover(r)
      PROVE  IsFiniteSet(blips') /\ Settled /\ since' <= now' /\ Counted
  BY <1>2, FS_EmptySet DEF Recover, BurstInv, TypeOK
<1>3. ASSUME UNCHANGED <<blips, since, count>>, now' = now \/ now' = now + 1,
             \A r \in Requests : pc[r] \in {"fallback", "done"} => pc'[r] \in {"fallback", "done"}
      PROVE  IsFiniteSet(blips') /\ Settled /\ since' <= now' /\ Counted
  <2>1. \A b \in blips : b[1] \in Requests /\ b[2] \in Nat
    BY DEF BurstInv, TypeOK
  <2> QED
    BY <1>3, <2>1 DEF BurstInv, TypeOK, From
<1>4. ASSUME NEW r \in Requests,
             \/ Call(r) \/ Divert(r) \/ Lookup(r) \/ Begin(r) \/ Follow(r)
             \/ ReserveTurn(r) \/ Fail(r) \/ Limited(r) \/ Reject(r) \/ Succeed(r)
             \/ StoreFresh(r) \/ StoreStale(r) \/ Publish(r) \/ Fallback(r)
             \/ Settle(r) /\ ~(AniList(r) /\ r \in unstable)
      PROVE  /\ UNCHANGED <<blips, since, count, now, mode, degradedUntil>>
             /\ \A s \in Requests :
                  pc[s] \in {"fallback", "done"} => pc'[s] \in {"fallback", "done"}
  <2> USE DEF Goto, Deliver, BurstInv, TypeOK
  <2>1. CASE Call(r) \/ Divert(r) \/ Lookup(r) \/ Follow(r) \/ Publish(r) \/ Fallback(r)
    BY <2>1 DEF Call, Divert, Lookup, Follow, Publish, Fallback
  <2>2. CASE Begin(r) \/ ReserveTurn(r)
    BY <2>2 DEF Begin, ReserveTurn
  <2>3. CASE Fail(r) \/ Limited(r) \/ Reject(r) \/ Succeed(r)
    <3>1. /\ UNCHANGED <<blips, since, count, now, mode, degradedUntil>>
          /\ pc[r] = "paced" /\ \E label \in Places : pc' = [pc EXCEPT ![r] = label]
      BY <2>3 DEF Fail, Limited, Reject, Succeed, Answered, Retry, Places, Leading
    <3> QED
      BY <3>1
  <2>4. CASE StoreFresh(r) \/ StoreStale(r)
    BY <2>4 DEF StoreFresh, StoreStale
  <2>5. CASE Settle(r) /\ ~(AniList(r) /\ r \in unstable)
    BY <2>5 DEF Settle
  <2> QED
    BY <1>4, <2>1, <2>2, <2>3, <2>4, <2>5
<1>5. CASE Tick \/ UNCHANGED vars \/ \E k \in Keys : Forget(k)
  BY <1>3, <1>5 DEF Tick, vars, Forget
<1> QED
  BY <1>1, <1>2, <1>3, <1>4, <1>5 DEF Next, Step

\* Readers go to Jikan only after enough different requests failed within the
\* window and none was answered between them.
THEOREM FallbackNeedsBurstHolds == Spec => FallbackNeedsBurst
<1> DEFINE Needs == ~FallbackActive /\ FallbackActive' =>
                      Cardinality({b \in blips' : b[2] >= now' - Window}) >= Threshold
<1>1. BurstInv /\ [Next]_vars => [Needs]_vars
  <2> SUFFICES ASSUME BurstInv, Next, ~FallbackActive, FallbackActive'
               PROVE  Cardinality({b \in blips' : b[2] >= now' - Window}) >= Threshold
    OBVIOUS
  <2>1. ASSUME NEW r \in Requests, Settle(r), AniList(r) /\ r \in unstable
        PROVE  Cardinality({b \in blips' : b[2] >= now' - Window}) >= Threshold
    <3>1. pc[r] = "settle" /\ NoteInstability(r) /\ now' = now
      BY <2>1 DEF Settle
    <3>2. count' >= Threshold
      <4>1. CASE ~(count' >= Threshold)
        BY <3>1, <4>1 DEF NoteInstability, FallbackActive
      <4> QED
        BY <4>1
    <3>3. /\ IsFiniteSet(blips')
          /\ count' <= Cardinality({b \in blips' : b[2] >= now' - Window})
      BY <3>1, NoteInstabilityCounts
    <3>4. Cardinality({b \in blips' : b[2] >= now' - Window}) \in Nat
      BY <3>3, FS_Subset, FS_CardinalityType
    <3>5. count' \in Nat /\ Threshold \in Nat
      BY <3>1, ConstantsAssumption DEF ConstantsAssumption, NoteInstability, BurstInv, TypeOK
    <3> QED
      BY <3>2, <3>3, <3>4, <3>5
  <2>2. CASE \/ UNCHANGED <<now, mode, degradedUntil>>
             \/ \E r \in Requests : Recover(r)
    BY <2>2 DEF Recover, FallbackActive
  <2>3. CASE Tick
    BY <2>3 DEF Tick, FallbackActive, BurstInv, TypeOK
  <2> QED
    BY <2>1, <2>2, <2>3
    DEF Next, Step, Forget, Call, Divert, Lookup, Begin, Follow, ReserveTurn, Fail,
        Limited, Reject, Succeed, StoreFresh, StoreStale, Publish, Settle, Fallback
<1> QED
  BY <1>1, InitBurst, NextBurst, PTL DEF Spec, FallbackNeedsBurst

----------------------------------------------------------------------------
(* The gateway implements the read-through register.                       *)

Storing(k)   == \E r \in Requests : key[r] = k /\ pc[r] = "store"
Mirroring(k) == \E r \in Requests : key[r] = k /\ pc[r] \in {"store", "mirror"}

\* A cache entry is the last answer, except while that answer is being stored.
CachesAreCurrent ==
  \A k \in Keys :
    /\ given[k] <= fetched[k]
    /\ fresh[k] <= fetched[k]
    /\ \/ fresh[k] \in {0, fetched[k]}
       \/ Storing(k) /\ fresh[k] >= given[k]
    /\ stale[k] \in {0, fetched[k]} \/ Mirroring(k)

\* A leader that was answered holds the last answer; what was returned is
\* accounted for; nobody was called after a body it could still miss.
BodiesAreCurrent ==
  \A r \in Requests :
    /\ pc[r] \in {"store", "mirror", "recover", "publish"} =>
         body[r] = fetched[key[r]]
    /\ pc[r] = "done" => body[r] <= given[key[r]]
    /\ floor[r] <= given[key[r]]

\* A follower's leader is under way, or has returned something new enough.
FollowersAreServed ==
  \A r \in Requests : pc[r] = "follow" =>
    /\ key[leader[r]] = key[r]
    /\ pc[leader[r]] \in Leading \cup {"done"}
    /\ pc[leader[r]] = "done" =>
         body[leader[r]] = 0 \/ body[leader[r]] >= floor[r]

AgeInv == FlightInv /\ CachesAreCurrent /\ BodiesAreCurrent /\ FollowersAreServed

LEMMA InitAge == Init => AgeInv
<1> SUFFICES ASSUME Init PROVE AgeInv
  OBVIOUS
<1>1. CachesAreCurrent
  BY DEF Init, CachesAreCurrent
<1>2. BodiesAreCurrent /\ FollowersAreServed
  BY DEF Init, BodiesAreCurrent, FollowersAreServed
<1> QED
  BY <1>1, <1>2, InitFlight DEF AgeInv

\* What is returned: an error, or a body fetched and new enough.
Returnable(r, b) ==
  /\ b \in Nat
  /\ b = 0 \/ (b >= floor[r] /\ b <= fetched[key[r]])

LEMMA ReturnedIsCurrent ==
  ASSUME AgeInv, NEW r \in Requests
  PROVE  /\ pc[r] = "lookup" => Returnable(r, fresh[key[r]])
         /\ pc[r] = "follow" /\ leader[r] \notin inFlight =>
              Returnable(r, body[leader[r]])
         /\ pc[r] = "publish" => Returnable(r, body[r])
         /\ pc[r] = "fallback" => Returnable(r, stale[key[r]])
<1> USE DEF AgeInv, FlightInv, TypeOK
<1>1. key[r] \in Keys /\ floor[r] <= given[key[r]] /\ given[key[r]] <= fetched[key[r]]
  BY DEF BodiesAreCurrent, CachesAreCurrent
<1>2. /\ floor[r] \in Nat /\ given[key[r]] \in Nat /\ fetched[key[r]] \in Nat
      /\ fresh[key[r]] \in Nat /\ stale[key[r]] \in Nat /\ body[r] \in Nat
  BY <1>1
<1>3. Returnable(r, fresh[key[r]])
  <2>1. /\ fresh[key[r]] <= fetched[key[r]]
        /\ \/ fresh[key[r]] = 0
           \/ fresh[key[r]] = fetched[key[r]]
           \/ fresh[key[r]] >= given[key[r]]
    BY <1>1 DEF CachesAreCurrent
  <2> QED
    BY <1>1, <1>2, <2>1 DEF Returnable
<1>4. ASSUME pc[r] = "follow", leader[r] \notin inFlight
      PROVE  Returnable(r, body[leader[r]])
  <2>1. /\ leader[r] \in Requests /\ key[leader[r]] = key[r]
        /\ pc[leader[r]] = "done"
        /\ body[leader[r]] = 0 \/ body[leader[r]] >= floor[r]
    BY <1>4 DEF FollowersAreServed, MapIsHonest
  <2>2. body[leader[r]] <= given[key[r]] /\ body[leader[r]] \in Nat
    BY <2>1 DEF BodiesAreCurrent
  <2> QED
    BY <1>1, <1>2, <2>1, <2>2 DEF Returnable
<1>5. pc[r] = "publish" => Returnable(r, body[r])
  BY <1>1, <1>2 DEF BodiesAreCurrent, Returnable
<1>6. ASSUME pc[r] = "fallback" PROVE Returnable(r, stale[key[r]])
  <2>1. ~Mirroring(key[r])
    BY <1>6 DEF Mirroring, MapIsHonest, Leading
  <2>2. stale[key[r]] \in {0, fetched[key[r]]}
    BY <1>1, <2>1 DEF CachesAreCurrent
  <2> QED
    BY <1>1, <1>2, <2>2 DEF Returnable
<1> QED
  BY <1>3, <1>4, <1>5, <1>6

\* A return keeps the register's invariant.
LEMMA DeliverAge ==
  ASSUME AgeInv, NEW r \in Requests, NEW b \in Nat, Deliver(r, b),
         UNCHANGED <<key, leader, fresh, stale, fetched, floor>>,
         \/ pc[r] \in {"publish", "fallback"} /\ b \in {0, fetched[key[r]]}
         \/ pc[r] = "lookup" /\ b = fresh[key[r]]
         \/ pc[r] = "follow" /\ b <= given[key[r]]
  PROVE  CachesAreCurrent' /\ BodiesAreCurrent' /\ FollowersAreServed'
<1> USE DEF AgeInv, FlightInv, TypeOK, Leading
<1>1. /\ pc' = [pc EXCEPT ![r] = "done"]
      /\ body' = [body EXCEPT ![r] = b]
      /\ given' = [given EXCEPT ![key[r]] = Latest(@, b)]
  BY DEF Deliver, Goto
<1>2. key[r] \in Keys /\ given[key[r]] \in Nat /\ fetched[key[r]] \in Nat
      /\ fresh[key[r]] \in Nat
  OBVIOUS
<1>3. /\ given[key[r]] <= fetched[key[r]] /\ fresh[key[r]] <= fetched[key[r]]
      /\ b <= fetched[key[r]]
  BY <1>2 DEF CachesAreCurrent
<1>4. \A k \in Keys : given'[k] \in Nat /\ given'[k] >= given[k]
  <2>1. /\ Latest(given[key[r]], b) \in Nat
        /\ Latest(given[key[r]], b) >= given[key[r]]
    BY <1>2, LatestIsMax
  <2> QED
    BY <1>1, <2>1
<1>5. given'[key[r]] >= b /\ given'[key[r]] <= fetched[key[r]]
  BY <1>1, <1>2, <1>3 DEF Latest
<1>6. /\ \A k \in Keys : Storing(k) => Storing(k)'
      /\ \A k \in Keys : Mirroring(k) => Mirroring(k)'
  BY <1>1 DEF Storing, Mirroring
<1>7. CachesAreCurrent'
  <2> SUFFICES ASSUME NEW k \in Keys
               PROVE  /\ given'[k] <= fetched[k]
                      /\ fresh[k] <= fetched[k]
                      /\ \/ fresh[k] \in {0, fetched[k]}
                         \/ Storing(k)' /\ fresh[k] >= given'[k]
                      /\ stale[k] \in {0, fetched[k]} \/ Mirroring(k)'
    BY DEF CachesAreCurrent
  <2>1. /\ given[k] <= fetched[k] /\ fresh[k] <= fetched[k]
        /\ stale[k] \in {0, fetched[k]} \/ Mirroring(k)'
    BY <1>6 DEF CachesAreCurrent
  <2>2. given'[k] <= fetched[k]
    BY <1>1, <1>5, <2>1
  <2>3. ASSUME Storing(k), fresh[k] >= given[k]
        PROVE  fresh[k] >= given'[k]
    <3>1. CASE k # key[r]
      BY <1>1, <2>3, <3>1
    <3>2. CASE k = key[r]
      <4>1. pc[r] \notin Leading
        BY <2>3, <3>2 DEF Storing, MapIsHonest
      <4>2. b <= fresh[k]
        BY <1>2, <2>3, <3>2, <4>1
      <4> QED
        BY <1>1, <1>2, <2>3, <3>2, <4>2 DEF Latest
    <3> QED
      BY <3>1, <3>2
  <2>4. fresh[k] \in {0, fetched[k]} \/ (Storing(k) /\ fresh[k] >= given[k])
    BY DEF CachesAreCurrent
  <2> QED
    BY <1>6, <2>1, <2>2, <2>3, <2>4
<1>8. BodiesAreCurrent'
  <2> SUFFICES ASSUME NEW s \in Requests
               PROVE  /\ pc'[s] \in {"store", "mirror", "recover", "publish"} =>
                           body'[s] = fetched[key[s]]
                      /\ pc'[s] = "done" => body'[s] <= given'[key[s]]
                      /\ floor[s] <= given'[key[s]]
    BY DEF BodiesAreCurrent
  <2>1. /\ key[s] \in Keys /\ floor[s] \in Nat /\ body[s] \in Nat
        /\ given[key[s]] \in Nat /\ floor[s] <= given[key[s]]
    BY DEF BodiesAreCurrent
  <2>2. floor[s] <= given'[key[s]]
    BY <1>4, <2>1
  <2>3. CASE s = r
    BY <1>1, <1>5, <2>2, <2>3
  <2>4. CASE s # r
    <3>1. pc'[s] = pc[s] /\ body'[s] = body[s]
      BY <1>1, <2>4
    <3> QED
      BY <1>4, <2>1, <2>2, <3>1 DEF BodiesAreCurrent
  <2> QED
    BY <2>3, <2>4
<1>9. FollowersAreServed'
  <2> SUFFICES ASSUME NEW s \in Requests, pc'[s] = "follow"
               PROVE  /\ key[leader[s]] = key[s]
                      /\ pc'[leader[s]] \in Leading \cup {"done"}
                      /\ pc'[leader[s]] = "done" =>
                           body'[leader[s]] = 0 \/ body'[leader[s]] >= floor[s]
    BY DEF FollowersAreServed
  <2>1. s # r /\ pc[s] = "follow" /\ leader[s] \in Requests
    BY <1>1
  <2>2. /\ key[leader[s]] = key[s]
        /\ pc[leader[s]] \in Leading \cup {"done"}
        /\ pc[leader[s]] = "done" =>
             body[leader[s]] = 0 \/ body[leader[s]] >= floor[s]
    BY <2>1 DEF FollowersAreServed
  <2>3. CASE leader[s] # r
    BY <1>1, <2>1, <2>2, <2>3
  <2>4. CASE leader[s] = r
    <3>1. b \in {0, fetched[key[r]]}
      BY <2>2, <2>4
    <3>2. floor[s] \in Nat /\ floor[s] <= given[key[r]]
      BY <2>1, <2>2, <2>4 DEF BodiesAreCurrent
    <3> QED
      BY <1>1, <1>2, <1>3, <2>2, <2>4, <3>1, <3>2
  <2> QED
    BY <2>3, <2>4
<1> QED
  BY <1>7, <1>8, <1>9

\* The four ways to return.
LEMMA ReturnAge ==
  ASSUME AgeInv, NEW r \in Requests,
         Lookup(r) \/ Follow(r) \/ Publish(r) \/ Fallback(r)
  PROVE  CachesAreCurrent' /\ BodiesAreCurrent' /\ FollowersAreServed'
<1> DEFINE Goal == CachesAreCurrent' /\ BodiesAreCurrent' /\ FollowersAreServed'
<1> USE DEF AgeInv, FlightInv, TypeOK, Leading
<1>1. UNCHANGED <<key, fresh, stale, fetched, floor, leader>>
  BY DEF Lookup, Follow, Publish, Fallback
<1>2. CASE Lookup(r)
  <2>1. CASE fresh[key[r]] # 0
    BY <1>1, <1>2, <2>1, DeliverAge DEF Lookup
  <2>2. CASE fresh[key[r]] = 0
    <3>1. pc[r] = "lookup" /\ pc' = [pc EXCEPT ![r] = "begin"]
          /\ UNCHANGED <<body, given>>
      BY <1>2, <2>2 DEF Lookup, Goto
    <3>2. CachesAreCurrent'
      BY <1>1, <3>1 DEF CachesAreCurrent, Storing, Mirroring
    <3>3. BodiesAreCurrent' /\ FollowersAreServed'
      BY <1>1, <3>1 DEF BodiesAreCurrent, FollowersAreServed
    <3> QED
      BY <3>2, <3>3
  <2> QED
    BY <2>1, <2>2
<1>3. CASE Follow(r)
  <2>1. /\ leader[r] \in Requests /\ key[leader[r]] = key[r]
        /\ pc[leader[r]] = "done"
    BY <1>3 DEF Follow, FollowersAreServed, MapIsHonest
  <2>2. body[leader[r]] <= given[key[r]]
    BY <2>1 DEF BodiesAreCurrent
  <2> QED
    BY <1>1, <1>3, <2>2, DeliverAge DEF Follow
<1>4. CASE Publish(r)
  <2>1. body[r] = fetched[key[r]]
    BY <1>4 DEF Publish, BodiesAreCurrent
  <2> QED
    BY <1>1, <1>4, <2>1, DeliverAge DEF Publish
<1>5. CASE Fallback(r)
  <2>1. pc[r] = "fallback"
    BY <1>5 DEF Fallback
  <2>2. ~Mirroring(key[r])
    BY <2>1 DEF Mirroring, MapIsHonest
  <2>3. stale[key[r]] \in {0, fetched[key[r]]}
    BY <2>2 DEF CachesAreCurrent
  <2>4. (IF AniList(r) THEN stale[key[r]] ELSE 0) \in Nat
    OBVIOUS
  <2> QED
    BY <1>1, <1>5, <2>1, <2>3, <2>4, DeliverAge DEF Fallback
<1> QED
  BY <1>2, <1>3, <1>4, <1>5

\* Steps that neither return nor touch an answer.
LEMMA QuietAge ==
  ASSUME AgeInv, NEW r \in Requests,
         pc[r] \notin {"store", "mirror", "done"},
         UNCHANGED <<key, body, fresh, stale, fetched, given, floor>>,
         NEW label \in Places \ {"store", "mirror", "recover", "publish",
                                 "follow", "done"},
         pc' = [pc EXCEPT ![r] = label],
         pc[r] \in Leading => label \in Leading,
         UNCHANGED leader
  PROVE  CachesAreCurrent' /\ BodiesAreCurrent' /\ FollowersAreServed'
<1> USE DEF AgeInv, FlightInv, TypeOK, Leading
<1>1. CachesAreCurrent'
  BY DEF CachesAreCurrent, Storing, Mirroring
<1>2. BodiesAreCurrent'
  BY DEF BodiesAreCurrent
<1>3. FollowersAreServed'
  BY DEF FollowersAreServed
<1> QED
  BY <1>1, <1>2, <1>3

\* An answer arrives and is stored.
LEMMA StoreAge ==
  ASSUME AgeInv, NEW r \in Requests,
         Succeed(r) \/ StoreFresh(r) \/ StoreStale(r) \/ Recover(r)
  PROVE  CachesAreCurrent' /\ BodiesAreCurrent' /\ FollowersAreServed'
<1> USE DEF AgeInv, FlightInv, TypeOK, Leading, Goto
<1>0. /\ pc[r] \in {"paced", "store", "mirror", "recover"}
      /\ UNCHANGED <<key, leader, given, floor>>
      /\ \E label \in {"store", "mirror", "recover", "publish"} :
           pc' = [pc EXCEPT ![r] = label]
      /\ \A s \in Requests : s # r => pc'[s] = pc[s] /\ body'[s] = body[s]
  BY DEF Succeed, Answered, StoreFresh, StoreStale, Recover
<1>1. \A s \in Requests : key[s] = key[r] /\ pc[s] \in Leading => s = r
  BY <1>0 DEF MapIsHonest
<1>2. FollowersAreServed'
  <2>1. \A s \in Requests : pc'[s] = "follow" => pc[s] = "follow" /\ leader[s] \in Requests
    BY <1>0
  <2>2. pc'[r] \in Leading
    BY <1>0
  <2>3. \A s \in Requests : s # r => pc'[s] = pc[s] /\ body'[s] = body[s]
    BY <1>0
  <2> QED
    BY <1>0, <2>1, <2>2, <2>3 DEF FollowersAreServed
<1>3. CASE Succeed(r)
  <2>1. /\ pc[r] = "paced" /\ pc' = [pc EXCEPT ![r] = "store"]
        /\ fetched' = [fetched EXCEPT ![key[r]] = fetched[key[r]] + 1]
        /\ body' = [body EXCEPT ![r] = fetched[key[r]] + 1]
        /\ UNCHANGED <<key, fresh, stale, given, floor>>
    BY <1>3 DEF Succeed, Answered
  <2>2. CachesAreCurrent'
    <3> SUFFICES ASSUME NEW k \in Keys
                 PROVE  /\ given[k] <= fetched'[k]
                        /\ fresh[k] <= fetched'[k]
                        /\ \/ fresh[k] \in {0, fetched'[k]}
                           \/ Storing(k)' /\ fresh[k] >= given[k]
                        /\ stale[k] \in {0, fetched'[k]} \/ Mirroring(k)'
      BY <2>1 DEF CachesAreCurrent
    <3>1. /\ given[k] <= fetched[k] /\ fresh[k] <= fetched[k]
          /\ \/ fresh[k] \in {0, fetched[k]}
             \/ Storing(k) /\ fresh[k] >= given[k]
          /\ stale[k] \in {0, fetched[k]} \/ Mirroring(k)
      BY DEF CachesAreCurrent
    <3>2. CASE k # key[r]
      <4>1. fetched'[k] = fetched[k]
        BY <2>1, <3>2
      <4>2. Storing(k)' = Storing(k) /\ Mirroring(k)' = Mirroring(k)
        BY <2>1, <3>2 DEF Storing, Mirroring
      <4> QED
        BY <3>1, <4>1, <4>2
    <3>3. CASE k = key[r]
      <4>1. fetched'[k] = fetched[k] + 1
        BY <2>1, <3>3
      <4>2. Storing(k)' /\ Mirroring(k)' /\ ~Storing(k)
        BY <1>1, <2>1, <3>3 DEF Storing, Mirroring
      <4> QED
        BY <3>1, <4>1, <4>2
    <3> QED
      BY <3>2, <3>3
  <2>3. BodiesAreCurrent'
    BY <1>1, <2>1 DEF BodiesAreCurrent
  <2> QED
    BY <1>2, <2>2, <2>3
<1>4. CASE StoreFresh(r)
  <2>1. /\ pc[r] = "store" /\ pc' = [pc EXCEPT ![r] = "mirror"]
        /\ \/ fresh' = [fresh EXCEPT ![key[r]] = body[r]]
           \/ fresh[key[r]] = 0 /\ fresh' = fresh
        /\ UNCHANGED <<key, body, stale, given, floor, fetched>>
    BY <1>4 DEF StoreFresh, SetBytes
  <2>2. body[r] = fetched[key[r]]
    BY <2>1 DEF BodiesAreCurrent
  <2>3. CachesAreCurrent'
    BY <2>1, <2>2 DEF CachesAreCurrent, Storing, Mirroring
  <2>4. BodiesAreCurrent'
    BY <2>1, <2>2 DEF BodiesAreCurrent
  <2> QED
    BY <1>2, <2>3, <2>4
<1>5. CASE StoreStale(r)
  <2>1. /\ pc[r] = "mirror"
        /\ pc' = [pc EXCEPT ![r] = IF AniList(r) THEN "recover" ELSE "publish"]
        /\ \/ stale' = [stale EXCEPT ![key[r]] = body[r]]
           \/ stale[key[r]] = 0 /\ stale' = stale
        /\ UNCHANGED <<key, body, fresh, given, floor, fetched>>
    BY <1>5 DEF StoreStale, SetBytes
  <2>2. body[r] = fetched[key[r]]
    BY <2>1 DEF BodiesAreCurrent
  <2>3. CachesAreCurrent'
    BY <2>1, <2>2 DEF CachesAreCurrent, Storing, Mirroring
  <2>4. BodiesAreCurrent'
    BY <2>1, <2>2 DEF BodiesAreCurrent
  <2> QED
    BY <1>2, <2>3, <2>4
<1>6. CASE Recover(r)
  <2>1. /\ pc[r] = "recover" /\ pc' = [pc EXCEPT ![r] = "publish"]
        /\ UNCHANGED <<key, body, fresh, stale, given, floor, fetched>>
    BY <1>6 DEF Recover
  <2>2. CachesAreCurrent'
    BY <2>1 DEF CachesAreCurrent, Storing, Mirroring
  <2>3. BodiesAreCurrent'
    BY <2>1 DEF BodiesAreCurrent
  <2> QED
    BY <1>2, <2>2, <2>3
<1> QED
  BY <1>3, <1>4, <1>5, <1>6

LEMMA NextAge == AgeInv /\ [Next]_vars => AgeInv'
<1> SUFFICES ASSUME AgeInv, [Next]_vars PROVE AgeInv'
  OBVIOUS
<1> DEFINE Goal == CachesAreCurrent' /\ BodiesAreCurrent' /\ FollowersAreServed'
<1> FlightInv'
  BY NextFlight DEF AgeInv
<1> SUFFICES Goal
  BY DEF AgeInv
<1>1. ASSUME NEW r \in Requests,
             Lookup(r) \/ Follow(r) \/ Publish(r) \/ Fallback(r)
      PROVE  Goal
  BY <1>1, ReturnAge
<1>2. ASSUME NEW r \in Requests,
             Succeed(r) \/ StoreFresh(r) \/ StoreStale(r) \/ Recover(r)
      PROVE  Goal
  BY <1>2, StoreAge
<1>3. ASSUME NEW r \in Requests,
             \/ Divert(r) \/ ReserveTurn(r) \/ Fail(r) \/ Limited(r)
             \/ Reject(r) \/ Settle(r)
      PROVE  Goal
  <2>1. /\ UNCHANGED <<key, leader, body, fresh, stale, fetched, given, floor>>
        /\ pc[r] \in {"idle", "turn", "paced", "settle"}
    BY <1>3 DEF Divert, ReserveTurn, Fail, Limited, Reject, Settle, Answered
  <2>2. \E label \in {"diverted", "paced", "turn", "settle", "fallback"} :
          /\ pc' = [pc EXCEPT ![r] = label]
          /\ pc[r] # "idle" => label # "diverted"
    BY <1>3 DEF Divert, ReserveTurn, Fail, Limited, Reject, Settle, Answered,
                Retry, Goto
  <2> QED
    BY <2>1, <2>2, QuietAge DEF Places, Leading
<1>4. ASSUME NEW r \in Requests, Call(r) PROVE Goal
  <2> USE DEF AgeInv, FlightInv, TypeOK
  <2>1. /\ pc[r] = "idle" /\ pc' = [pc EXCEPT ![r] = "lookup"]
        /\ floor' = [floor EXCEPT ![r] = given[key[r]]]
        /\ UNCHANGED <<key, leader, body, fresh, stale, fetched, given>>
    BY <1>4 DEF Call, Goto
  <2>2. CachesAreCurrent'
    BY <2>1 DEF CachesAreCurrent, Storing, Mirroring
  <2>3. BodiesAreCurrent'
    BY <2>1 DEF BodiesAreCurrent
  <2>4. FollowersAreServed'
    BY <2>1 DEF FollowersAreServed, Leading
  <2> QED
    BY <2>2, <2>3, <2>4
<1>5. ASSUME NEW r \in Requests, Begin(r) PROVE Goal
  <2> USE DEF AgeInv, FlightInv, TypeOK
  <2>1. /\ pc[r] = "begin"
        /\ UNCHANGED <<key, body, fresh, stale, fetched, given, floor>>
    BY <1>5 DEF Begin
  <2>2. CASE pc' = [pc EXCEPT ![r] = "turn"] /\ UNCHANGED leader
    BY <2>1, <2>2, QuietAge DEF Places, Leading
  <2>3. ASSUME NEW l \in inFlight, key[l] = key[r],
               leader' = [leader EXCEPT ![r] = l],
               pc' = [pc EXCEPT ![r] = "follow"]
        PROVE  Goal
    <3>1. l \in Requests /\ l # r /\ pc[l] \in Leading
      BY <2>1, <2>3 DEF MapIsHonest, Leading
    <3>2. CachesAreCurrent'
      BY <2>1, <2>3 DEF CachesAreCurrent, Storing, Mirroring
    <3>3. BodiesAreCurrent'
      BY <2>1, <2>3 DEF BodiesAreCurrent
    <3>4. FollowersAreServed'
      BY <2>1, <2>3, <3>1 DEF FollowersAreServed, Leading
    <3> QED
      BY <3>2, <3>3, <3>4
  <2> QED
    BY <1>5, <2>2, <2>3 DEF Begin, Goto
<1>6. ASSUME NEW k \in Keys, Forget(k) PROVE Goal
  <2> USE DEF AgeInv, FlightInv, TypeOK
  <2>1. /\ UNCHANGED <<key, leader, pc, body, fetched, given, floor>>
        /\ fresh' = fresh \/ fresh' = [fresh EXCEPT ![k] = 0]
        /\ stale' = stale \/ stale' = [stale EXCEPT ![k] = 0]
    BY <1>6 DEF Forget
  <2>2. CachesAreCurrent'
    BY <2>1 DEF CachesAreCurrent, Storing, Mirroring
  <2>3. BodiesAreCurrent' /\ FollowersAreServed'
    BY <2>1 DEF BodiesAreCurrent, FollowersAreServed
  <2> QED
    BY <2>2, <2>3
<1>7. CASE Tick \/ UNCHANGED vars
  <2>1. UNCHANGED <<key, leader, pc, body, fresh, stale, fetched, given, floor>>
    BY <1>7 DEF Tick, vars
  <2> QED
    BY <2>1 DEF AgeInv, CachesAreCurrent, BodiesAreCurrent, FollowersAreServed,
                Storing, Mirroring
<1> QED
  BY <1>1, <1>2, <1>3, <1>4, <1>5, <1>6, <1>7 DEF Next, Step

\* The invariant behind the refinement.
THEOREM AgeInvariant == Spec => []AgeInv
  BY InitAge, NextAge, PTL DEF Spec

\* A return of the gateway is a return of the register.
LEMMA DeliverReturns ==
  ASSUME AgeInv, NEW r \in Requests, NEW b, Deliver(r, b), Returnable(r, b),
         pc[r] \in {"lookup", "follow", "publish", "fallback"},
         UNCHANGED <<key, fetched, floor>>
  PROVE  Register!Return(r)
<1> USE DEF AgeInv, FlightInv, TypeOK
<1>1. /\ pc' = [pc EXCEPT ![r] = "done"]
      /\ body' = [body EXCEPT ![r] = b]
      /\ given' = [given EXCEPT ![key[r]] = Latest(@, b)]
  BY DEF Deliver, Goto
<1>2. phaseOf[r] = "busy" /\ phaseOf' = [phaseOf EXCEPT ![r] = "done"]
  BY <1>1 DEF phaseOf
<1>3. resultOf' = [resultOf EXCEPT ![r] = b]
  BY <1>1 DEF resultOf
<1>4. given' = [given EXCEPT ![key[r]] = IF b > @ THEN b ELSE @]
  <2>1. /\ key[r] \in Keys /\ given[key[r]] \in Nat /\ b \in Nat
    BY DEF Returnable
  <2>2. Latest(given[key[r]], b) = IF b > given[key[r]] THEN b ELSE given[key[r]]
    BY <2>1 DEF Latest
  <2> QED
    BY <1>1, <2>2
<1>5. b \in 0..fetched[key[r]] /\ (b = 0 \/ b >= floor[r])
  BY DEF Returnable
<1> QED
  BY <1>2, <1>3, <1>4, <1>5 DEF Register!Return

\* The gateway's callers see a read-through register: shared answers, the two
\* caches and the fallback never hand out a body that was not fetched, or one
\* older than some caller had been given when this call was made.
THEOREM ImplementsRegister == Spec => ReadThroughSpec
<1>1. Init => Register!Init
  BY DEF Init, Register!Init, phaseOf, resultOf
<1>2. AgeInv /\ [Next]_vars => [Register!Next]_(Register!vars)
  <2> SUFFICES ASSUME AgeInv, [Next]_vars
               PROVE  Register!Next \/ UNCHANGED Register!vars
    OBVIOUS
  <2> USE DEF AgeInv, FlightInv, TypeOK
  <2>1. ASSUME NEW r \in Requests, Call(r) PROVE Register!Call(r)
    <3>1. /\ pc[r] = "idle" /\ pc' = [pc EXCEPT ![r] = "lookup"]
          /\ floor' = [floor EXCEPT ![r] = given[key[r]]]
          /\ UNCHANGED <<key, body, fetched, given>>
      BY <2>1 DEF Call, Goto
    <3>2. /\ phaseOf[r] = "idle"
          /\ phaseOf' = [phaseOf EXCEPT ![r] = "busy"]
          /\ resultOf' = resultOf
      BY <3>1 DEF phaseOf, resultOf
    <3> QED
      BY <3>1, <3>2 DEF Register!Call
  <2>2. ASSUME NEW r \in Requests, Succeed(r) PROVE Register!Fetch(key[r])
    <3>1. /\ pc[r] = "paced" /\ pc' = [pc EXCEPT ![r] = "store"]
          /\ fetched' = [fetched EXCEPT ![key[r]] = @ + 1]
          /\ \A s \in Requests : s # r => body'[s] = body[s]
          /\ UNCHANGED <<key, given, floor>>
      BY <2>2 DEF Succeed, Answered, Goto
    <3>2. phaseOf' = phaseOf /\ resultOf' = resultOf
      BY <3>1 DEF phaseOf, resultOf
    <3> QED
      BY <3>1, <3>2 DEF Register!Fetch
  <2>3. ASSUME NEW r \in Requests, Lookup(r), fresh[key[r]] # 0
        PROVE  Register!Return(r)
    BY <2>3, ReturnedIsCurrent, DeliverReturns DEF Lookup
  <2>4. ASSUME NEW r \in Requests, Follow(r) PROVE Register!Return(r)
    BY <2>4, ReturnedIsCurrent, DeliverReturns DEF Follow
  <2>5. ASSUME NEW r \in Requests, Publish(r) PROVE Register!Return(r)
    BY <2>5, ReturnedIsCurrent, DeliverReturns DEF Publish
  <2>6. ASSUME NEW r \in Requests, Fallback(r) PROVE Register!Return(r)
    <3>1. Returnable(r, IF AniList(r) THEN stale[key[r]] ELSE 0)
      BY <2>6, ReturnedIsCurrent DEF Fallback, Returnable
    <3> QED
      BY <2>6, <3>1, DeliverReturns DEF Fallback
  <2>7. ASSUME NEW r \in Requests,
               \/ Lookup(r) /\ fresh[key[r]] = 0
               \/ Divert(r) \/ Begin(r) \/ ReserveTurn(r) \/ Fail(r)
               \/ Limited(r) \/ Reject(r) \/ StoreFresh(r) \/ StoreStale(r)
               \/ Recover(r) \/ Settle(r)
        PROVE  UNCHANGED Register!vars
    <3>1. UNCHANGED <<key, body, fetched, given, floor>>
      BY <2>7 DEF Lookup, Divert, Begin, ReserveTurn, Fail, Limited, Reject,
                  StoreFresh, StoreStale, Recover, Settle
    <3>2. \/ /\ pc[r] = "idle"
             /\ pc' = [pc EXCEPT ![r] = "diverted"]
          \/ /\ pc[r] \notin {"idle", "diverted", "done"}
             /\ \E label \in Places \ {"idle", "diverted", "done"} :
                  pc' = [pc EXCEPT ![r] = label]
      BY <2>7 DEF Lookup, Divert, Begin, ReserveTurn, Fail, Limited, Reject,
                  StoreFresh, StoreStale, Recover, Settle, Answered, Retry,
                  Goto, Places, Leading
    <3>3. phaseOf' = phaseOf /\ resultOf' = resultOf
      BY <3>1, <3>2 DEF phaseOf, resultOf
    <3> QED
      BY <3>1, <3>3 DEF Register!vars
  <2>8. CASE Tick \/ UNCHANGED vars \/ \E k \in Keys : Forget(k)
    <3>1. UNCHANGED <<key, pc, body, fetched, given, floor>>
      BY <2>8 DEF Tick, Forget, vars
    <3> QED
      BY <3>1 DEF Register!vars, phaseOf, resultOf
  <2>9. \A r \in Requests : key[r] \in Keys
    OBVIOUS
  <2> QED
    BY <2>1, <2>2, <2>3, <2>4, <2>5, <2>6, <2>7, <2>8, <2>9
    DEF Next, Step, Register!Next
<1> QED
  BY <1>1, <1>2, AgeInvariant, PTL DEF Spec, ReadThroughSpec, Register!Spec
=============================================================================
