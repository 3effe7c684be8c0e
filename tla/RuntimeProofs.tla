--------------------------- MODULE RuntimeProofs ---------------------------
(***************************************************************************)
(* What the runtime state of the application is trusted for, for any kinds *)
(* of key, callers, manga, sources and bounds: results that are worth      *)
(* keeping survive, what was verified or read stays so, and nothing better *)
(* than the stream that is opened was passed over.                         *)
(***************************************************************************)
EXTENDS Runtime, Naturals, Sequences, FiniteSetTheorems, TLAPS

----------------------------------------------------------------------------
(* Snapshots: a key of the cache. *)
USE DEF SN!At, SN!Become, SN!Goto, SN!held, SN!call, SN!Write, SN!Fallback, SN!OnMiss

Values == {"full", "empty", "error", Nothing}
Copies == {"fresh", "stale"} \cup (IF kind \in SN!Persistent THEN {"saved"} ELSE {})
KeyPlaces == {"idle", "fresh", "again", "stale", "saved", "load", "miss", "fallback",
    "write"}
KeyJob == [pc : KeyPlaces, value : Values, writes : Seq(Copies)]

KeyTyped ==
  /\ kind \in Kinds
  /\ store \in [{"fresh", "stale", "saved"} -> {"full", "empty", Nothing}]
  /\ window \in {"fresh", "stale", Nothing}
  /\ window # Nothing => kind \in SN!Persistent /\ store["saved"] # Nothing
  /\ keyJob \in [SN!Jobs -> KeyJob]
  /\ answer \in [Callers -> Values]
  /\ keyCalls \in 0 .. MaxKeyCalls
  /\ kept \in [Callers -> BOOLEAN]

\* A value worth keeping.
Worthy(v) == SN!Verified(v) /\ v # "error"

\* Whatever is still to be written is worth keeping.
WritesAreGood ==
  \A j \in SN!Jobs : keyJob[j].pc = "write" /\ keyJob[j].writes # <<>>
      => Worthy(keyJob[j].value)

\* Where results are told from misses, no blank is kept beside them.
CopiesAreGood ==
  kind \in SN!Misses => /\ store["stale"] # "empty"
                        /\ store["saved"] # "empty"

\* A copy to fall back on is there; the call that has it answers with it or
\* with something as good; and where there is no way round an error it does
\* not get as far as the request.
KeptIsServed ==
  \A c \in Callers : kept[c] =>
    /\ Worthy(store["stale"])
    /\ answer[c] # Nothing => Worthy(answer[c])
    /\ keyJob[c].pc = "write" => Worthy(keyJob[c].value)
    /\ kind = "detail" => keyJob[c].pc \in {"idle", "fresh", "stale", "write"}

KeyInv == KeyTyped /\ WritesAreGood /\ CopiesAreGood /\ KeptIsServed

\* One job changes, into one of the right shape.
LEMMA KeyJobChanged ==
  ASSUME KeyTyped, NEW j \in SN!Jobs, NEW n, keyJob' = [keyJob EXCEPT ![j] = n]
  PROVE  keyJob'[j] = n /\ \A i \in SN!Jobs : i # j => keyJob'[i] = keyJob[i]
  BY DEF KeyTyped

LEMMA SavingType ==
  /\ SN!Saving \in Seq(Copies)
  /\ <<>> \in Seq(Copies)
  /\ <<"stale">> \in Seq(Copies)
  /\ <<"stale", "fresh">> \in Seq(Copies)
  /\ <<"fresh", "stale">> \o SN!Saving \in Seq(Copies)
<1>1. SN!Saving \in Seq(Copies)
  <2>1. CASE kind \in SN!Persistent
    BY <2>1 DEF SN!Saving, Copies
  <2>2. CASE kind \notin SN!Persistent
    BY <2>2 DEF SN!Saving, Copies
  <2> QED
    BY <2>1, <2>2
<1>2. <<"fresh", "stale">> \in Seq(Copies) /\ <<"stale", "fresh">> \in Seq(Copies)
  BY DEF Copies
<1>3. <<>> \in Seq(Copies) /\ <<"stale">> \in Seq(Copies)
  BY DEF Copies
<1> QED
  BY <1>1, <1>2, <1>3

LEMMA InitKey == ASSUME SN!SnapshotsAssumption, SN!Init PROVE KeyInv
<1>1. SN!Idle \in KeyJob
  BY DEF SN!Idle, KeyJob, KeyPlaces, Values
<1>2. KeyTyped
  BY <1>1 DEF SN!Init, KeyTyped, Values, SN!SnapshotsAssumption
<1>3. SN!Idle.pc = "idle" /\ SN!Idle.writes = <<>>
  BY DEF SN!Idle
<1> QED
  BY <1>2, <1>3 DEF SN!Init, KeyInv, WritesAreGood, CopiesAreGood, KeptIsServed, SN!Jobs,
                   SN!SnapshotsAssumption

\* A step of one job that leaves the copies alone.
LEMMA KeyReads ==
  ASSUME KeyInv, NEW j \in SN!Jobs, NEW n \in KeyJob,
         keyJob' = [keyJob EXCEPT ![j] = n],
             UNCHANGED <<kind, store, window, answer, keyCalls, kept>>,
         n.pc = "write" /\ n.writes # <<>> => Worthy(n.value),
         j \in Callers /\ kept[j] =>
           /\ n.pc = "write" => Worthy(n.value)
           /\ kind = "detail" => n.pc \in {"idle", "fresh", "stale", "write"}
  PROVE  KeyInv'
<1>1. keyJob'[j] = n /\ \A i \in SN!Jobs : i # j => keyJob'[i] = keyJob[i]
  BY KeyJobChanged DEF KeyInv
<1>2. KeyTyped'
  BY DEF KeyInv, KeyTyped, KeyJob, Copies
<1>3. \A v : Worthy(v)' <=> Worthy(v)
  BY DEF Worthy, SN!Verified
<1>4. WritesAreGood' /\ CopiesAreGood'
  BY <1>1, <1>3 DEF KeyInv, WritesAreGood, CopiesAreGood
<1>5. KeptIsServed'
  BY <1>1, <1>3 DEF KeyInv, KeptIsServed, SN!Jobs
<1> QED
  BY <1>2, <1>4, <1>5 DEF KeyInv

LEMMA BeginKeeps == ASSUME SN!SnapshotsAssumption, KeyInv, NEW c \in Callers, SN!Begin(c)
  PROVE KeyInv'
<1> DEFINE n == [keyJob[c] EXCEPT !.pc = "fresh"]
<1>1. c \in SN!Jobs /\ keyJob[c] \in KeyJob
  BY DEF KeyInv, KeyTyped, SN!Jobs
<1>2. n \in KeyJob /\ n.pc = "fresh"
  BY <1>1 DEF KeyJob, KeyPlaces
<1>3. keyJob' = [keyJob EXCEPT ![c] = n] /\ UNCHANGED <<kind, store, window>>
  BY DEF SN!Begin
<1> HIDE DEF n
<1>4. keyJob'[c] = n /\ \A i \in SN!Jobs : i # c => keyJob'[i] = keyJob[i]
  BY <1>1, <1>3, KeyJobChanged DEF KeyInv
<1>5. \A v : (Worthy(v)' <=> Worthy(v)) /\ (SN!Verified(v)' <=> SN!Verified(v))
  BY <1>3 DEF Worthy, SN!Verified
<1>6. KeyTyped'
  <2>1. keyJob' \in [SN!Jobs -> KeyJob]'
    BY <1>2, <1>3 DEF KeyInv, KeyTyped, KeyJob, Copies
  <2>2. SN!Verified(store["stale"]) \in BOOLEAN
    BY DEF SN!Verified
  <2>3. keyCalls' \in 0 .. MaxKeyCalls
    BY DEF SN!Begin, KeyInv, KeyTyped, SN!SnapshotsAssumption
  <2>4. answer' \in [Callers -> Values] /\ kept' \in [Callers -> BOOLEAN]
    BY <2>2 DEF SN!Begin, KeyInv, KeyTyped, Values
  <2> QED
    BY <1>3, <2>1, <2>3, <2>4 DEF KeyInv, KeyTyped
<1>7. WritesAreGood' /\ CopiesAreGood'
  BY <1>2, <1>3, <1>4, <1>5 DEF KeyInv, WritesAreGood, CopiesAreGood
<1>8. KeptIsServed'
  <2> SUFFICES ASSUME NEW d \in Callers, kept'[d]
               PROVE  /\ Worthy(store'["stale"])
                      /\ answer'[d] # Nothing => Worthy(answer'[d])
                      /\ keyJob'[d].pc = "write" => Worthy(keyJob'[d].value)
                      /\ kind' = "detail"
                           => keyJob'[d].pc \in {"idle", "fresh", "stale", "write"}
    BY <1>5 DEF KeptIsServed
  <2>1. CASE d = c
    <3>1. SN!Verified(store["stale"]) /\ answer'[c] = Nothing
      BY <2>1 DEF SN!Begin, KeyInv, KeyTyped
    <3>2. store["stale"] # "error"
      BY DEF KeyInv, KeyTyped, SN!SnapshotsAssumption
    <3> QED
      BY <1>2, <1>3, <1>4, <2>1, <3>1, <3>2 DEF Worthy
  <2>2. CASE d # c
    <3>1. kept[d] /\ answer'[d] = answer[d] /\ keyJob'[d] = keyJob[d]
      BY <1>4, <2>2 DEF SN!Begin, KeyInv, KeyTyped, SN!Jobs
    <3> QED
      BY <1>3, <3>1 DEF KeyInv, KeptIsServed
  <2> QED
    BY <2>1, <2>2
<1> QED
  BY <1>6, <1>7, <1>8 DEF KeyInv

LEMMA ReadFreshKeeps ==
  ASSUME SN!SnapshotsAssumption, KeyInv, NEW j \in SN!Jobs, SN!ReadFresh(j) PROVE KeyInv'
<1> DEFINE v  == store["fresh"]
           ws == IF SN!At(j, "again") THEN SN!Saving ELSE <<>>
<1>1. ws \in Seq(Copies) /\ v \in {"full", "empty", Nothing} /\ keyJob[j] \in KeyJob
  BY SavingType DEF KeyInv, KeyTyped
<1>2. UNCHANGED <<kind, store, window, answer, keyCalls, kept>>
  BY DEF SN!ReadFresh
<1>3. CASE SN!Verified(v) /\ keyJob' = [keyJob EXCEPT ![j] = SN!Write(v, ws)]
  <2>1. SN!Write(v, ws) \in KeyJob /\ Worthy(v)
    BY <1>1, <1>3 DEF KeyJob, KeyPlaces, Values, Worthy, SN!SnapshotsAssumption
  <2> HIDE DEF v, ws
  <2>2. SN!Write(v, ws).value = v /\ SN!Write(v, ws).pc = "write"
    OBVIOUS
  <2> HIDE DEF SN!Write
  <2> QED
    BY <1>2, <1>3, <2>1, <2>2, KeyReads
<1>4. CASE kind \in {"chapters",
             "search"} /\ keyJob' = [keyJob EXCEPT ![j] = SN!Fallback("empty", ws)]
  <2>1. SN!Fallback("empty", ws) \in KeyJob
    BY <1>1 DEF KeyJob, KeyPlaces, Values
  <2> HIDE DEF v, ws
  <2>2. SN!Fallback("empty", ws).pc = "fallback"
    OBVIOUS
  <2> HIDE DEF SN!Fallback
  <2>3. kind # "detail"
    BY <1>4
  <2> QED
    BY <1>2, <1>4, <2>1, <2>2, <2>3, KeyReads
<1>5. ASSUME NEW pc \in {"load", "stale", "saved"},
               keyJob' = [keyJob EXCEPT ![j] = [keyJob[j] EXCEPT !.pc = pc]],
             kind = "detail" => (SN!At(j, "again") \/ pc = "stale")
      PROVE  KeyInv'
  <2> DEFINE n == [keyJob[j] EXCEPT !.pc = pc]
  <2>1. n \in KeyJob /\ n.pc = pc
    BY <1>1 DEF KeyJob, KeyPlaces
  <2>2. j \in Callers /\ kept[j] /\ kind = "detail" => pc = "stale"
    BY <1>5 DEF KeyInv, KeptIsServed
  <2>3. keyJob' = [keyJob EXCEPT ![j] = n]
    BY <1>5
  <2> HIDE DEF n
  <2>4. n.pc \in {"load", "stale", "saved"}
    BY <2>1
  <2> QED
    BY <1>2, <2>1, <2>2, <2>3, <2>4, KeyReads
<1>6. \/ SN!Verified(v) /\ keyJob' = [keyJob EXCEPT ![j] = SN!Write(v, ws)]
      \/ kind \in {"chapters",
           "search"} /\ keyJob' = [keyJob EXCEPT ![j] = SN!Fallback("empty", ws)]
      \/ \E pc \in {"load", "stale", "saved"} :
           /\ keyJob' = [keyJob EXCEPT ![j] = [keyJob[j] EXCEPT !.pc = pc]]
           /\ kind = "detail" => (SN!At(j, "again") \/ pc = "stale")
  <2> HIDE DEF SN!Write, SN!Fallback
  <2> QED
    BY DEF SN!ReadFresh, SN!Persistent
<1> QED
  BY <1>3, <1>4, <1>5, <1>6

LEMMA ReadStaleKeeps ==
  ASSUME SN!SnapshotsAssumption, KeyInv, NEW j \in SN!Jobs, SN!ReadStale(j) PROVE KeyInv'
<1> DEFINE v == store["stale"]
<1>1. v \in {"full", "empty", Nothing} /\ keyJob[j] \in KeyJob
  BY DEF KeyInv, KeyTyped
<1>2. UNCHANGED <<kind, store, window, answer, keyCalls, kept>>
  BY DEF SN!ReadStale
<1>3. CASE SN!Verified(v)
  <2> DEFINE n == SN!Write(v, <<>>)
  <2>1. n \in KeyJob /\ Worthy(v) /\ n.value = v
    BY <1>1, <1>3, SavingType DEF KeyJob, KeyPlaces, Values, Worthy, SN!SnapshotsAssumption
  <2>2. keyJob' = [keyJob EXCEPT ![j] = n] /\ n.pc = "write"
    BY <1>3 DEF SN!ReadStale
  <2> HIDE DEF n, v
  <2> QED
    BY <1>2, <2>1, <2>2, KeyReads
<1>4. CASE ~SN!Verified(v)
  <2> DEFINE n == [keyJob[j] EXCEPT !.pc = "saved"]
  <2>1. n \in KeyJob /\ n.pc = "saved"
    BY <1>1 DEF KeyJob, KeyPlaces
  <2>2. keyJob' = [keyJob EXCEPT ![j] = n]
    BY <1>4 DEF SN!ReadStale
  <2>3. ~(j \in Callers /\ kept[j])
    BY <1>4 DEF KeyInv, KeptIsServed, Worthy
  <2> HIDE DEF n, v
  <2> QED
    BY <1>2, <2>1, <2>2, <2>3, KeyReads
<1> QED
  BY <1>3, <1>4

LEMMA LoadKeeps ==
  ASSUME SN!SnapshotsAssumption, KeyInv, NEW j \in SN!Jobs, SN!Load(j) PROVE KeyInv'
<1>1. UNCHANGED <<kind, store, window, answer, keyCalls, kept>> /\ keyJob[j].pc = "load"
  BY DEF SN!Load
<1>2. ~(j \in Callers /\ kept[j] /\ kind = "detail")
  BY <1>1 DEF KeyInv, KeptIsServed
<1>3. ASSUME NEW n \in KeyJob, keyJob' = [keyJob EXCEPT ![j] = n],
             n.pc = "write" /\ n.writes # <<>> => Worthy(n.value),
             n.pc = "write" => Worthy(n.value) \/ kind = "detail" \/ j \notin Callers
      PROVE  KeyInv'
  BY <1>1, <1>2, <1>3, KeyReads
<1>4. ASSUME NEW v \in {"full", "empty"}, keyJob' = [keyJob EXCEPT ![j] = SN!Loaded(v)]
  PROVE KeyInv'
  <2>1. CASE SN!Verified(v)
    <3> DEFINE n == SN!Write(v, <<"fresh", "stale">> \o SN!Saving)
    <3>1. n \in KeyJob /\ n.value = v
      BY SavingType DEF KeyJob, KeyPlaces, Values
    <3>2. keyJob' = [keyJob EXCEPT ![j] = n] /\ Worthy(v)
      BY <1>4, <2>1 DEF SN!Loaded, Worthy
    <3> HIDE DEF n
    <3> QED
      BY <1>3, <3>1, <3>2
  <2>2. CASE ~SN!Verified(v) /\ kind = "detail"
    <3> DEFINE n == SN!Write(v, <<>>)
    <3>1. n \in KeyJob /\ n.writes = <<>>
      BY SavingType DEF KeyJob, KeyPlaces, Values
    <3>2. keyJob' = [keyJob EXCEPT ![j] = n]
      BY <1>4, <2>2 DEF SN!Loaded
    <3> HIDE DEF n
    <3> QED
      BY <1>3, <2>2, <3>1, <3>2
  <2>3. CASE ~SN!Verified(v) /\ kind # "detail"
    <3> DEFINE n == [pc |-> "miss", value |-> v, writes |-> <<>>]
    <3>1. n \in KeyJob /\ n.pc = "miss"
      BY SavingType DEF KeyJob, KeyPlaces, Values
    <3>2. keyJob' = [keyJob EXCEPT ![j] = n]
      BY <1>4, <2>3 DEF SN!Loaded
    <3> HIDE DEF n
    <3> QED
      BY <1>3, <3>1, <3>2
  <2> QED
    BY <2>1, <2>2, <2>3
<1>5. CASE keyJob' = [keyJob EXCEPT ![j] = SN!Write("error", <<>>)]
           /\ (kind = "detail" \/ j \in Refreshers)
  <2> DEFINE n == SN!Write("error", <<>>)
  <2>1. n \in KeyJob /\ n.writes = <<>>
    BY SavingType DEF KeyJob, KeyPlaces, Values
  <2>2. keyJob' = [keyJob EXCEPT ![j] = n]
    BY <1>5
  <2>3. kind = "detail" \/ j \notin Callers
    BY <1>5 DEF SN!SnapshotsAssumption
  <2> HIDE DEF n
  <2> QED
    BY <1>3, <2>1, <2>2, <2>3
<1>6. CASE keyJob' = [keyJob EXCEPT ![j] = SN!Fallback("error", SN!Saving)]
  <2> DEFINE n == SN!Fallback("error", SN!Saving)
  <2>1. n \in KeyJob /\ n.pc = "fallback"
    BY SavingType DEF KeyJob, KeyPlaces, Values
  <2>2. keyJob' = [keyJob EXCEPT ![j] = n]
    BY <1>6
  <2> HIDE DEF n
  <2> QED
    BY <1>3, <2>1, <2>2
<1> HIDE DEF SN!Write, SN!Fallback
<1> QED
  BY <1>4, <1>5, <1>6 DEF SN!Load

LEMMA FallBackKeeps ==
  ASSUME SN!SnapshotsAssumption, KeyInv, NEW j \in SN!Jobs, SN!FallBack(j) PROVE KeyInv'
<1> DEFINE v == store["stale"]
<1>1. v \in {"full", "empty", Nothing} /\ keyJob[j] \in KeyJob
  BY DEF KeyInv, KeyTyped
<1>2. UNCHANGED <<kind, store, window, answer, keyCalls, kept>>
  BY DEF SN!FallBack
<1>3. CASE SN!Verified(v)
  <2> DEFINE n == SN!Write(v, keyJob[j].writes)
  <2>1. n \in KeyJob /\ Worthy(v) /\ n.value = v
    BY <1>1, <1>3 DEF KeyJob, KeyPlaces, Values, Worthy, SN!SnapshotsAssumption
  <2>2. keyJob' = [keyJob EXCEPT ![j] = n] /\ n.pc = "write"
    BY <1>3 DEF SN!FallBack
  <2> HIDE DEF n, v
  <2> QED
    BY <1>2, <2>1, <2>2, KeyReads
<1>4. CASE ~SN!Verified(v)
  <2> DEFINE n == SN!Write(keyJob[j].value, <<>>)
  <2>1. n \in KeyJob /\ n.pc = "write" /\ n.writes = <<>>
    BY <1>1, SavingType DEF KeyJob, KeyPlaces
  <2>2. keyJob' = [keyJob EXCEPT ![j] = n]
    BY <1>4 DEF SN!FallBack
  <2>3. ~(j \in Callers /\ kept[j])
    BY <1>4 DEF KeyInv, KeptIsServed, Worthy
  <2> HIDE DEF n, v
  <2> QED
    BY <1>2, <2>1, <2>2, <2>3, KeyReads
<1> QED
  BY <1>3, <1>4

LEMMA ReturnKeeps ==
  ASSUME SN!SnapshotsAssumption, KeyInv, NEW j \in SN!Jobs, SN!Return(j) PROVE KeyInv'
<1>1. SN!Idle \in KeyJob /\ SN!Idle.pc = "idle"
  BY SavingType DEF SN!Idle, KeyJob, KeyPlaces, Values
<1>2. keyJob[j].pc = "write" /\ UNCHANGED <<kind, store, window, keyCalls, kept>>
  BY DEF SN!Return
<1>3. keyJob' = [keyJob EXCEPT ![j] = SN!Idle] /\ keyJob[j] \in KeyJob
  BY DEF SN!Return, KeyInv, KeyTyped
<1>4. keyJob'[j] = SN!Idle /\ \A i \in SN!Jobs : i # j => keyJob'[i] = keyJob[i]
  BY <1>3, KeyJobChanged DEF KeyInv
<1>5. \A c \in Callers : answer'[c] = answer[c] \/ (c = j /\ answer'[c] = keyJob[j].value)
  BY DEF SN!Return, KeyInv, KeyTyped
<1>6. KeyTyped'
  <2>1. keyJob' \in [SN!Jobs -> KeyJob]'
    BY <1>1, <1>2, <1>3 DEF KeyInv, KeyTyped, KeyJob, Copies
  <2>2. keyJob[j].value \in Values
    BY <1>3 DEF KeyJob, KeyPlaces
  <2>3. answer' \in [Callers -> Values]
    BY <2>2 DEF SN!Return, KeyInv, KeyTyped
  <2> QED
    BY <1>2, <2>1, <2>3 DEF KeyInv, KeyTyped
<1>7. \A v : Worthy(v)' <=> Worthy(v)
  BY <1>2 DEF Worthy, SN!Verified
<1>8. WritesAreGood' /\ CopiesAreGood'
  BY <1>1, <1>2, <1>4, <1>7 DEF KeyInv, WritesAreGood, CopiesAreGood
<1>9. KeptIsServed'
  BY <1>1, <1>2, <1>4, <1>5, <1>7 DEF KeyInv, KeptIsServed, SN!Jobs
<1> QED
  BY <1>6, <1>8, <1>9 DEF KeyInv

\* A snapshot that is past its fresh window is refreshed by another job.
LEMMA ReadSavedKeeps ==
  ASSUME SN!SnapshotsAssumption, KeyInv, NEW j \in SN!Jobs, SN!ReadSaved(j) PROVE KeyInv'
<1> DEFINE v == store["saved"]
           hit == window # Nothing /\ SN!Verified(v)
<1>1. v \in {"full", "empty", Nothing} /\ keyJob[j] \in KeyJob /\ keyJob[j].pc = "saved"
  BY DEF KeyInv, KeyTyped, SN!ReadSaved
<1>2. UNCHANGED <<kind, store, window, answer, keyCalls, kept>>
  BY DEF SN!ReadSaved
<1>3. CASE ~hit
  <2> DEFINE n == [keyJob[j] EXCEPT !.pc = IF kind = "detail" THEN "load" ELSE "again"]
  <2>1. n \in KeyJob /\ n.pc \in {"load", "again"}
    BY <1>1 DEF KeyJob, KeyPlaces
  <2>2. keyJob' = [keyJob EXCEPT ![j] = n]
    BY <1>3 DEF SN!ReadSaved
  <2>3. ~(j \in Callers /\ kept[j] /\ kind = "detail")
    BY <1>1 DEF KeyInv, KeptIsServed
  <2> HIDE DEF n
  <2> QED
    BY <1>2, <2>1, <2>2, <2>3, KeyReads
<1>4. ASSUME hit, NEW ws \in {<<"stale", "fresh">>, <<"stale">>}
      PROVE  LET n == SN!Write(v,
               ws) IN n \in KeyJob /\ n.pc = "write" /\ n.value = v /\ Worthy(v)
  BY <1>1, <1>4, SavingType DEF KeyJob, KeyPlaces, Values, Worthy, SN!SnapshotsAssumption
<1>5. CASE hit /\ keyJob' = [keyJob EXCEPT ![j] = SN!Write(v, <<"stale", "fresh">>)]
  <2> DEFINE n == SN!Write(v, <<"stale", "fresh">>)
  <2>1. n \in KeyJob /\ n.pc = "write" /\ n.value = v /\ Worthy(v)
    BY <1>4, <1>5
  <2> HIDE DEF n, v
  <2> QED
    BY <1>2, <1>5, <2>1, KeyReads DEF n
<1>6. ASSUME hit, NEW r \in Refreshers, SN!At(r, "idle"), NEW pc \in {"again", "load"},
             keyJob' = [keyJob EXCEPT ![j] = SN!Write(v, <<"stale">>), ![r].pc = pc]
      PROVE  KeyInv'
  <2> DEFINE n == SN!Write(v, <<"stale">>)
             m == [keyJob[r] EXCEPT !.pc = pc]
             between == [keyJob EXCEPT ![j] = n]
  <2>1. n \in KeyJob /\ n.pc = "write" /\ n.value = v /\ Worthy(v)
    BY <1>4, <1>6
  <2>2. r \in SN!Jobs /\ r # j /\ r \notin Callers
    BY <1>1, <1>6 DEF SN!Jobs, SN!SnapshotsAssumption
  <2>3. m \in KeyJob /\ m.pc \in {"again", "load"}
    BY <1>6, <2>2 DEF KeyInv, KeyTyped, KeyJob, KeyPlaces
  <2>4. keyJob' = [between EXCEPT ![r] = m]
    BY <1>6, <2>2 DEF KeyInv, KeyTyped
  <2> HIDE DEF n, m, v
  <2>5. /\ keyJob' \in [SN!Jobs -> KeyJob]
        /\ keyJob'[j] = n /\ keyJob'[r] = m
        /\ \A i \in SN!Jobs : i \notin {j, r} => keyJob'[i] = keyJob[i]
    BY <2>1, <2>2, <2>3, <2>4 DEF KeyInv, KeyTyped
  <2>6. KeyTyped'
    BY <1>2, <2>5 DEF KeyInv, KeyTyped, KeyJob, Copies
  <2>7. \A x : Worthy(x)' <=> Worthy(x)
    BY <1>2 DEF Worthy, SN!Verified
  <2>8. WritesAreGood' /\ CopiesAreGood'
    BY <1>2, <2>1, <2>3, <2>5, <2>7 DEF KeyInv, WritesAreGood, CopiesAreGood
  <2>9. KeptIsServed'
    BY <1>2, <2>1, <2>2, <2>5, <2>7 DEF KeyInv, KeptIsServed, SN!Jobs
  <2> QED
    BY <2>6, <2>8, <2>9 DEF KeyInv
<1> HIDE DEF SN!Write
<1> QED
  BY <1>3, <1>5, <1>6 DEF SN!ReadSaved

\* One copy is written, or dropped where none was.
LEMMA Written ==
  ASSUME SN!SnapshotsAssumption, KeyInv, NEW j \in SN!Jobs, NEW n, NEW s \in Copies, NEW v,
         keyJob' = [keyJob EXCEPT ![j] = n], n \in KeyJob,
         SN!Keeps(s, v), (Worthy(v) /\ v \in Values) \/ (s = "fresh" /\ v = "empty"),
         window' = IF s = "saved" THEN "fresh" ELSE window,
         UNCHANGED <<kind, answer, keyCalls, kept>>,
         n.pc = "write"
             => Worthy(n.value) /\ n.value = keyJob[j].value /\ keyJob[j].pc = "write",
         kind = "detail" /\ n.pc # "write" => j \notin Callers \/ ~kept[j]
  PROVE  KeyInv'
<1>1. \A i \in SN!Jobs : i # j => keyJob'[i] = keyJob[i]
  BY KeyJobChanged DEF KeyInv
<1>2. \A x : (Worthy(x)' <=> Worthy(x)) /\ (SN!Verified(x)' <=> SN!Verified(x))
  BY DEF Worthy, SN!Verified
<1>3. v \in {"full", "empty"}
  BY DEF Worthy, SN!Verified, Values
<1>4. /\ store' \in [{"fresh", "stale", "saved"} -> {"full", "empty", Nothing}]
      /\ \A t \in {"fresh", "stale",
           "saved"} : store'[t] = store[t] \/ (t = s /\ store'[t] = v)
      /\ s = "saved" => store'["saved"] = v
  BY <1>3 DEF SN!Keeps, KeyInv, KeyTyped, Copies
<1>5. s = "saved" => kind \in SN!Persistent
  BY DEF Copies
<1>6. v # Nothing
  BY <1>3 DEF SN!SnapshotsAssumption
<1>7. KeyTyped'
  <2>1. keyJob' \in [SN!Jobs -> KeyJob]'
    BY DEF KeyInv, KeyTyped, KeyJob, Copies
  <2>2. /\ window' \in {"fresh", "stale", Nothing}
        /\ window' # Nothing => kind' \in SN!Persistent /\ store'["saved"] # Nothing
    BY <1>4, <1>5, <1>6 DEF KeyInv, KeyTyped
  <2> QED
    BY <1>4, <2>1, <2>2 DEF KeyInv, KeyTyped
<1>8. keyJob'[j] = n
  BY DEF KeyInv, KeyTyped
<1>9. WritesAreGood'
  BY <1>1, <1>2, <1>8 DEF KeyInv, WritesAreGood
<1>10. \A t \in {"stale", "saved"} : store'[t] = store[t] \/ (Worthy(v) /\ store'[t] = v)
  BY <1>4
<1>11. CopiesAreGood'
  BY <1>10 DEF KeyInv, CopiesAreGood, Worthy, SN!Verified
<1>12. \A c \in Callers : kept[c] => Worthy(store'["stale"])
  BY <1>10 DEF KeyInv, KeptIsServed
<1>13. KeptIsServed'
  BY <1>1, <1>2, <1>8, <1>12 DEF KeyInv, KeptIsServed, SN!Jobs
<1> QED
  BY <1>7, <1>9, <1>11, <1>13 DEF KeyInv

LEMMA RememberMissKeeps ==
  ASSUME SN!SnapshotsAssumption, KeyInv, NEW j \in SN!Jobs, SN!RememberMiss(j) PROVE KeyInv'
<1> DEFINE n == SN!Fallback("empty", SN!Saving)
<1>1. n \in KeyJob /\ n.pc = "fallback"
  BY SavingType DEF KeyJob, KeyPlaces, Values
<1>2. keyJob' = [keyJob EXCEPT ![j] = n] /\ SN!Keeps("fresh",
        "empty") /\ keyJob[j].pc = "miss"
  BY DEF SN!RememberMiss
<1>3. UNCHANGED <<kind, window, answer, keyCalls, kept>> /\ "fresh" \in Copies
  BY DEF SN!RememberMiss, Copies
<1>4. kind = "detail" => j \notin Callers \/ ~kept[j]
  BY <1>2 DEF KeyInv, KeptIsServed
<1> HIDE DEF n
<1>5. n.pc # "write"
  BY <1>1
<1> QED
  BY <1>1, <1>2, <1>3, <1>4, <1>5, Written

LEMMA KeepKeeps ==
  ASSUME SN!SnapshotsAssumption, KeyInv, NEW j \in SN!Jobs, SN!Keep(j) PROVE KeyInv'
<1> DEFINE s == Head(keyJob[j].writes)
           n == [keyJob[j] EXCEPT !.writes = Tail(@)]
<1>1. keyJob[j] \in KeyJob /\ keyJob[j].pc = "write" /\ keyJob[j].writes # <<>>
  BY DEF KeyInv, KeyTyped, SN!Keep
<1>2. keyJob[j].writes \in Seq(Copies) /\ keyJob[j].value \in Values
  BY <1>1 DEF KeyJob
<1>3. s \in Copies /\ Tail(keyJob[j].writes) \in Seq(Copies)
  BY <1>1, <1>2
<1>4. n \in KeyJob /\ n.pc = "write" /\ n.value = keyJob[j].value
  BY <1>1, <1>3 DEF KeyJob
<1>5. Worthy(keyJob[j].value)
  BY <1>1 DEF KeyInv, WritesAreGood
<1>6. /\ SN!Keeps(s, keyJob[j].value)
      /\ window' = IF s = "saved" THEN "fresh" ELSE window
      /\ keyJob' = [keyJob EXCEPT ![j] = n]
      /\ UNCHANGED <<kind, answer, keyCalls, kept>>
  BY DEF SN!Keep
<1> DEFINE v == keyJob[j].value
<1>7. Worthy(v) /\ v \in Values /\ SN!Keeps(s, v) /\ n.value = v
  BY <1>2, <1>4, <1>5, <1>6
<1>8. n.pc = "write"
        => Worthy(n.value) /\ n.value = keyJob[j].value /\ keyJob[j].pc = "write"
  BY <1>1, <1>4, <1>5
<1> HIDE DEF n, s, v
<1> QED
  BY <1>3, <1>4, <1>6, <1>7, <1>8, Written

LEMMA ExpireKeeps ==
  ASSUME SN!SnapshotsAssumption, KeyInv, NEW s \in {"fresh", "stale"}, SN!Expire(s)
        PROVE KeyInv'
<1>1. UNCHANGED <<kind, window, keyJob, answer, keyCalls>>
  BY DEF SN!Expire
<1>2. store' = [store EXCEPT ![s] = Nothing]
  BY DEF SN!Expire
<1>3. \A x : Worthy(x)' <=> Worthy(x)
  BY <1>1 DEF Worthy, SN!Verified
<1>4. KeyTyped'
  <2>1. keyJob' \in [SN!Jobs -> KeyJob]'
    BY <1>1 DEF KeyInv, KeyTyped, KeyJob, Copies
  <2>2. kept' \in [Callers -> BOOLEAN]
    BY DEF SN!Expire, KeyInv, KeyTyped
  <2>3. store' \in [{"fresh", "stale", "saved"} -> {"full", "empty", Nothing}]
        /\ store'["saved"] = store["saved"]
    BY <1>2 DEF KeyInv, KeyTyped
  <2> QED
    BY <1>1, <2>1, <2>2, <2>3 DEF KeyInv, KeyTyped
<1>5. WritesAreGood'
  BY <1>1, <1>3 DEF KeyInv, WritesAreGood
<1>6. CopiesAreGood'
  BY <1>1, <1>2 DEF KeyInv, KeyTyped, CopiesAreGood, SN!SnapshotsAssumption
<1>7. \A c \in Callers : kept'[c] => kept[c] /\ store'["stale"] = store["stale"]
  BY <1>2 DEF SN!Expire, KeyInv, KeyTyped
<1>8. KeptIsServed'
  BY <1>1, <1>3, <1>7 DEF KeyInv, KeptIsServed
<1> QED
  BY <1>4, <1>5, <1>6, <1>8 DEF KeyInv

LEMMA AgeKeeps ==
  ASSUME SN!SnapshotsAssumption, KeyInv, SN!Age \/ UNCHANGED SN!vars PROVE KeyInv'
<1>1. UNCHANGED <<kind, store, keyJob, answer, keyCalls, kept>>
  BY DEF SN!Age, SN!vars
<1>2. /\ window' \in {"fresh", "stale", Nothing}
      /\ window' # Nothing => window # Nothing
  BY DEF SN!Age, SN!vars, KeyInv, KeyTyped
<1>3. KeyTyped'
  <2>1. keyJob' \in [SN!Jobs -> KeyJob]'
    BY <1>1 DEF KeyInv, KeyTyped, KeyJob, Copies
  <2> QED
    BY <1>1, <1>2, <2>1 DEF KeyInv, KeyTyped
<1> QED
  BY <1>1, <1>3 DEF KeyInv, WritesAreGood, CopiesAreGood, KeptIsServed, Worthy, SN!Verified

LEMMA RestartKeeps ==
  ASSUME SN!SnapshotsAssumption, KeyInv, SN!Restart PROVE KeyInv'
<1>1. SN!Idle \in KeyJob /\ SN!Idle.pc = "idle"
  BY SavingType DEF SN!Idle, KeyJob, KeyPlaces, Values
<1>2. /\ UNCHANGED <<kind, window, keyCalls>>
      /\ store' = [store EXCEPT !["fresh"] = Nothing, !["stale"] = Nothing]
      /\ keyJob' = [j \in SN!Jobs |-> SN!Idle]
      /\ answer' = [c \in Callers |-> Nothing]
      /\ kept' = [c \in Callers |-> FALSE]
  BY DEF SN!Restart
<1>3. KeyTyped'
  <2>1. keyJob' \in [SN!Jobs -> KeyJob]'
    BY <1>1, <1>2 DEF KeyInv, KeyTyped, KeyJob, Copies
  <2> QED
    BY <1>2, <2>1 DEF KeyInv, KeyTyped, Values
<1>4. WritesAreGood' /\ KeptIsServed'
  BY <1>1, <1>2 DEF WritesAreGood, KeptIsServed
<1>5. CopiesAreGood'
  BY <1>2 DEF KeyInv, KeyTyped, CopiesAreGood, SN!SnapshotsAssumption
<1> QED
  BY <1>3, <1>4, <1>5 DEF KeyInv

LEMMA KeyInvariant ==
  ASSUME SN!SnapshotsAssumption
  PROVE  SN!Spec => []KeyInv
<1>1. KeyInv /\ [SN!Next]_(SN!vars) => KeyInv'
  <2> SUFFICES ASSUME KeyInv, [SN!Next]_(SN!vars) PROVE KeyInv'
    OBVIOUS
  <2> QED
    BY BeginKeeps, ReadFreshKeeps, ReadStaleKeeps, ReadSavedKeeps, LoadKeeps, FallBackKeeps,
       RememberMissKeeps, KeepKeeps, ReturnKeeps, ExpireKeeps, AgeKeeps, RestartKeeps, Zenon
    DEF SN!Next
<1> QED
  BY <1>1, InitKey, PTL DEF SN!Spec

\* A call all along which a verified copy was stored answers neither with an
\* error nor with a blank; and no blank takes the place of such a copy.
THEOREM ResultsSurviveMissesHolds ==
  ASSUME SN!SnapshotsAssumption
  PROVE  SN!Spec => []ResultsSurviveMisses
<1>1. KeyInv => ResultsSurviveMisses
  BY DEF KeyInv, KeptIsServed, CopiesAreGood, ResultsSurviveMisses, SN!ResultsSurviveMisses,
           Worthy
<1> QED
  BY <1>1, KeyInvariant, PTL

----------------------------------------------------------------------------
(* MangaIdentity: lookups of manga, and the reading history. *)
USE DEF MI!At, MI!Become, MI!Goto, MI!Row, MI!tables

LookupPlaces  == {"idle", "current", "meta", "any", "match", "store", "found", "answer",
    "promote"}
LookupJob == [pc : LookupPlaces, manga : Manga \cup {Nothing},
    chapter : MangaChapters \cup {Nothing},
            needles : BOOLEAN, existing : MI!Mappings \cup {Nothing}, throttled : BOOLEAN,
            match : MI!Mappings \cup AniListIds \cup {Nothing}]
Currents == {r \in MI!Mappings : r.current}

MangaTyped ==
  /\ mapping \in [Manga -> MI!Mappings \cup {Nothing}]
  /\ recent \subseteq {m \in Manga : mapping[m] \in Currents}
  /\ memory \in [Manga -> AniListIds \cup {"unresolved", Nothing}]
  /\ history \in [MangaChapters -> MI!Rows \cup {Nothing}]
  /\ mangaJob \in [Lookups -> LookupJob]
  /\ blind \subseteq Lookups

\* That a mapping is verified, and t not of those that had read the table before.
Sees(t, m) == t \notin blind /\ MI!Known(mapping[m])

\* What a call has read of a verified mapping keeps it from storing a blank.
Knows(t, j) ==
  /\ j.pc # "idle" => j.manga \in Manga
  /\ j.pc = "meta" => MI!Known(j.existing)
  /\ j.pc = "match" /\ Sees(t, j.manga) => MI!Known(j.existing)
  /\ j.pc = "store"
       => j.match \in Currents /\ (Sees(t, j.manga) => j.match.id # Nothing)
  /\ j.pc \in {"found", "answer", "promote"} => j.match \in AniListIds \cup {Nothing}
  /\ j.pc = "promote" => j.match # Nothing

MangaInv == MangaTyped /\ \A t \in Lookups : Knows(t, mangaJob[t])

LEMMA MappingIds ==
  /\ \A r \in MI!Mappings : r.id \in AniListIds \cup {Nothing}
  /\ \A r \in Currents : r \in MI!Mappings
<1>1. \A r \in MI!Mappings : r.id \in AniListIds \cup {Nothing}
  BY DEF MI!Mappings
<1> QED
  BY <1>1 DEF Currents

\* A job that moves on, with another outcome in hand.
LEMMA MangaMoved ==
  ASSUME NEW j \in LookupJob, NEW pc \in LookupPlaces,
         NEW e \in MI!Mappings \cup {Nothing}, NEW th \in BOOLEAN,
             NEW m \in MI!Mappings \cup AniListIds \cup {Nothing}
  PROVE  /\ [j EXCEPT !.pc = pc] \in LookupJob
         /\ [j EXCEPT !.existing = e, !.throttled = th, !.pc = pc] \in LookupJob
         /\ [j EXCEPT !.existing = e, !.throttled = th, !.match = m,
              !.pc = pc] \in LookupJob
         /\ [j EXCEPT !.match = m, !.pc = pc] \in LookupJob
  BY Zenon DEF LookupJob

LEMMA IdleJob == MI!Idle \in LookupJob /\ MI!Idle.pc = "idle"
  BY Zenon DEF MI!Idle, LookupJob, LookupPlaces

\* One task takes a step that stores nothing.
LEMMA OneTask ==
  ASSUME MangaInv, NEW t \in Lookups, NEW n \in LookupJob,
         mangaJob' = [mangaJob EXCEPT ![t] = n], Knows(t, n),
         blind' = blind \/ (blind' = blind \ {t} /\ n.pc \notin {"match", "store"}),
         UNCHANGED <<mapping, recent>>,
         memory' \in [Manga -> AniListIds \cup {"unresolved", Nothing}],
         history' \in [MangaChapters -> MI!Rows \cup {Nothing}]
  PROVE  MangaInv'
<1>1. mangaJob'[t] = n /\ \A s \in Lookups : s # t => mangaJob'[s] = mangaJob[s]
  BY DEF MangaInv, MangaTyped
<1>2. MangaTyped'
  BY DEF MangaInv, MangaTyped
<1>3. \A s \in Lookups : \A j : s # t => (Knows(s, j)' <=> Knows(s, j))
  BY DEF Knows, Sees
<1>4. Knows(t, n)'
  BY DEF Knows, Sees
<1> QED
  BY <1>1, <1>2, <1>3, <1>4 DEF MangaInv

LEMMA InitManga == ASSUME MI!MangaIdentityAssumption, MI!Init PROVE MangaInv
<1>1. MI!Idle \in LookupJob
  BY Zenon DEF MI!Idle, LookupJob, LookupPlaces
<1>2. MI!Idle.pc = "idle"
  BY DEF MI!Idle
<1>3. \A t \in Lookups : Knows(t, MI!Idle)
  BY <1>2 DEF Knows
<1>4. MangaTyped
  BY <1>1 DEF MI!Init, MangaTyped
<1> QED
  BY <1>3, <1>4 DEF MI!Init, MangaInv

LEMMA Begins ==
  ASSUME MI!MangaIdentityAssumption, MangaInv, NEW t \in Lookups, NEW m \in Manga,
         \/ MI!Verify(t, m)
         \/ \E c \in MangaChapters \cup {Nothing} : MI!Resolve(t, m, c)
  PROVE  MangaInv'
<1>1. UNCHANGED <<mapping, recent, memory, history>> /\ blind' = blind \ {t}
  BY DEF MI!Verify, MI!Resolve
<1>2. ASSUME NEW k \in LookupJob, k.pc \in {"current", "answer"}, k.manga = m,
             k.pc = "answer" => k.match \in AniListIds \cup {Nothing},
                 mangaJob' = [mangaJob EXCEPT ![t] = k]
      PROVE  MangaInv'
  <2>1. Knows(t, k)
    BY <1>2 DEF Knows
  <2> QED
    BY <1>1, <1>2, <2>1, OneTask DEF MangaInv, MangaTyped
<1>3. CASE MI!Verify(t, m)
  <2> DEFINE k == [MI!Idle EXCEPT !.manga = m, !.needles = TRUE, !.pc = "current"]
  <2>1. k \in LookupJob /\ k.pc = "current" /\ k.manga = m
    BY IdleJob, Zenon DEF LookupJob, LookupPlaces
  <2>2. mangaJob' = [mangaJob EXCEPT ![t] = k]
    BY <1>3 DEF MI!Verify
  <2> HIDE DEF k
  <2> QED
    BY <1>2, <2>1, <2>2
<1>4. ASSUME NEW c \in MangaChapters \cup {Nothing}, MI!Resolve(t, m, c) PROVE MangaInv'
  <2> DEFINE j == [MI!Idle EXCEPT !.manga = m, !.chapter = c]
             k == [j EXCEPT !.pc = "current"]
             x == IF memory[m] = "unresolved" THEN Nothing ELSE memory[m]
             l == [j EXCEPT !.pc = "answer", !.match = x]
  <2>1. \/ mangaJob' = [mangaJob EXCEPT ![t] = k]
        \/ memory[m] # Nothing /\ mangaJob' = [mangaJob EXCEPT ![t] = l]
    BY <1>4, Zenon DEF MI!Resolve
  <2>2. x \in AniListIds \cup {Nothing}
    BY DEF MangaInv, MangaTyped
  <2>3. j \in LookupJob /\ j.manga = m
    BY IdleJob, Zenon DEF LookupJob
  <2> HIDE DEF j, x
  <2>4. k \in LookupJob /\ k.pc = "current" /\ k.manga = m
    BY <2>3, Zenon DEF LookupJob, LookupPlaces
  <2>5. l \in LookupJob /\ l.pc = "answer" /\ l.manga = m /\ l.match = x
    BY <2>2, <2>3, Zenon DEF LookupJob, LookupPlaces
  <2> HIDE DEF k, l
  <2> QED
    BY <1>2, <2>1, <2>2, <2>4, <2>5
<1> QED
  BY <1>3, <1>4

\* Found(t, id): the lookup is over.
LEMMA Finds ==
  ASSUME MangaInv, NEW t \in Lookups, NEW id \in AniListIds \cup {Nothing}, MI!Found(t, id),
         mangaJob[t].pc # "idle",
         UNCHANGED <<mapping, recent, blind, memory, history>>
  PROVE  MangaInv'
<1> DEFINE n == [mangaJob[t] EXCEPT !.existing = Nothing, !.throttled = FALSE, !.match = id,
      !.pc = "found"]
<1>1. mangaJob[t] \in LookupJob /\ mangaJob[t].manga \in Manga
  BY DEF MangaInv, MangaTyped, Knows
<1>2. n \in LookupJob
  BY <1>1, MangaMoved, Zenon DEF LookupPlaces
<1>3. n.pc = "found" /\ n.match = id /\ n.manga = mangaJob[t].manga
  BY <1>1, Zenon DEF LookupJob
<1>4. mangaJob' = [mangaJob EXCEPT ![t] = n]
  BY DEF MI!Found
<1> HIDE DEF n
<1>5. Knows(t, n)
  BY <1>1, <1>3 DEF Knows
<1> QED
  BY <1>2, <1>4, <1>5, OneTask DEF MangaInv, MangaTyped

\* A call goes on, with the mapping it read, to meta, any or match.
LEMMA GoesOn ==
  ASSUME MangaInv, NEW t \in Lookups, mangaJob[t].pc # "idle", NEW n,
         NEW e \in MI!Mappings \cup {Nothing}, NEW th \in BOOLEAN,
             NEW pc \in {"meta", "any", "match"},
         \/ n = [mangaJob[t] EXCEPT !.existing = e, !.throttled = th, !.pc = pc]
         \/ n = [mangaJob[t] EXCEPT !.pc = pc] /\ e = mangaJob[t].existing,
         pc = "meta" => MI!Known(e),
         pc = "match" /\ Sees(t, mangaJob[t].manga) => MI!Known(e),
         mangaJob' = [mangaJob EXCEPT ![t] = n],
         UNCHANGED <<mapping, recent, blind, memory, history>>
  PROVE  MangaInv'
<1>1. mangaJob[t] \in LookupJob /\ mangaJob[t].manga \in Manga
  BY DEF MangaInv, MangaTyped, Knows
<1>2. n \in LookupJob
  <2>1. pc \in LookupPlaces
    BY DEF LookupPlaces
  <2> QED
    BY <1>1, <2>1, Zenon DEF LookupJob
<1>3. n.pc = pc /\ n.existing = e /\ n.manga = mangaJob[t].manga
  BY <1>1, Zenon DEF LookupJob
<1>4. Knows(t, n)
  BY <1>1, <1>3 DEF Knows
<1> QED
  BY <1>2, <1>4, OneTask DEF MangaInv, MangaTyped

LEMMA MangaReads ==
  ASSUME MI!MangaIdentityAssumption, MangaInv, NEW t \in Lookups,
         MI!ReadCurrent(t) \/ MI!LoadMeta(t) \/ MI!ReadAny(t)
  PROVE  MangaInv'
<1> DEFINE j == mangaJob[t]
           r == mapping[mangaJob[t].manga]
<1>1. j \in LookupJob /\ j.pc \in {"current", "meta", "any"}
  BY DEF MI!ReadCurrent, MI!LoadMeta, MI!ReadAny, MangaInv, MangaTyped
<1>2. j.manga \in Manga /\ Knows(t, j) /\ (Sees(t, j.manga) => MI!Known(r))
  BY <1>1 DEF MangaInv, Knows, Sees
<1>3. r \in MI!Mappings \cup {Nothing}
  BY <1>2 DEF MangaInv, MangaTyped
<1>4. UNCHANGED <<mapping, recent, blind, memory, history>>
  BY DEF MI!ReadCurrent, MI!LoadMeta, MI!ReadAny
<1>5. j.existing \in MI!Mappings \cup {Nothing} /\ j.throttled \in BOOLEAN /\ j.needles \in BOOLEAN
  BY <1>1, Zenon DEF LookupJob
<1>6. CASE MI!ReadCurrent(t)
  <2> DEFINE th == ~j.needles /\ j.manga \in recent
  <2>1. th \in BOOLEAN
    OBVIOUS
  <2>2. CASE mangaJob' = [mangaJob EXCEPT ![t] = [j EXCEPT !.pc = "any"]]
    BY <1>1, <1>4, <1>5, <2>2, GoesOn
  <2>3. CASE MI!Known(r) /\ mangaJob' = [mangaJob EXCEPT ![t] = [j EXCEPT !.existing = r,
               !.throttled = th,
                                                              !.pc = "meta"]]
    <3> HIDE DEF th
    <3> QED
      BY <1>1, <1>3, <1>4, <2>1, <2>3, GoesOn
  <2>4. CASE MI!Found(t, Nothing)
    BY <1>1, <1>4, <2>4, Finds
  <2> QED
    BY <1>6, <2>2, <2>3, <2>4, Zenon DEF MI!ReadCurrent
<1>7. CASE MI!LoadMeta(t)
  <2>1. CASE MI!Found(t, j.existing.id)
    <3>1. j.existing.id \in AniListIds \cup {Nothing}
      BY <1>2, <1>5, <1>7, MappingIds DEF MI!LoadMeta, Knows, MI!Known
    <3> QED
      BY <1>1, <1>4, <2>1, <3>1, Finds
  <2>2. CASE MI!Found(t, Nothing)
    BY <1>1, <1>4, <2>2, Finds
  <2>3. ASSUME NEW pc \in {"any", "match"},
                 mangaJob' = [mangaJob EXCEPT ![t] = [j EXCEPT !.pc = pc]]
        PROVE  MangaInv'
    <3>1. MI!Known(j.existing)
      BY <1>2, <1>7 DEF MI!LoadMeta, Knows
    <3> QED
      BY <1>1, <1>4, <1>5, <2>3, <3>1, GoesOn
  <2> QED
    BY <1>7, <2>1, <2>2, <2>3, Zenon DEF MI!LoadMeta
<1>8. CASE MI!ReadAny(t)
  <2>1. ASSUME NEW pc \in {"meta", "match"}, pc = "meta" => MI!Known(r),
               mangaJob' = [mangaJob EXCEPT ![t] = [j EXCEPT !.existing = r,
                   !.throttled = FALSE, !.pc = pc]]
        PROVE  MangaInv'
    <3> DEFINE no == FALSE
    <3>1. no \in BOOLEAN /\ mangaJob' = [mangaJob EXCEPT ![t] = [j EXCEPT !.existing = r,
            !.throttled = no, !.pc = pc]]
      BY <2>1
    <3> HIDE DEF no
    <3> QED
      BY <1>1, <1>2, <1>3, <1>4, <2>1, <3>1, GoesOn
  <2> QED
    BY <1>8, <2>1, Zenon DEF MI!ReadAny
<1> QED
  BY <1>6, <1>7, <1>8

LEMMA Matches ==
  ASSUME MI!MangaIdentityAssumption, MangaInv, NEW t \in Lookups, MI!MatchTitles(t)
        PROVE MangaInv'
<1> DEFINE j == mangaJob[t]
<1>1. /\ j \in LookupJob /\ j.pc = "match" /\ j.manga \in Manga
      /\ UNCHANGED <<mapping, recent, blind, memory, history>>
  BY DEF MI!MatchTitles, MangaInv, MangaTyped, Knows
<1>2. PICK r \in {x \in MI!Mappings : x.current} :
         IF IF r.id = Nothing THEN MI!NoteUnresolved(t) ELSE MI!Persists(mangaJob[t].existing, r)
         THEN mangaJob' = [mangaJob EXCEPT ![t] = [mangaJob[t] EXCEPT !.match = r,
             !.pc = "store"]]
         ELSE MI!Found(t, r.id)
  BY Zenon DEF MI!MatchTitles
<1>3. r \in Currents /\ r \in MI!Mappings /\ r.id \in AniListIds \cup {Nothing}
  BY <1>2, MappingIds DEF Currents
<1>4. CASE MI!Found(t, r.id)
  BY <1>1, <1>3, <1>4, Finds
<1>5. CASE /\ r.id = Nothing => MI!NoteUnresolved(t)
           /\ mangaJob' = [mangaJob EXCEPT ![t] = [mangaJob[t] EXCEPT !.match = r,
                !.pc = "store"]]
  <2> DEFINE n == [j EXCEPT !.match = r, !.pc = "store"]
  <2>1. n \in LookupJob
    BY <1>1, <1>3, MangaMoved, Zenon DEF LookupPlaces
  <2>2. n.pc = "store" /\ n.match = r /\ n.manga = j.manga
    BY <1>1, Zenon DEF LookupJob
  <2>3. mangaJob' = [mangaJob EXCEPT ![t] = n]
    BY <1>5
  <2>4. Sees(t, j.manga) => r.id # Nothing
    BY <1>1, <1>5 DEF MangaInv, Knows, MI!NoteUnresolved
  <2> HIDE DEF n
  <2>5. Knows(t, n)
    BY <1>1, <1>3, <2>2, <2>4 DEF Knows
  <2> QED
    BY <1>1, <2>1, <2>3, <2>5, OneTask DEF MangaInv, MangaTyped
<1> QED
  BY <1>2, <1>4, <1>5, Zenon

\* A blank takes a verified mapping only from a call that is blind to it.
BlindedOnly(t) ==
  \A m \in Manga : MI!Known(mapping[m]) /\ ~MI!Known(mapping'[m]) =>
    t \in blind /\ mangaJob[t].pc = "store" /\ mangaJob[t].manga = m
      /\ mangaJob'[t] # mangaJob[t]

LEMMA Stores == ASSUME MI!MangaIdentityAssumption, MangaInv, NEW t \in Lookups, MI!Store(t)
  PROVE MangaInv' /\ BlindedOnly(t)
<1> DEFINE n == [mangaJob[t] EXCEPT !.existing = Nothing, !.throttled = FALSE,
      !.match = mangaJob[t].match.id,
                               !.pc = "found"]
           m == mangaJob[t].manga
           r == mangaJob[t].match
           peers == {s \in Lookups : /\ mangaJob[s].manga = m
                                     /\ mangaJob[s].pc \in {"match", "store"}}
<1>1. /\ mangaJob[t] \in LookupJob /\ mangaJob[t].pc = "store" /\ m \in Manga
      /\ r \in Currents /\ r \in MI!Mappings /\ r.id \in AniListIds \cup {Nothing}
      /\ Sees(t, m) => r.id # Nothing
      /\ UNCHANGED <<memory, history>>
  BY MappingIds DEF MI!Store, MangaInv, MangaTyped, Knows
<1>2. n \in LookupJob
  BY <1>1, MangaMoved, Zenon DEF LookupPlaces
<1>3. n.pc = "found" /\ n.match = r.id
  BY <1>1, Zenon DEF LookupJob
<1>4. n.manga = m
  BY <1>1, Zenon DEF LookupJob
<1>5. /\ mangaJob' = [mangaJob EXCEPT ![t] = n] /\ mapping' = [mapping EXCEPT ![m] = r]
      /\ recent' = recent \cup {m}
      /\ blind' = IF MI!Known(mapping[m]) \/ r.id = Nothing THEN blind ELSE blind \cup peers
  BY DEF MI!Store, MI!Found
<1> HIDE DEF n, m, r, peers
<1>6. mangaJob'[t] = n /\ \A s \in Lookups : s # t => mangaJob'[s] = mangaJob[s]
  BY <1>5 DEF MangaInv, MangaTyped
<1>7. MangaTyped'
  <2>1. blind' \subseteq Lookups
    BY <1>5 DEF peers, MangaInv, MangaTyped
  <2> QED
    BY <1>1, <1>2, <1>5, <2>1 DEF MangaInv, MangaTyped
<1>8. /\ mapping'[m] = r /\ \A k \in Manga : k # m => mapping'[k] = mapping[k]
      /\ r # Nothing
  BY <1>1, <1>5 DEF MangaInv, MangaTyped, MI!MangaIdentityAssumption
<1>9. \A x : x = n => Knows(t, x)'
  BY <1>1, <1>3, <1>4 DEF Knows
<1>10. ASSUME NEW s \in Lookups, s # t, NEW j, j = mangaJob[s] PROVE Knows(s, j)'
  <2>1. Knows(s, j)
    BY <1>10 DEF MangaInv
  <2>2. j.pc \in {"match", "store"} => j.manga \in Manga
    BY <2>1 DEF Knows
  <2>3. j.pc \in {"match", "store"} /\ Sees(s, j.manga)' => Sees(s, j.manga)
    <3> SUFFICES ASSUME j.pc \in {"match", "store"}, s \notin blind', MI!Known(mapping'[j.manga])
                 PROVE  s \notin blind /\ MI!Known(mapping[j.manga])
      BY <2>1 DEF Sees, MI!Known
    <3>1. s \notin blind
      BY <1>5
    <3>2. CASE j.manga # m
      BY <1>8, <2>2, <3>1, <3>2
    <3>3. CASE j.manga = m
      <4>1. s \in peers
        BY <1>10, <3>3 DEF peers
      <4>2. r.id # Nothing
        BY <1>8, <3>3 DEF MI!Known
      <4> QED
        BY <1>5, <3>1, <3>3, <4>1, <4>2
    <3> QED
      BY <3>2, <3>3
  <2> QED
    BY <2>1, <2>3 DEF Knows
<1>11. MangaInv'
  BY <1>6, <1>7, <1>9, <1>10 DEF MangaInv
<1>12. BlindedOnly(t)
  <2> SUFFICES ASSUME NEW k \in Manga, MI!Known(mapping[k]), ~MI!Known(mapping'[k])
               PROVE  t \in blind /\ m = k
    BY <1>1, <1>3, <1>6 DEF BlindedOnly, m
  <2>1. k = m
    BY <1>8
  <2>2. r.id = Nothing
    BY <1>8, <2>1 DEF MI!Known
  <2> QED
    BY <1>1, <2>1, <2>2 DEF Sees
<1> QED
  BY <1>11, <1>12

LEMMA Remembers ==
  ASSUME MI!MangaIdentityAssumption, MangaInv, NEW t \in Lookups, MI!Remember(t)
        PROVE MangaInv'
<1> DEFINE j == mangaJob[t]
<1>1. /\ j \in LookupJob /\ j.pc = "found" /\ j.manga \in Manga /\ j.match \in AniListIds \cup {Nothing}
      /\ UNCHANGED <<mapping, recent, blind, history>>
  BY DEF MI!Remember, MangaInv, MangaTyped, Knows
<1>2. CASE mangaJob' = [mangaJob EXCEPT ![t] = MI!Idle] /\ memory' = memory
  <2>1. MI!Idle \in LookupJob /\ MI!Idle.pc = "idle"
    BY IdleJob
  <2>2. Knows(t, MI!Idle)
    BY <2>1 DEF Knows
  <2> QED
    BY <1>1, <1>2, <2>1, <2>2, OneTask DEF MangaInv, MangaTyped
<1>3. CASE /\ memory' = memory \/ memory' = [memory EXCEPT ![j.manga] =
                                    IF j.match = Nothing THEN "unresolved" ELSE j.match]
           /\ mangaJob' = [mangaJob EXCEPT ![t] = [j EXCEPT !.pc = "answer"]]
  <2> DEFINE n == [j EXCEPT !.pc = "answer"]
  <2>1. n \in LookupJob /\ n.pc = "answer" /\ n.match = j.match /\ n.manga = j.manga
    BY <1>1, Zenon DEF LookupJob, LookupPlaces
  <2>2. memory' \in [Manga -> AniListIds \cup {"unresolved", Nothing}]
    BY <1>1, <1>3 DEF MangaInv, MangaTyped
  <2>3. mangaJob' = [mangaJob EXCEPT ![t] = n]
    BY <1>3
  <2> HIDE DEF n
  <2>4. Knows(t, n)
    BY <1>1, <2>1 DEF Knows
  <2> QED
    BY <1>1, <2>1, <2>2, <2>3, <2>4, OneTask DEF MangaInv, MangaTyped
<1> QED
  BY <1>2, <1>3 DEF MI!Remember

\* What was read to its end stays so, under whatever id it is opened again.
ChaptersStayRead ==
  \A c \in MangaChapters : history[c] # Nothing /\ history[c].completed =>
    history'[c] # Nothing /\ history'[c].completed

LEMMA Recording ==
  ASSUME MI!MangaIdentityAssumption, NEW old \in MI!Rows \cup {Nothing},
         NEW id \in AniListIds \cup {Nothing}
  PROVE  /\ MI!Recorded(old, id) \in MI!Rows
         /\ old # Nothing /\ old.completed => MI!Recorded(old, id).completed
         /\ old # Nothing => /\ [old EXCEPT !.id = id] \in MI!Rows
                             /\ [old EXCEPT !.id = id].completed = old.completed
                             /\ [old EXCEPT !.completed = TRUE] \in MI!Rows
                             /\ [old EXCEPT !.completed = TRUE].completed
<1>1. old # Nothing => old.completed \in BOOLEAN
  BY Zenon DEF MI!Rows
<1>2. (old # Nothing /\ old.completed) \in BOOLEAN
  BY <1>1, Zenon
<1>3. MI!Recorded(old, id) \in MI!Rows
  BY <1>2, Zenon DEF MI!Recorded, MI!Rows
<1>4. old # Nothing /\ old.completed => MI!Recorded(old, id).completed
  BY Zenon DEF MI!Recorded
<1>5. old # Nothing => /\ [old EXCEPT !.id = id] \in MI!Rows
                       /\ [old EXCEPT !.id = id].completed = old.completed
                       /\ [old EXCEPT !.completed = TRUE] \in MI!Rows
                       /\ [old EXCEPT !.completed = TRUE].completed
  BY Zenon DEF MI!Rows
<1> QED
  BY <1>3, <1>4, <1>5, Zenon

LEMMA Answers ==
  ASSUME MI!MangaIdentityAssumption, MangaInv, NEW t \in Lookups, MI!Answer(t)
  PROVE  MangaInv' /\ ChaptersStayRead
<1> DEFINE j == mangaJob[t]
           c == j.chapter
<1>1. /\ j \in LookupJob /\ j.pc = "answer" /\ j.manga \in Manga /\ j.match \in AniListIds \cup {Nothing}
      /\ UNCHANGED <<mapping, recent, blind, memory>>
  BY DEF MI!Answer, MangaInv, MangaTyped, Knows
<1>2. c \in MangaChapters \cup {Nothing}
  BY <1>1, Zenon DEF LookupJob
<1>3. /\ \A k \in MangaChapters : history[k] \in MI!Rows \cup {Nothing}
      /\ history' = history \/ (c # Nothing /\ history' = [history EXCEPT ![c] = MI!Recorded(@, j.match)])
  BY DEF MI!Answer, MangaInv, MangaTyped
<1>4. history' \in [MangaChapters -> MI!Rows \cup {Nothing}] /\ ChaptersStayRead
  <2>1. CASE history' = history
    BY <2>1 DEF MangaInv, MangaTyped, ChaptersStayRead
  <2>2. CASE c \in MangaChapters /\ history' = [history EXCEPT ![c] = MI!Recorded(history[c], j.match)]
    <3> DEFINE row == MI!Recorded(history[c], j.match)
    <3>1. /\ row \in MI!Rows /\ row # Nothing
          /\ history[c] # Nothing /\ history[c].completed => row.completed
      <4>1. row \in MI!Rows
        BY <1>1, <1>3, <2>2, Recording, Zenon
      <4>2. history[c] # Nothing /\ history[c].completed => row.completed
        BY <1>1, <1>3, <2>2, Recording, Zenon
      <4> QED
        BY <4>1, <4>2, Zenon DEF MI!MangaIdentityAssumption
    <3>2. history' = [history EXCEPT ![c] = row]
      BY <2>2
    <3> HIDE DEF row
    <3>3. /\ history' \in [MangaChapters -> MI!Rows \cup {Nothing}]
          /\ history'[c] = row /\ \A k \in MangaChapters : k # c => history'[k] = history[k]
      BY <2>2, <3>1, <3>2 DEF MangaInv, MangaTyped
    <3> QED
      BY <3>1, <3>3, Zenon DEF ChaptersStayRead
  <2> QED
    BY <1>2, <1>3, <2>1, <2>2
<1>5. CASE mangaJob' = [mangaJob EXCEPT ![t] = MI!Idle]
  <2>1. MI!Idle \in LookupJob /\ MI!Idle.pc = "idle"
    BY IdleJob
  <2>2. Knows(t, MI!Idle)
    BY <2>1 DEF Knows
  <2> QED
    BY <1>1, <1>4, <1>5, <2>1, <2>2, OneTask DEF MangaInv, MangaTyped
<1>6. CASE j.match # Nothing /\ mangaJob' = [mangaJob EXCEPT ![t] = [j EXCEPT !.pc = "promote"]]
  <2> DEFINE n == [j EXCEPT !.pc = "promote"]
  <2>1. n \in LookupJob /\ n.pc = "promote" /\ n.match = j.match /\ n.manga = j.manga
    BY <1>1, Zenon DEF LookupJob, LookupPlaces
  <2>2. mangaJob' = [mangaJob EXCEPT ![t] = n]
    BY <1>6
  <2> HIDE DEF n
  <2>3. Knows(t, n)
    BY <1>1, <1>6, <2>1 DEF Knows
  <2> QED
    BY <1>1, <1>4, <2>1, <2>2, <2>3, OneTask DEF MangaInv, MangaTyped
<1> QED
  BY <1>5, <1>6 DEF MI!Answer

LEMMA Promotes ==
  ASSUME MI!MangaIdentityAssumption, MangaInv, NEW t \in Lookups, MI!Promote(t)
  PROVE  MangaInv' /\ ChaptersStayRead
<1> DEFINE j == mangaJob[t]
           New(c) == IF history[c] # Nothing /\ Of[c] = j.manga
                     THEN [history[c] EXCEPT !.id = j.match] ELSE history[c]
<1>1. /\ j \in LookupJob /\ j.match \in AniListIds \cup {Nothing}
      /\ UNCHANGED <<mapping, recent, blind, memory>>
      /\ history' = [c \in MangaChapters |-> New(c)] /\ mangaJob' = [mangaJob EXCEPT ![t] = MI!Idle]
  BY DEF MI!Promote, MangaInv, MangaTyped, Knows
<1>2. ASSUME NEW c \in MangaChapters
      PROVE  /\ New(c) \in MI!Rows \cup {Nothing}
             /\ history[c] # Nothing
                  => New(c) # Nothing /\ New(c).completed = history[c].completed
  <2>1. history[c] \in MI!Rows \cup {Nothing}
    BY DEF MangaInv, MangaTyped
  <2>2. history[c] # Nothing => /\ [history[c] EXCEPT !.id = j.match] \in MI!Rows
                                /\ [history[c] EXCEPT !.id = j.match].completed = history[c].completed
    BY <1>1, <2>1, Recording
  <2> QED
    BY <2>1, <2>2 DEF MI!MangaIdentityAssumption
<1> HIDE DEF New
<1>3. history' \in [MangaChapters -> MI!Rows \cup {Nothing}]
  BY <1>1, <1>2
<1>4. ChaptersStayRead
  BY <1>1, <1>2 DEF ChaptersStayRead
<1>5. MI!Idle \in LookupJob /\ MI!Idle.pc = "idle"
  BY IdleJob
<1>6. Knows(t, MI!Idle)
  BY <1>5 DEF Knows
<1> QED
  BY <1>1, <1>3, <1>4, <1>5, <1>6, OneTask DEF MangaInv, MangaTyped

LEMMA NextManga ==
  ASSUME MI!MangaIdentityAssumption, MangaInv, [MI!Next]_(MI!vars)
  PROVE  MangaInv' /\ ChaptersStayRead
<1>1. ASSUME UNCHANGED <<mapping, mangaJob, blind>>, recent' \subseteq recent,
             memory' \in [Manga -> AniListIds \cup {"unresolved", Nothing}],
                 history' = history
      PROVE  MangaInv' /\ ChaptersStayRead
  <2>1. MangaTyped'
    BY <1>1 DEF MangaInv, MangaTyped
  <2> QED
    BY <1>1, <2>1 DEF MangaInv, Knows, Sees, ChaptersStayRead
<1>2. ASSUME history' = history PROVE ChaptersStayRead
  BY <1>2, Zenon DEF ChaptersStayRead
<1>3. ASSUME NEW c \in MangaChapters, MI!MarkCompleted(c)
  PROVE MangaInv' /\ ChaptersStayRead
  <2> DEFINE row == [history[c] EXCEPT !.completed = TRUE]
  <2>1. history[c] \in MI!Rows /\ Nothing \in AniListIds \cup {Nothing}
    BY <1>3 DEF MI!MarkCompleted, MangaInv, MangaTyped
  <2>2. row \in MI!Rows /\ row.completed
    BY <2>1, Zenon DEF MI!Rows
  <2>3. history' = [history EXCEPT ![c] = row] /\ UNCHANGED <<mapping, recent, memory,
          mangaJob, blind>>
    BY <1>3 DEF MI!MarkCompleted
  <2>4. row # Nothing
    BY <2>2 DEF MI!MangaIdentityAssumption
  <2> HIDE DEF row
  <2>5. /\ history' \in [MangaChapters -> MI!Rows \cup {Nothing}]
        /\ history'[c] = row /\ \A k \in MangaChapters : k # c => history'[k] = history[k]
    BY <2>2, <2>3 DEF MangaInv, MangaTyped
  <2>6. MangaTyped'
    BY <2>3, <2>5 DEF MangaInv, MangaTyped
  <2>7. ChaptersStayRead
    BY <2>2, <2>4, <2>5, Zenon DEF ChaptersStayRead
  <2> QED
    BY <2>3, <2>6, <2>7 DEF MangaInv, Knows, Sees
<1>4. ASSUME NEW t \in Lookups, NEW m \in Manga,
             MI!Verify(t, m) \/ \E c \in MangaChapters \cup {Nothing} : MI!Resolve(t, m, c)
      PROVE  MangaInv' /\ ChaptersStayRead
  BY <1>2, <1>4, Begins DEF MI!Verify, MI!Resolve
<1>5. ASSUME NEW t \in Lookups, MI!ReadCurrent(t) \/ MI!LoadMeta(t) \/ MI!ReadAny(t)
      PROVE  MangaInv' /\ ChaptersStayRead
  BY <1>2, <1>5, MangaReads DEF MI!ReadCurrent, MI!LoadMeta, MI!ReadAny
<1>6. ASSUME NEW t \in Lookups, MI!MatchTitles(t) PROVE MangaInv' /\ ChaptersStayRead
  BY <1>2, <1>6, Matches DEF MI!MatchTitles
<1>7. ASSUME NEW t \in Lookups, MI!Store(t) PROVE MangaInv' /\ ChaptersStayRead
  BY <1>2, <1>7, Stores DEF MI!Store
<1>8. ASSUME NEW t \in Lookups, MI!Remember(t) PROVE MangaInv' /\ ChaptersStayRead
  BY <1>2, <1>8, Remembers DEF MI!Remember
<1>9. ASSUME NEW m \in Manga, MI!Age(m) \/ MI!Forget(m) PROVE MangaInv' /\ ChaptersStayRead
  BY <1>1, <1>9 DEF MI!Age, MI!Forget, MangaInv, MangaTyped
<1>10. CASE UNCHANGED MI!vars
  BY <1>1, <1>10 DEF MI!vars, MangaInv, MangaTyped
<1> QED
  BY <1>3, <1>4, <1>5, <1>6, <1>7, <1>8, <1>9, <1>10, Answers, Promotes, Zenon DEF MI!Next

\* A verified mapping is taken away only by a lookup that had looked into the
\* table before it was verified, whatever lookups overlap; and a chapter that was
\* read to its end stays read.
THEOREM MangaKnowledgeIsKeptHolds ==
  ASSUME MI!MangaIdentityAssumption
  PROVE  MI!Spec => MangaKnowledgeIsKept
<1>1. MI!Init => MangaInv
  BY InitManga
<1>2. MangaInv /\ [MI!Next]_(MI!vars) => MangaInv'
  BY NextManga
<1>3. MangaInv /\ [MI!Next]_(MI!vars) =>
        [/\ \A m \in Manga : MI!Known(mapping[m]) /\ ~MI!Known(mapping'[m]) =>
              \E t \in blind :
                MI!At(t, "store") /\ mangaJob[t].manga = m /\ mangaJob'[t] # mangaJob[t]
         /\ \A c \in MangaChapters : history[c] # Nothing /\ history[c].completed =>
              history'[c] # Nothing /\ history'[c].completed]_(MI!vars)
  <2> SUFFICES ASSUME MangaInv, [MI!Next]_(MI!vars)
               PROVE  (\E t \in Lookups : BlindedOnly(t)) \/ mapping' = mapping
    BY NextManga DEF ChaptersStayRead, BlindedOnly
  <2> QED
    BY Stores
    DEF MI!Next, MI!Verify, MI!Resolve, MI!ReadCurrent, MI!LoadMeta, MI!ReadAny,
        MI!MatchTitles, MI!Remember, MI!Answer, MI!Promote, MI!MarkCompleted, MI!Age,
        MI!Forget, MI!vars
<1> QED
  BY <1>1, <1>2, <1>3, PTL DEF MI!Spec, MangaKnowledgeIsKept, MI!MangaKnowledgeIsKept

----------------------------------------------------------------------------
(* OnlineStreams: the arrangement of streams, and the choice among them. *)
\* The size of a set is the same, seen from here.
LEMMA SameCardinality == \A S : OS!Cardinality(S) = Cardinality(S)
  BY DEF OS!Cardinality, Cardinality

\* How many come before i.
Rank(S, R, i) == Cardinality({j \in S : <<j, i>> \in R})

StrictOrder(S, R) ==
  /\ \A i \in S : <<i, i>> \notin R
  /\ \A i, j \in S : i # j => <<i, j>> \in R \/ <<j, i>> \in R
  /\ \A i, j, k \in S : <<i, j>> \in R /\ <<j, k>> \in R => <<i, k>> \in R

LEMMA Ranks ==
  ASSUME NEW S, IsFiniteSet(S), NEW R, StrictOrder(S, R)
  PROVE  /\ \A i \in S : Rank(S, R, i) \in Nat /\ Rank(S, R, i) < Cardinality(S)
         /\ \A i, j \in S : <<i, j>> \in R => Rank(S, R, i) < Rank(S, R, j)
<1> DEFINE Pred(i) == {j \in S : <<j, i>> \in R}
<1>1. \A i \in S : IsFiniteSet(Pred(i)) /\ Cardinality(Pred(i)) \in Nat
  BY FS_Subset, FS_CardinalityType
<1>2. ASSUME NEW i \in S PROVE Cardinality(Pred(i)) < Cardinality(S)
  <2>1. Pred(i) \in SUBSET S /\ i \notin Pred(i)
    BY DEF StrictOrder
  <2>2. Cardinality(Pred(i)) <= Cardinality(S) /\ Cardinality(Pred(i)) # Cardinality(S)
    BY <2>1, FS_Subset
  <2> QED
    BY <2>2, <1>1, FS_CardinalityType
<1>3. ASSUME NEW i \in S, NEW j \in S, <<i, j>> \in R
      PROVE  Cardinality(Pred(i)) < Cardinality(Pred(j))
  <2>1. Pred(i) \in SUBSET Pred(j) /\ i \in Pred(j) /\ i \notin Pred(i)
    BY <1>3 DEF StrictOrder
  <2>2. Cardinality(Pred(i)) <= Cardinality(Pred(j)) /\ Cardinality(Pred(i)) # Cardinality(Pred(j))
    BY <2>1, <1>1, FS_Subset
  <2>3. Cardinality(Pred(i)) \in Nat /\ Cardinality(Pred(j)) \in Nat
    BY <1>1
  <2> HIDE DEF Pred
  <2> QED
    BY <2>2, <2>3
<1> QED
  BY <1>1, <1>2, <1>3 DEF Rank

LEMMA Arrangement ==
  ASSUME NEW S, IsFiniteSet(S), NEW R, StrictOrder(S, R)
  PROVE  /\ Cardinality(S) \in Nat
         /\ OS!Arranged(S, R) \in [1 .. Cardinality(S) -> S]
         /\ \A i \in S : \E k \in 1 .. Cardinality(S) : OS!Arranged(S, R)[k] = i
         /\ \A k, l \in 1 .. Cardinality(S) : k < l
              => <<OS!Arranged(S, R)[k], OS!Arranged(S, R)[l]>> \in R
<1> DEFINE n == Cardinality(S)
           f == [i \in S |-> Rank(S, R, i) + 1]
           a == OS!Arranged(S, R)
<1>1. n \in Nat
  BY FS_CardinalityType
<1>2. /\ \A i \in S : Rank(S, R, i) \in Nat /\ Rank(S, R, i) < n
      /\ \A i, j \in S : <<i, j>> \in R => Rank(S, R, i) < Rank(S, R, j)
  BY Ranks
<1>3. \A i, j \in S : Rank(S, R, i) = Rank(S, R, j) => i = j
  <2> SUFFICES ASSUME NEW i \in S, NEW j \in S, i # j PROVE Rank(S, R, i) # Rank(S, R, j)
    OBVIOUS
  <2>1. <<i, j>> \in R \/ <<j, i>> \in R
    BY DEF StrictOrder
  <2>2. Rank(S, R, i) < Rank(S, R, j) \/ Rank(S, R, j) < Rank(S, R, i)
    BY <2>1, <1>2
  <2> QED
    BY <2>2, <1>2
<1>4. f \in Injection(S, 1 .. n)
  BY <1>1, <1>2, <1>3 DEF Injection, IsInjective
<1>5. IsFiniteSet(1 .. n) /\ Cardinality(1 .. n) = n
  BY <1>1, FS_Interval
<1>6. f \in Surjection(S, 1 .. n)
  BY <1>4, <1>5, FS_Injection
<1>7. \A k \in 1 .. n : \E i \in S : f[i] = k
  BY <1>6 DEF Surjection
<1>8. \A k \in 1 .. n : \E i \in S : Rank(S, R, i) = k - 1
  BY <1>7, <1>2, <1>1
<1>9. a = [k \in 1 .. n |-> CHOOSE i \in S : Rank(S, R, i) = k - 1]
  BY DEF OS!Arranged, Rank, OS!Cardinality, Cardinality
<1> HIDE DEF a
<1>10. \A k \in 1 .. n : a[k] \in S /\ Rank(S, R, a[k]) = k - 1
  BY <1>8, <1>9
<1>11. a \in [1 .. n -> S]
  BY <1>9, <1>10
<1>12. \A i \in S : \E k \in 1 .. n : a[k] = i
  <2> SUFFICES ASSUME NEW i \in S PROVE \E k \in 1 .. n : a[k] = i
    OBVIOUS
  <2> DEFINE k == Rank(S, R, i) + 1
  <2>1. k \in 1 .. n /\ k - 1 = Rank(S, R, i)
    BY <1>1, <1>2
  <2>2. a[k] = i
    BY <2>1, <1>10, <1>3
  <2> QED
    BY <2>1, <2>2
<1>13. \A k, l \in 1 .. n : k < l => <<a[k], a[l]>> \in R
  <2> SUFFICES ASSUME NEW k \in 1 .. n, NEW l \in 1 .. n, k < l PROVE <<a[k], a[l]>> \in R
    OBVIOUS
  <2>1. Rank(S, R, a[k]) < Rank(S, R, a[l]) /\ Rank(S, R, a[k]) \in Nat /\ Rank(S, R,
          a[l]) \in Nat
    BY <1>1, <1>10
  <2>2. a[k] # a[l] /\ <<a[l], a[k]>> \notin R
    BY <2>1, <1>2, <1>10
  <2> QED
    BY <2>2, <1>10 DEF StrictOrder
<1> QED
  BY <1>1, <1>11, <1>12, <1>13 DEF a

\* Preference is a weak order: streams are as good as one another or not.
LEMMA Scores == \A s, w : OS!AudioRank(s, w) \in {1, 2, 3} /\ OS!Score(s, w) \in Nat
<1>1. \A s, w : OS!AudioRank(s, w) \in {1, 2, 3}
  BY DEF OS!AudioRank
<1>2. ASSUME NEW s, NEW w PROVE OS!Score(s, w) \in Nat
  <2> DEFINE rank == CASE s.quality = 1080 -> 4 [] s.quality = 720 -> 3 [] s.quality = 480 -> 2
                       [] s.quality = 360 -> 1 [] OTHER -> 0
  <2>1. rank \in {0, 1, 2, 3, 4}
    OBVIOUS
  <2> HIDE DEF rank
  <2>2. OS!Score(s,
          w) = 10 * rank + (IF w.quality # 0 /\ s.quality = w.quality THEN 100 ELSE 0)
    BY DEF OS!Score, rank
  <2> QED
    BY <2>1, <2>2
<1> QED
  BY <1>1, <1>2

LEMMA WeakOrder ==
  ASSUME NEW s, NEW t, NEW u, NEW w
  PROVE  /\ ~OS!Better(s, s, w)
         /\ OS!Better(s, t, w) => ~OS!Better(t, s, w)
         /\ OS!Better(s, t, w) /\ OS!Better(t, u, w) => OS!Better(s, u, w)
         /\ ~OS!Better(s, t, w) /\ ~OS!Better(t, u, w) => ~OS!Better(s, u, w)
<1>1. \A x : OS!AudioRank(x, w) \in Int /\ OS!Score(x, w) \in Int
  BY Scores
<1> QED
  BY <1>1 DEF OS!Better

----------------------------------------------------------------------------
\* What may be kept: links a player can open, none twice.
Keepable(list) ==
  /\ list \in Seq(OS!Offered)
  /\ \A i \in DOMAIN list : list[i].direct
  /\ \A i, j \in DOMAIN list : list[i] = list[j] => i = j

LEMMA SortedOrder ==
  ASSUME NEW list, Keepable(list), NEW w
  PROVE  /\ OS!Sorted(list, w) \in [1 .. Len(list) -> OS!Range(list)]
         /\ \A i \in 1 .. Len(list) : \E k \in 1 .. Len(list) : OS!Sorted(list,
              w)[k] = list[i]
         /\ \A k, l \in 1 .. Len(list) : OS!Sorted(list, w)[k] = OS!Sorted(list, w)[l]
              => k = l
         /\ \A k, l \in 1 .. Len(list) :
              k < l => ~OS!Better(OS!Sorted(list, w)[l], OS!Sorted(list, w)[k], w)
<1> DEFINE D == DOMAIN list
           n == Len(list)
           Before(j, i) == \/ OS!Better(list[j], list[i], w)
                           \/ ~OS!Better(list[i], list[j], w) /\ j < i
           R == {p \in D \X D : Before(p[1], p[2])}
           places == OS!Arranged(D, R)
<1>1. n \in Nat /\ D = 1 .. n
  BY DEF Keepable
<1>2. IsFiniteSet(D) /\ Cardinality(D) = n
  <2> HIDE DEF n, D
  <2>1. IsFiniteSet(1 .. n) /\ Cardinality(1 .. n) = n
    BY <1>1, FS_Interval
  <2> QED
    BY <1>1, <2>1
<1>3. \A i, j \in D : <<i, j>> \in R <=> Before(i, j)
  OBVIOUS
<1>4. StrictOrder(D, R)
  <2>1. \A i \in D : ~Before(i, i)
    BY <1>1, WeakOrder
  <2>2. \A i, j \in D : i # j => Before(i, j) \/ Before(j, i)
    BY <1>1, WeakOrder
  <2>3. ASSUME NEW i \in D, NEW j \in D, NEW k \in D, Before(i, j), Before(j, k)
        PROVE  Before(i, k)
    <3>1. i \in Nat /\ j \in Nat /\ k \in Nat
      BY <1>1
    <3>2. /\ ~OS!Better(list[j], list[i], w) /\ ~OS!Better(list[k], list[j], w)
          /\ ~OS!Better(list[k], list[i], w)
      BY <2>3, WeakOrder
    <3>3. ~OS!Better(list[i], list[k], w)
            => ~OS!Better(list[i], list[j], w) /\ ~OS!Better(list[j], list[k], w)
      <4>1. ~OS!Better(list[i], list[k], w) => ~OS!Better(list[i], list[j], w)
        BY <3>2, WeakOrder
      <4>2. ~OS!Better(list[i], list[k], w) => ~OS!Better(list[j], list[k], w)
        BY <3>2, WeakOrder
      <4> QED
        BY <4>1, <4>2
    <3> QED
      BY <2>3, <3>1, <3>2, <3>3
  <2> HIDE DEF Before, R
  <2> QED
    BY <1>3, <2>1, <2>2, <2>3 DEF StrictOrder
<1>5. /\ places \in [1 .. n -> D]
      /\ \A i \in D : \E k \in 1 .. n : places[k] = i
      /\ \A k, l \in 1 .. n : k < l => <<places[k], places[l]>> \in R
  <2> HIDE DEF D, R, n
  <2>1. /\ places \in [1 .. Cardinality(D) -> D]
        /\ \A i \in D : \E k \in 1 .. Cardinality(D) : places[k] = i
        /\ \A k, l \in 1 .. Cardinality(D) : k < l => <<places[k], places[l]>> \in R
    BY <1>2, <1>4, Arrangement
  <2> QED
    BY <1>2, <2>1
<1>6. OS!Sorted(list, w) = [k \in 1 .. n |-> list[places[k]]]
  BY <1>1 DEF OS!Sorted
<1> HIDE DEF places
<1>7. \A k, l \in 1 .. n : k < l => Before(places[k], places[l])
  BY <1>3, <1>5
<1>8. \A k, l \in 1 .. n : places[k] = places[l] => k = l
  <2> SUFFICES ASSUME NEW k \in 1 .. n, NEW l \in 1 .. n, k < l PROVE places[k] # places[l]
    BY <1>1
  <2> QED
    BY <1>7, <1>5, <1>1, WeakOrder
<1>9. \A k, l \in 1 .. n : k < l => ~OS!Better(list[places[l]], list[places[k]], w)
  BY <1>7, WeakOrder
<1>10. \A k, l \in 1 .. n : list[places[k]] = list[places[l]] => k = l
  BY <1>5, <1>8 DEF Keepable
<1>11. \A k \in 1 .. n : list[places[k]] \in OS!Range(list)
  BY <1>5 DEF OS!Range
<1>12. \A k \in 1 .. n : OS!Sorted(list, w)[k] = list[places[k]]
  BY <1>6
<1>13. \A i \in 1 .. n : \E k \in 1 .. n : list[places[k]] = list[i]
  BY <1>1, <1>5
<1> HIDE DEF n
<1> QED
  <2>1. OS!Sorted(list, w) \in [1 .. n -> OS!Range(list)]
    BY <1>6, <1>11
  <2>2. \A i \in 1 .. n : \E k \in 1 .. n : OS!Sorted(list, w)[k] = list[i]
    BY <1>12, <1>13
  <2>3. \A k, l \in 1 .. n : OS!Sorted(list, w)[k] = OS!Sorted(list, w)[l] => k = l
    BY <1>10, <1>12
  <2>4. \A k, l \in 1 .. n : k < l
          => ~OS!Better(OS!Sorted(list, w)[l], OS!Sorted(list, w)[k], w)
    BY <1>9, <1>12
  <2> QED
    BY <2>1, <2>2, <2>3, <2>4 DEF n

LEMMA PlayableIsGood ==
  ASSUME NEW offer \in Seq(OS!Offered)
  PROVE  Keepable(OS!Playable(offer))
<1> DEFINE Same(s, t) == s.url = t.url /\ s.audio = t.audio
           Direct(i)  == offer[i].direct
           first == {i \in DOMAIN offer :
                       Direct(i) /\ \A j \in 1 .. i - 1 : ~(Direct(j) /\ Same(offer[i],
                           offer[j]))}
           R == {p \in first \X first : p[1] < p[2]}
           places == OS!Arranged(first, R)
           n == Cardinality(first)
<1>1. DOMAIN offer = 1 .. Len(offer) /\ Len(offer) \in Nat /\ \A i \in DOMAIN offer : offer[i] \in OS!Offered
  OBVIOUS
<1>2. first \subseteq 1 .. Len(offer) /\ IsFiniteSet(first)
  <2>1. IsFiniteSet(1 .. Len(offer))
    BY <1>1, FS_Interval
  <2>2. first \in SUBSET (1 .. Len(offer))
    BY <1>1
  <2> HIDE DEF first
  <2> QED
    BY <2>1, <2>2, FS_Subset
<1>3. StrictOrder(first, R)
  <2>1. \A i, j \in first : <<i, j>> \in R <=> i < j
    OBVIOUS
  <2>2. first \subseteq Nat
    BY <1>2
  <2> HIDE DEF first, R
  <2> QED
    BY <2>1, <2>2 DEF StrictOrder
<1>4. /\ n \in Nat
      /\ places \in [1 .. n -> first]
      /\ \A k, l \in 1 .. n : k < l => <<places[k], places[l]>> \in R
  BY <1>2, <1>3, Arrangement
<1>5. OS!Playable(offer) = [k \in 1 .. n |-> offer[places[k]]]
  BY DEF OS!Playable, OS!Cardinality, Cardinality
<1>6. \A i, j \in first : i < j => offer[i] # offer[j]
  <2> SUFFICES ASSUME NEW i \in first, NEW j \in first, i < j, offer[i] = offer[j]
        PROVE FALSE
    OBVIOUS
  <2>1. i \in 1 .. j - 1 /\ Direct(i) /\ Same(offer[j], offer[i])
    BY <1>2
  <2> QED
    BY <2>1
<1>7. \A i \in first : offer[i].direct /\ offer[i] \in OS!Offered
  BY <1>1
<1>8. \A k, l \in 1 .. n : k < l => places[k] < places[l]
  BY <1>4
<1> HIDE DEF places, first, n
<1>9. \A k, l \in 1 .. n : offer[places[k]] = offer[places[l]] => k = l
  <2> SUFFICES ASSUME NEW k \in 1 .. n, NEW l \in 1 .. n, k < l
        PROVE offer[places[k]] # offer[places[l]]
    BY <1>4
  <2> QED
    BY <1>4, <1>6, <1>8
<1>10. OS!Playable(offer) \in Seq(OS!Offered) /\ DOMAIN OS!Playable(offer) = 1 .. n
  BY <1>4, <1>5, <1>7
<1> QED
  BY <1>4, <1>5, <1>7, <1>9, <1>10 DEF Keepable

\* How many are tried at most.
Tried(c) == IF Len(streams[c]) > Limit THEN Limit ELSE Len(streams[c])

\* The candidates, in order; what is left out is no better than any of them.
LEMMA CandidateOrder ==
  ASSUME OS!OnlineStreamsAssumption, NEW c \in Viewers, Keepable(streams[c])
  PROVE  /\ Tried(c) \in Nat
         /\ OS!Candidates(c) \in [1 .. Tried(c) -> OS!Range(streams[c])]
         /\ \A k, l \in 1 .. Tried(c) : OS!Candidates(c)[k] = OS!Candidates(c)[l] => k = l
         /\ \A k, l \in 1 .. Tried(c) :
              k < l => ~OS!Better(OS!Candidates(c)[l], OS!Candidates(c)[k], wish[c])
         /\ \A s \in OS!Range(streams[c]) :
              \/ \E k \in 1 .. Tried(c) : s = OS!Candidates(c)[k]
              \/ \A k \in 1 .. Tried(c) : ~OS!Better(s, OS!Candidates(c)[k], wish[c])
<1> DEFINE list == streams[c]
           n == Len(list)
           m == Tried(c)
           z == OS!Sorted(list, wish[c])
<1>1. n \in Nat /\ DOMAIN list = 1 .. n
  BY DEF Keepable
<1>2. m \in Nat /\ m <= n
  <2>1. m = IF n > Limit THEN Limit ELSE n
    BY DEF Tried
  <2>2. Limit \in Nat
    BY DEF OS!OnlineStreamsAssumption
  <2> HIDE DEF m, n
  <2> QED
    BY <1>1, <2>1, <2>2
<1>3. /\ z \in [1 .. n -> OS!Range(list)]
      /\ \A i \in 1 .. n : \E k \in 1 .. n : z[k] = list[i]
      /\ \A k, l \in 1 .. n : z[k] = z[l] => k = l
      /\ \A k, l \in 1 .. n : k < l => ~OS!Better(z[l], z[k], wish[c])
  BY SortedOrder
<1>4. OS!Candidates(c) = [k \in 1 .. m |-> z[k]]
  <2>1. OS!Candidates(c) = OS!First(z)
    BY DEF OS!Candidates
  <2> HIDE DEF z, n, list
  <2>2. z \in Seq(OS!Range(list)) /\ Len(z) = n
    BY <1>1, <1>3
  <2>3. OS!First(z) = SubSeq(z, 1, m)
    BY <2>2 DEF OS!First, Tried, n, list
  <2>4. SubSeq(z, 1, m) = [k \in 1 .. m |-> z[k]]
    BY <2>2, <1>2
  <2> QED
    BY <2>1, <2>3, <2>4
<1>5. \A s \in OS!Range(list) : \E k \in 1 .. n : s = z[k]
  <2> HIDE DEF z, n, list
  <2> SUFFICES ASSUME NEW s \in OS!Range(list) PROVE \E k \in 1 .. n : s = z[k]
    OBVIOUS
  <2>1. PICK i \in 1 .. n : s = list[i]
    BY <1>1 DEF OS!Range
  <2> QED
    BY <2>1, <1>3
<1> HIDE DEF z, n, list, m
<1>6. \A k \in 1 .. m : k \in 1 .. n
  BY <1>1, <1>2
<1>7. ASSUME NEW s \in OS!Range(list)
      PROVE  \/ \E k \in 1 .. m : s = z[k]
             \/ \A k \in 1 .. m : ~OS!Better(s, z[k], wish[c])
  <2>1. PICK i \in 1 .. n : s = z[i]
    BY <1>5
  <2>2. CASE i \in 1 .. m
    BY <2>1, <2>2
  <2>3. CASE i \notin 1 .. m
    <3>1. \A k \in 1 .. m : k < i
      BY <2>3, <1>1, <1>2
    <3> QED
      BY <3>1, <2>1, <1>3, <1>6
  <2> QED
    BY <2>2, <2>3
<1>8. OS!Candidates(c) \in [1 .. m -> OS!Range(list)]
  BY <1>3, <1>4, <1>6
<1>9. \A k, l \in 1 .. m : OS!Candidates(c)[k] = OS!Candidates(c)[l] => k = l
  BY <1>3, <1>4, <1>6
<1>10. \A k, l \in 1 .. m : k < l
         => ~OS!Better(OS!Candidates(c)[l], OS!Candidates(c)[k], wish[c])
  BY <1>3, <1>4, <1>6
<1>11. \A s \in OS!Range(list) : \/ \E k \in 1 .. m : s = OS!Candidates(c)[k]
                              \/ \A k \in 1 .. m : ~OS!Better(s, OS!Candidates(c)[k],
                                   wish[c])
  BY <1>4, <1>7
<1> QED
  BY <1>2, <1>8, <1>9, <1>10, <1>11 DEF m, list

\* As many as are tried.
LEMMA CandidateCount ==
  ASSUME OS!OnlineStreamsAssumption, NEW c \in Viewers, Keepable(streams[c])
  PROVE  Cardinality(OS!Range(OS!Candidates(c))) = Tried(c)
<1> DEFINE m == Tried(c)
           f == OS!Candidates(c)
<1>1. m \in Nat /\ f \in [1 .. m -> OS!Range(streams[c])] /\ \A k,
        l \in 1 .. m : f[k] = f[l] => k = l
  BY CandidateOrder
<1> HIDE DEF m, f
<1>2. f \in Bijection(1 .. m, OS!Range(f))
  BY <1>1 DEF Bijection, Injection, Surjection, IsInjective, OS!Range
<1>3. ExistsBijection(1 .. m, OS!Range(f))
  BY <1>2 DEF ExistsBijection
<1> QED
  BY <1>1, <1>3, FS_CountingElements DEF m, f

----------------------------------------------------------------------------
StreamPlaces == {"idle", "hot", "fetch", "keep hot", "keep stale", "stale", "play"}

StreamsTyped ==
  /\ hot \in [Sources -> Seq(OS!Offered)] /\ stale \in [Sources -> Seq(OS!Offered)]
  /\ stage \in [Viewers -> StreamPlaces]
  /\ source \in [Viewers -> Sources \cup {Nothing}]
  /\ wish \in [Viewers -> Wishes \cup {Nothing}]
  /\ streams \in [Viewers -> Seq(OS!Offered)]
  /\ failed \in [Viewers -> SUBSET OS!Offered]
  /\ DOMAIN played = Viewers

KeptIsGood == \A s \in Sources : Keepable(hot[s]) /\ Keepable(stale[s])

\* What c has in hand; it has tried candidates only.
InHand(c) ==
  /\ Keepable(streams[c])
  /\ stage[c] # "idle" => source[c] \in Sources
  /\ stage[c] \in {"keep hot", "keep stale", "play"} => streams[c] # <<>>
  /\ stage[c] \notin {"idle", "play"} => failed[c] = {}
  /\ stage[c] = "play" => failed[c] \subseteq OS!Range(OS!Candidates(c))

StreamsInv == StreamsTyped /\ KeptIsGood /\ \A c \in Viewers : InHand(c)

LEMMA NoStreams == Keepable(<<>>)
  BY DEF Keepable

\* Who is let alone keeps what he has in hand.
LEMMA LetAlone ==
  ASSUME NEW d \in Viewers, InHand(d),
         streams'[d] = streams[d], stage'[d] = stage[d], source'[d] = source[d],
         wish'[d] = wish[d], failed'[d] = failed[d]
  PROVE  InHand(d)'
<1>1. OS!Candidates(d)' = OS!Candidates(d)
  BY DEF OS!Candidates
<1> QED
  BY <1>1 DEF InHand

LEMMA InitStreams == ASSUME OS!OnlineStreamsAssumption, OS!Init PROVE StreamsInv
<1>1. StreamsTyped
  BY DEF OS!Init, StreamsTyped, StreamPlaces
<1>2. KeptIsGood /\ \A c \in Viewers : InHand(c)
  BY NoStreams DEF OS!Init, KeptIsGood, InHand
<1> QED
  BY <1>1, <1>2 DEF StreamsInv

LEMMA OpenKeeps ==
  ASSUME OS!OnlineStreamsAssumption, StreamsInv, NEW c \in Viewers, OS!Open(c)
        PROVE StreamsInv'
<1>1. PICK s \in Sources, w \in Wishes :
        /\ source' = [source EXCEPT ![c] = s] /\ wish' = [wish EXCEPT ![c] = w]
        /\ failed' = [failed EXCEPT ![c] = {}] /\ played' = [played EXCEPT ![c] = Nothing]
        /\ stage' = [stage EXCEPT ![c] = "hot"] /\ UNCHANGED <<hot, stale, streams>>
  BY DEF OS!Open, OS!Goto
<1>2. StreamsTyped'
  BY <1>1 DEF StreamsInv, StreamsTyped, StreamPlaces
<1>3. KeptIsGood'
  BY <1>1 DEF StreamsInv, KeptIsGood
<1>4. InHand(c)'
  BY <1>1 DEF StreamsInv, StreamsTyped, InHand
<1>5. ASSUME NEW d \in Viewers \ {c} PROVE InHand(d)'
  BY <1>1, LetAlone DEF StreamsInv, StreamsTyped
<1> QED
  BY <1>2, <1>3, <1>4, <1>5 DEF StreamsInv

\* A step of c that leads to the streams l, to the place at.
LEMMA Gets ==
  ASSUME StreamsInv, NEW c \in Viewers, NEW l, NEW at \in StreamPlaces,
         stage[c] \notin {"idle", "play"},
         Keepable(l), at \in {"keep hot", "keep stale", "play"} => l # <<>>,
         streams' = [streams EXCEPT ![c] = l], stage' = [stage EXCEPT ![c] = at],
         UNCHANGED <<source, wish, failed, played>>
  PROVE  /\ streams' \in [Viewers -> Seq(OS!Offered)] /\ stage' \in [Viewers -> StreamPlaces]
         /\ \A d \in Viewers : InHand(d)'
<1>1. l \in Seq(OS!Offered)
  BY DEF Keepable
<1>2. streams'[c] = l /\ stage'[c] = at /\ failed'[c] = {} /\ source'[c] \in Sources
  BY DEF StreamsInv, StreamsTyped, InHand
<1>3. InHand(c)'
  BY <1>2 DEF InHand
<1>4. ASSUME NEW d \in Viewers \ {c} PROVE InHand(d)'
  BY LetAlone DEF StreamsInv, StreamsTyped
<1> QED
  BY <1>1, <1>3, <1>4 DEF StreamsInv, StreamsTyped

LEMMA FindsKeep ==
  ASSUME OS!OnlineStreamsAssumption, StreamsInv, NEW c \in Viewers,
         OS!ReadHot(c) \/ OS!GetStreamSources(c) \/ OS!FallBack(c)
  PROVE  StreamsInv'
<1>1. /\ stage[c] \in {"hot", "fetch", "stale"} /\ source[c] \in Sources
      /\ UNCHANGED <<hot, stale, source, wish, failed, played>>
  BY DEF StreamsInv, InHand, OS!ReadHot, OS!GetStreamSources, OS!FallBack, OS!callVars
<1>2. PICK l \in Seq(OS!Offered), at \in StreamPlaces \ {"keep stale"} :
        /\ Keepable(l) /\ (at \in {"keep hot", "play"} => l # <<>>)
        /\ streams' = [streams EXCEPT ![c] = l] /\ stage' = [stage EXCEPT ![c] = at]
  <2> DEFINE Fits(l, at) ==
        /\ Keepable(l) /\ (at \in {"keep hot", "play"} => l # <<>>)
        /\ streams' = [streams EXCEPT ![c] = l] /\ stage' = [stage EXCEPT ![c] = at]
           Found == \E l \in Seq(OS!Offered),
               at \in StreamPlaces \ {"keep stale"} : Fits(l, at)
  <2>0. ASSUME NEW l, NEW at \in StreamPlaces \ {"keep stale"}, Fits(l, at) PROVE Found
    <3>1. l \in Seq(OS!Offered)
      BY <2>0 DEF Keepable
    <3> HIDE DEF Fits
    <3> QED
      BY <2>0, <3>1
  <2>1. streams = [streams EXCEPT ![c] = streams[c]] /\ Keepable(streams[c])
    BY DEF StreamsInv, StreamsTyped, InHand
  <2>2. ASSUME OS!ReadHot(c) PROVE Found
    <3>1. CASE hot[source[c]] # <<>>
      <4>1. Fits(hot[source[c]], "play")
        BY <2>2, <3>1, <1>1 DEF OS!ReadHot, OS!Goto, StreamsInv, KeptIsGood
      <4> HIDE DEF Fits, Found
      <4> QED
        BY <4>1, <2>0 DEF StreamPlaces
    <3>2. CASE hot[source[c]] = <<>>
      <4>1. Fits(streams[c], "fetch")
        BY <2>1, <2>2, <3>2 DEF OS!ReadHot, OS!Goto
      <4> HIDE DEF Fits, Found
      <4> QED
        BY <4>1, <2>0 DEF StreamPlaces
    <3> QED
      BY <3>1, <3>2
  <2>3. ASSUME OS!FallBack(c) PROVE Found
    <3>1. CASE source[c] \notin ShortLived /\ stale[source[c]] # <<>>
      <4>1. Fits(stale[source[c]], "play")
        BY <2>3, <3>1, <1>1 DEF OS!FallBack, OS!Goto, StreamsInv, KeptIsGood
      <4> HIDE DEF Fits, Found
      <4> QED
        BY <4>1, <2>0 DEF StreamPlaces
    <3>2. CASE ~(source[c] \notin ShortLived /\ stale[source[c]] # <<>>)
      <4>1. Fits(streams[c], "idle")
        BY <2>1, <2>3, <3>2 DEF OS!FallBack, OS!Goto
      <4> HIDE DEF Fits, Found
      <4> QED
        BY <4>1, <2>0 DEF StreamPlaces
    <3> QED
      BY <3>1, <3>2
  <2>4. ASSUME OS!GetStreamSources(c) PROVE Found
    <3>1. CASE stage' = [stage EXCEPT ![c] = "stale"] /\ UNCHANGED streams
      <4>1. Fits(streams[c], "stale")
        BY <2>1, <3>1
      <4> HIDE DEF Fits, Found
      <4> QED
        BY <4>1, <2>0 DEF StreamPlaces
    <3>2. ASSUME NEW offer \in Offers,
                 streams' = [streams EXCEPT ![c] = OS!Playable(offer)],
                 stage' = [stage EXCEPT ![c] = IF OS!Playable(offer) = <<>> THEN "stale" ELSE "keep hot"]
          PROVE  Found
      <4>1. Keepable(OS!Playable(offer))
        BY PlayableIsGood DEF OS!OnlineStreamsAssumption
      <4>2. Fits(OS!Playable(offer),
              IF OS!Playable(offer) = <<>> THEN "stale" ELSE "keep hot")
        BY <3>2, <4>1
      <4> HIDE DEF Fits, Found
      <4> QED
        BY <4>2, <2>0 DEF StreamPlaces
    <3> QED
      BY <2>4, <3>1, <3>2 DEF OS!GetStreamSources, OS!Goto
  <2>5. Found
    BY <2>2, <2>3, <2>4
  <2> QED
    BY <2>5
<1>3. /\ streams' \in [Viewers -> Seq(OS!Offered)] /\ stage' \in [Viewers -> StreamPlaces]
      /\ \A d \in Viewers : InHand(d)'
  <2>1. stage[c] \notin {"idle", "play"} /\ (at \in {"keep hot", "keep stale", "play"}
          => l # <<>>)
    BY <1>1, <1>2
  <2> QED
    BY <1>1, <1>2, <2>1, Gets
<1> QED
  BY <1>1, <1>3 DEF StreamsInv, StreamsTyped, KeptIsGood

LEMMA StoresKeep ==
  ASSUME OS!OnlineStreamsAssumption, StreamsInv, NEW c \in Viewers,
         OS!KeepHot(c) \/ OS!KeepStale(c)
  PROVE  StreamsInv'
<1>1. /\ stage[c] \in {"keep hot", "keep stale"} /\ source[c] \in Sources
      /\ Keepable(streams[c]) /\ streams[c] # <<>> /\ streams[c] \in Seq(OS!Offered)
      /\ UNCHANGED <<source, wish, streams, failed, played>>
  BY DEF StreamsInv, StreamsTyped, InHand, OS!KeepHot, OS!KeepStale, OS!callVars
<1>2. PICK at \in {"play", "keep stale"} : stage' = [stage EXCEPT ![c] = at]
  BY DEF OS!KeepHot, OS!KeepStale, OS!Goto
<1>3. streams' = [streams EXCEPT ![c] = streams[c]]
  BY <1>1 DEF StreamsInv, StreamsTyped
<1>4. /\ streams' \in [Viewers -> Seq(OS!Offered)] /\ stage' \in [Viewers -> StreamPlaces]
      /\ \A d \in Viewers : InHand(d)'
  BY <1>1, <1>2, <1>3, Gets DEF StreamPlaces
<1>5. /\ hot' \in [Sources -> Seq(OS!Offered)] /\ stale' \in [Sources -> Seq(OS!Offered)]
      /\ KeptIsGood'
  <2>1. CASE OS!KeepHot(c)
    BY <2>1, <1>1 DEF OS!KeepHot, StreamsInv, StreamsTyped, KeptIsGood
  <2>2. CASE OS!KeepStale(c)
    BY <2>2, <1>1 DEF OS!KeepStale, StreamsInv, StreamsTyped, KeptIsGood
  <2> QED
    BY <2>1, <2>2
<1> QED
  BY <1>1, <1>4, <1>5 DEF StreamsInv, StreamsTyped

LEMMA StreamsExpire == ASSUME StreamsInv, OS!Expire PROVE StreamsInv'
<1>1. UNCHANGED <<stage, source, wish, streams, failed, played>>
  BY DEF OS!Expire, OS!callVars
<1>2. /\ hot' \in [Sources -> Seq(OS!Offered)] /\ stale' \in [Sources -> Seq(OS!Offered)]
      /\ KeptIsGood'
  <2>1. <<>> \in Seq(OS!Offered) /\ Keepable(<<>>)
    BY NoStreams
  <2>2. PICK s \in Sources :
          \/ hot' = [hot EXCEPT ![s] = <<>>] /\ UNCHANGED stale
          \/ stale' = [stale EXCEPT ![s] = <<>>] /\ UNCHANGED hot
    BY DEF OS!Expire
  <2>3. CASE hot' = [hot EXCEPT ![s] = <<>>] /\ UNCHANGED stale
    BY <2>1, <2>3 DEF StreamsInv, StreamsTyped, KeptIsGood
  <2>4. CASE stale' = [stale EXCEPT ![s] = <<>>] /\ UNCHANGED hot
    BY <2>1, <2>4 DEF StreamsInv, StreamsTyped, KeptIsGood
  <2> QED
    BY <2>2, <2>3, <2>4
<1>3. \A d \in Viewers : InHand(d)'
  BY <1>1, LetAlone DEF StreamsInv
<1> QED
  BY <1>1, <1>2, <1>3 DEF StreamsInv, StreamsTyped

LEMMA TryKeeps ==
  ASSUME OS!OnlineStreamsAssumption, StreamsInv, NEW c \in Viewers, OS!TryNext(c)
        PROVE StreamsInv'
<1>1. /\ stage[c] = "play" /\ UNCHANGED <<hot, stale, source, wish>>
      /\ source[c] \in Sources /\ Keepable(streams[c]) /\ streams[c] # <<>>
      /\ failed[c] \subseteq OS!Range(OS!Candidates(c))
  BY DEF StreamsInv, InHand, OS!TryNext, OS!callVars
<1>2. CASE \E i \in OS!Left(c) : /\ failed' = [failed EXCEPT ![c] = @ \cup {OS!Candidates(c)[i]}]
                                 /\ UNCHANGED <<stage, streams, played>>
  <2>1. PICK i \in OS!Left(c) : failed' = [failed EXCEPT ![c] = @ \cup {OS!Candidates(c)[i]}]
    BY <1>2
  <2>2. OS!Candidates(c) \in [1 .. Tried(c) -> OS!Range(streams[c])] /\ i \in 1 .. Tried(c)
    BY <1>1, CandidateOrder DEF OS!Left
  <2>3. OS!Candidates(c)[i] \in OS!Range(OS!Candidates(c)) /\ OS!Candidates(c)[i] \in OS!Offered
    <3>1. OS!Candidates(c)[i] \in OS!Range(streams[c])
      BY <2>2
    <3>2. OS!Range(streams[c]) \subseteq OS!Offered
      BY <1>1 DEF Keepable, OS!Range
    <3> QED
      BY <2>2, <3>1, <3>2 DEF OS!Range
  <2>4. failed' \in [Viewers -> SUBSET OS!Offered] /\ failed'[c] = failed[c] \cup {OS!Candidates(c)[i]}
    BY <2>1, <2>3 DEF StreamsInv, StreamsTyped
  <2>5. OS!Candidates(c)' = OS!Candidates(c)
    BY <1>1, <1>2 DEF OS!Candidates
  <2>6. InHand(c)'
    BY <1>1, <1>2, <2>3, <2>4, <2>5 DEF InHand
  <2>7. ASSUME NEW d \in Viewers \ {c} PROVE InHand(d)'
    <3>1. failed'[d] = failed[d]
      BY <2>1 DEF StreamsInv, StreamsTyped
    <3> QED
      BY <1>1, <1>2, <3>1, LetAlone DEF StreamsInv
  <2> QED
    BY <1>1, <1>2, <2>4, <2>6, <2>7 DEF StreamsInv, StreamsTyped, KeptIsGood
<1>3. CASE /\ streams' = [streams EXCEPT ![c] = <<>>] /\ stage' = [stage EXCEPT ![c] = "idle"]
           /\ UNCHANGED failed /\ DOMAIN played' = Viewers
  <2>1. streams'[c] = <<>> /\ stage'[c] = "idle"
    BY <1>3 DEF StreamsInv, StreamsTyped
  <2>2. InHand(c)'
    BY <2>1, NoStreams DEF InHand
  <2>3. ASSUME NEW d \in Viewers \ {c} PROVE InHand(d)'
    BY <1>1, <1>3, LetAlone DEF StreamsInv, StreamsTyped
  <2> QED
    <3>1. streams' \in [Viewers -> Seq(OS!Offered)] /\ stage' \in [Viewers -> StreamPlaces]
      BY <1>3, NoStreams DEF StreamsInv, StreamsTyped, StreamPlaces, Keepable
    <3>2. /\ hot \in [Sources -> Seq(OS!Offered)] /\ stale \in [Sources -> Seq(OS!Offered)]
          /\ source \in [Viewers -> Sources \cup {Nothing}]
          /\ wish \in [Viewers -> Wishes \cup {Nothing}]
          /\ failed \in [Viewers -> SUBSET OS!Offered]
      BY DEF StreamsInv, StreamsTyped
    <3>3. StreamsTyped'
      BY <1>1, <1>3, <3>1, <3>2 DEF StreamsTyped
    <3>4. KeptIsGood'
      BY <1>1 DEF StreamsInv, KeptIsGood
    <3> QED
      BY <2>2, <2>3, <3>3, <3>4 DEF StreamsInv
<1> QED
  <2>1. DOMAIN played = Viewers
    BY DEF StreamsInv, StreamsTyped
  <2> QED
    BY <1>2, <1>3, <2>1 DEF OS!TryNext, OS!Play, OS!Goto

LEMMA NextStreams == ASSUME OS!OnlineStreamsAssumption, StreamsInv, [OS!Next]_(OS!vars)
  PROVE StreamsInv'
<1>1. CASE UNCHANGED OS!vars
  <2>1. \A d \in Viewers : InHand(d)'
    BY <1>1, LetAlone DEF StreamsInv, OS!vars, OS!callVars
  <2> QED
    BY <1>1, <2>1 DEF StreamsInv, StreamsTyped, KeptIsGood, OS!vars, OS!callVars
<1>2. CASE OS!Next
  BY <1>2, OpenKeeps, FindsKeep, StoresKeep, TryKeeps, StreamsExpire DEF OS!Next, OS!Step
<1> QED
  BY <1>1, <1>2

LEMMA StreamsInvariant == ASSUME OS!OnlineStreamsAssumption PROVE OS!Spec => []StreamsInv
  BY InitStreams, NextStreams, PTL DEF OS!Spec

----------------------------------------------------------------------------
\* What c opens, where it goes by its candidates: the one that comes before
\* the others it has not tried, or, all having failed, the first.
LEMMA ChosenIsBest ==
  ASSUME OS!OnlineStreamsAssumption, StreamsInv, NEW c \in Viewers, stage[c] = "play",
         NEW k \in 1 .. Tried(c),
         \/ k \in OS!Left(c) /\ \A j \in OS!Left(c) \ {k} : OS!Earlier(c, k, j)
         \/ OS!Left(c) = {} /\ k = 1
  PROVE  LET chosen == OS!Candidates(c)[k]
         IN  /\ chosen.direct
             /\ \A s \in OS!Range(streams[c]) :
                  OS!Better(s, chosen, wish[c]) =>
                    \/ s \in failed[c]
                    \/ source[c] \in Probed /\ way[c] = "integrated" /\ chosen.hls /\ ~s.hls
             /\ chosen \in failed[c] =>
                  /\ Cardinality(failed[c]) \in {Len(streams[c]), Limit}
                  /\ \A s \in OS!Range(streams[c]) : ~OS!Better(s, chosen, wish[c])
<1> DEFINE m == Tried(c)
           f == OS!Candidates(c)
<1>1. Keepable(streams[c]) /\ failed[c] \subseteq OS!Range(f)
  BY DEF StreamsInv, InHand
<1>2. /\ m \in Nat
      /\ f \in [1 .. m -> OS!Range(streams[c])]
      /\ \A i, j \in 1 .. m : i < j => ~OS!Better(f[j], f[i], wish[c])
      /\ \A s \in OS!Range(streams[c]) :
           (\E i \in 1 .. m : s = f[i]) \/ \A i \in 1 .. m : ~OS!Better(s, f[i], wish[c])
  BY <1>1, CandidateOrder
<1>3. OS!Left(c) = {i \in 1 .. m : f[i] \notin failed[c]}
  BY <1>2 DEF OS!Left
<1>4. Cardinality(OS!Range(f)) \in {Len(streams[c]), Limit}
  BY <1>1, CandidateCount DEF Tried
<1>5. \A i, j : OS!Earlier(c, i, j) =>
        \/ source[c] \in Probed /\ way[c] = "integrated" /\ f[i].hls /\ ~f[j].hls
        \/ i < j
  BY DEF OS!Earlier, OS!Probes
<1> HIDE DEF m, f
<1>6. f[k].direct
  <2>1. f[k] \in OS!Range(streams[c])
    BY <1>2 DEF m
  <2> QED
    BY <1>1, <2>1 DEF Keepable, OS!Range
<1>7. CASE k \in OS!Left(c) /\ \A j \in OS!Left(c) \ {k} : OS!Earlier(c, k, j)
  <2>1. f[k] \notin failed[c]
    BY <1>3, <1>7
  <2>2. ASSUME NEW s \in OS!Range(streams[c]), OS!Better(s, f[k], wish[c]),
                 s \notin failed[c]
        PROVE  source[c] \in Probed /\ way[c] = "integrated" /\ f[k].hls /\ ~s.hls
    <3>1. PICK j \in 1 .. m : s = f[j]
      BY <1>2, <2>2 DEF m
    <3>2. j \in OS!Left(c) /\ j # k
      BY <1>3, <2>2, <3>1, WeakOrder
    <3>3. ~(k < j)
      BY <1>2, <2>2, <3>1 DEF m
    <3> QED
      BY <1>5, <1>7, <3>1, <3>2, <3>3
  <2> QED
    BY <1>6, <2>1, <2>2 DEF f
<1>8. CASE OS!Left(c) = {} /\ k = 1
  <2>1. \A i \in 1 .. m : f[i] \in failed[c]
    BY <1>3, <1>8
  <2>2. failed[c] = OS!Range(f)
    BY <1>1, <1>2, <2>1 DEF OS!Range, f
  <2>3. ASSUME NEW s \in OS!Range(streams[c]) PROVE ~OS!Better(s, f[k], wish[c])
    <3>1. CASE \E i \in 1 .. m : s = f[i]
      BY <1>2, <1>8, <3>1, WeakOrder DEF m
    <3> QED
      BY <1>2, <3>1 DEF m
  <2> QED
    BY <1>4, <1>6, <2>2, <2>3 DEF f
<1> QED
  BY <1>7, <1>8

\* openOnlineEpisodeWithCandidates, chooseIntegratedPlaybackStreamSource.
THEOREM BestIsPlayedHolds ==
  ASSUME OS!OnlineStreamsAssumption
  PROVE  OS!Spec => BestIsPlayed
<1> DEFINE Best(c) ==
      stage[c] = "play" /\ played'[c] # played[c] =>
         LET chosen == played'[c]
         IN  /\ chosen.direct
             /\ \A s \in OS!Range(streams[c]) :
                  OS!Better(s, chosen, wish[c]) =>
                    \/ s \in failed[c]
                    \/ source[c] \in Probed /\ way[c] = "integrated" /\ chosen.hls /\ ~s.hls
             /\ chosen \in failed[c] =>
                  /\ OS!Cardinality(failed[c]) \in {Len(streams[c]), Limit}
                  /\ \A s \in OS!Range(streams[c]) : ~OS!Better(s, chosen, wish[c])
<1>1. ASSUME StreamsInv, [OS!Next]_(OS!vars), NEW c \in Viewers PROVE Best(c)
  <2> SUFFICES ASSUME stage[c] = "play", played'[c] # played[c] PROVE Best(c)
    OBVIOUS
  <2>1. OS!TryNext(c)
    <3>1. ~UNCHANGED OS!vars /\ ~OS!Expire
      BY DEF OS!vars, OS!Expire
    <3>2. ASSUME NEW d \in Viewers, OS!Open(d) PROVE d # c /\ played'[c] = played[c]
      BY <3>2 DEF OS!Open, StreamsInv, StreamsTyped
    <3>3. ASSUME NEW d \in Viewers, OS!Step(d), ~OS!TryNext(d) PROVE UNCHANGED played
      BY <3>3 DEF OS!Step, OS!ReadHot, OS!GetStreamSources, OS!KeepHot, OS!KeepStale,
           OS!FallBack
    <3>4. ASSUME NEW d \in Viewers \ {c}, OS!TryNext(d) PROVE played'[c] = played[c]
      <4>1. DOMAIN played = Viewers
        BY <1>1 DEF StreamsInv, StreamsTyped
      <4>2. UNCHANGED played \/ \E s : played' = [played EXCEPT ![d] = s]
        BY <3>4 DEF OS!TryNext, OS!Play
      <4> QED
        BY <4>1, <4>2
    <3> QED
      BY <1>1, <3>1, <3>2, <3>3, <3>4 DEF OS!Next, OS!Step
  <2>2. Keepable(streams[c]) /\ streams[c] # <<>>
    BY <1>1 DEF StreamsInv, InHand
  <2>3. Tried(c) \in Nat /\ 1 \in 1 .. Tried(c)
    <3>1. Len(streams[c]) \in Nat /\ Len(streams[c]) # 0
      BY <2>2 DEF Keepable
    <3>2. Limit \in Nat \ {0}
      BY DEF OS!OnlineStreamsAssumption
    <3> QED
      BY <3>1, <3>2 DEF Tried
  <2>4. OS!Left(c) \subseteq 1 .. Tried(c)
    BY <2>2, CandidateOrder DEF OS!Left
  <2>5. PICK k \in 1 .. Tried(c) :
          /\ \/ k \in OS!Left(c) /\ \A j \in OS!Left(c) \ {k} : OS!Earlier(c, k, j)
             \/ OS!Left(c) = {} /\ k = 1
          /\ played'[c] = OS!Candidates(c)[k]
    BY <1>1, <2>1, <2>3, <2>4 DEF OS!TryNext, OS!Play, StreamsInv, StreamsTyped
  <2> QED
    BY <1>1, <2>5, ChosenIsBest, SameCardinality
<1>2. StreamsInv /\ [OS!Next]_(OS!vars) => \A c \in Viewers : Best(c)
  BY <1>1
<1>3. OS!Spec => [][\A c \in Viewers : Best(c)]_(OS!vars)
  BY <1>2, StreamsInvariant, PTL DEF OS!Spec
<1> QED
  BY <1>3 DEF BestIsPlayed, OS!BestIsPlayed

----------------------------------------------------------------------------
(* The state of every part is well formed: of a key, of the identities of manga and
   of the streams of episodes. *)
THEOREM RuntimeTypeCorrect ==
  ASSUME RuntimeAssumption
  PROVE  /\ SN!Spec => []SN!TypeOK
         /\ MI!Spec => []MI!TypeOK
         /\ OS!Spec => []OS!TypeOK
<1> USE DEF RuntimeAssumption
<1>1. SN!Spec => []SN!TypeOK
  <2>1. KeyInv => SN!TypeOK
    BY DEF KeyInv, KeyTyped, KeyJob, Values, SN!TypeOK
  <2> QED
    BY <2>1, KeyInvariant, PTL
<1>2. MI!Spec => []MI!TypeOK
  <2>1. MangaInv => MI!TypeOK
    BY DEF MangaInv, MangaTyped, Currents, MI!TypeOK, MI!MangaIdentityAssumption
  <2>2. MI!Init => MangaInv
    BY InitManga
  <2>3. MangaInv /\ [MI!Next]_(MI!vars) => MangaInv'
    BY NextManga
  <2> QED
    BY <2>1, <2>2, <2>3, PTL DEF MI!Spec
<1>3. OS!Spec => []OS!TypeOK
  <2>1. StreamsInv => OS!TypeOK
    BY DEF StreamsInv, StreamsTyped, StreamPlaces, OS!TypeOK
  <2> QED
    BY <2>1, StreamsInvariant, PTL
<1> QED
  BY <1>1, <1>2, <1>3
=============================================================================
