--------------------------- MODULE StreamsProofs ---------------------------
(***************************************************************************)
(* What stands between an episode and its streams, for any pages, embeds,  *)
(* servers, ranks and bounds: a chase ends behind the embed it began at, a *)
(* source fails only when it has tried what it may, and what it chooses    *)
(* among is complete.                                                      *)
(***************************************************************************)
EXTENDS Streams, Naturals, Sequences, FiniteSetTheorems, SequenceTheorems,
        WellFoundedInduction, TLAPS

----------------------------------------------------------------------------
(* Resolvers: a chase of pages. *)
\* The size of a set is the same, seen from here.
LEMMA SameSize == \A S : RS!Cardinality(S) = Cardinality(S) /\ Kai!Cardinality(S) = Cardinality(S)
  BY DEF RS!Cardinality, Kai!Cardinality, Cardinality

Steps == 0 .. RS!MaxDepth

\* A chase that came so far may still come so far.
LEMMA FurtherKeeps == \A S : S \subseteq RS!Further(S)
  BY DEF RS!Further

LEMMA WithinStep ==
  ASSUME NEW n \in 0 .. 3, NEW u
  PROVE  RS!Within(n + 1, u) = RS!Further(RS!Within(n, u))
  <1>1. CASE n = 0  BY <1>1 DEF RS!Within
  <1>2. CASE n = 1  BY <1>2 DEF RS!Within
  <1>3. CASE n = 2  BY <1>3 DEF RS!Within
  <1>4. CASE n = 3  BY <1>4 DEF RS!Within
  <1> QED  BY <1>1, <1>2, <1>3, <1>4

LEMMA WithinGrows ==
  ASSUME NEW n \in Steps, NEW u
  PROVE  RS!Within(n, u) \subseteq RS!Within(RS!MaxDepth, u)
  <1>1. RS!Within(3, u) \subseteq RS!Within(4, u)
    <2>1. 3 \in 0 .. 3 /\ 3 + 1 = 4  OBVIOUS
    <2> QED  BY <2>1, WithinStep, FurtherKeeps
  <1>2. RS!Within(2, u) \subseteq RS!Within(3, u)
    <2>1. 2 \in 0 .. 3 /\ 2 + 1 = 3  OBVIOUS
    <2> QED  BY <2>1, WithinStep, FurtherKeeps
  <1>3. RS!Within(1, u) \subseteq RS!Within(2, u)
    <2>1. 1 \in 0 .. 3 /\ 1 + 1 = 2  OBVIOUS
    <2> QED  BY <2>1, WithinStep, FurtherKeeps
  <1>4. RS!Within(0, u) \subseteq RS!Within(1, u)
    <2>1. 0 \in 0 .. 3 /\ 0 + 1 = 1  OBVIOUS
    <2> QED  BY <2>1, WithinStep, FurtherKeeps
  <1>5. n \in {0, 1, 2, 3, 4}  BY DEF Steps, RS!MaxDepth
  <1> QED  BY <1>1, <1>2, <1>3, <1>4, <1>5 DEF RS!MaxDepth

LEMMA WithinSelf ==
  ASSUME NEW u
  PROVE  u \in RS!Within(0, u) /\ u \in RS!Within(RS!MaxDepth, u)
  <1>1. u \in RS!Within(0, u)  BY DEF RS!Within
  <1>2. 0 \in Steps  BY DEF Steps, RS!MaxDepth
  <1> QED  BY <1>1, <1>2, WithinGrows

LEMMA WithinNext ==
  ASSUME NEW n \in 0 .. 3, NEW u, NEW v \in RS!Within(n, u), NEW w \in RS!Beyond(v)
  PROVE  w \in RS!Within(n + 1, u) /\ w \in RS!Within(RS!MaxDepth, u)
  <1>1. w \in RS!Further(RS!Within(n, u))  BY DEF RS!Further
  <1>2. w \in RS!Within(n + 1, u)  BY <1>1, WithinStep
  <1>3. n + 1 \in Steps  BY DEF Steps, RS!MaxDepth
  <1> QED  BY <1>2, <1>3, WithinGrows

----------------------------------------------------------------------------
\* How far the chase of a task is from its embed.
Distance(t) == IF chasePc[t] = "chase" THEN Cardinality(chased[t]) ELSE Cardinality(chased[t]) - 1

Chases ==
  \A t \in Playing :
    /\ IsFiniteSet(chased[t])
    /\ chasePc[t] = "chase" =>
         /\ Cardinality(chased[t]) \in 0 .. 4
         /\ current[t] \in RS!Within(Cardinality(chased[t]), embed[t])
    /\ chasePc[t] \in {"resolve", "capture", "browser"} =>
         /\ Cardinality(chased[t]) \in 1 .. 4
         /\ current[t] \in RS!Within(Cardinality(chased[t]) - 1, embed[t])
         /\ ~RS!LooksLikePlayableURL(current[t])
    /\ chasePc[t] = "idle" => chased[t] = {} /\ current[t] = embed[t]

RsInv == RS!TypeOK /\ Chases /\ RS!AnswersAreBehind

LEMMA RsInvInit == RS!ResolversAssumption /\ RS!Init => RsInv
  <1> SUFFICES ASSUME RS!ResolversAssumption, RS!Init  PROVE RsInv
    OBVIOUS
  <1>1. RS!TypeOK  BY DEF RS!ResolversAssumption, RS!Init, RS!TypeOK
  <1>2. Chases  BY FS_EmptySet DEF RS!Init, Chases, RS!Chasers
  <1>3. RS!AnswersAreBehind  BY DEF RS!ResolversAssumption, RS!Init, RS!AnswersAreBehind,
          RS!Chasers
  <1> QED  BY <1>1, <1>2, <1>3 DEF RsInv

\* What Found is given stands behind the page.
LEMMA MatchesAreBehind ==
  ASSUME RS!ResolversAssumption, NEW u \in Urls, NEW k \in RS!Matches(u)
  PROVE  PageShows[u][k] \in Urls \cap RS!Behind(u)
  <1>1. PageShows[u] \in Seq(Urls \cup {Absent})  BY DEF RS!ResolversAssumption
  <1>2. k \in DOMAIN PageShows[u] /\ PageShows[u][k] # Absent  BY DEF RS!Matches
  <1> QED  BY <1>1, <1>2 DEF RS!Behind

LEMMA InSequence ==
  ASSUME NEW S, NEW s \in Seq(S), NEW k \in DOMAIN s
  PROVE  s[k] \in S
  OBVIOUS

LEMMA VideosAreBehind ==
  ASSUME RS!ResolversAssumption, NEW u \in Urls, NEW k \in DOMAIN PageVideos[u]
  PROVE  PageVideos[u][k].url \in Urls \cap RS!Behind(u)
  <1> DEFINE R == [size : 1 .. 4, url : Urls]
  <1>1. PageVideos[u] \in Seq(R)  BY DEF RS!ResolversAssumption
  <1>2. PageVideos[u][k] \in R
    <2> HIDE DEF R
    <2> QED  BY <1>1, InSequence
  <1> QED  BY <1>2 DEF RS!Behind

\* The invariant is kept by a step that changes nothing but the task t.
LEMMA FoundKeeps ==
  ASSUME RS!ResolversAssumption, RsInv, NEW t \in RS!Chasers, NEW u \in Urls,
         u \in RS!Behind(current[t]), chasePc[t] \in {"resolve", "capture", "browser"},
         RS!Found(t, u)
  PROVE  RsInv'
  <1> DEFINE d == Cardinality(chased[t]) - 1
  <1>1. RS!TypeOK  BY DEF RsInv
  <1>2. ASSUME t \in Playing
        PROVE  /\ d \in 0 .. 3 /\ d + 1 = Cardinality(chased[t])
               /\ u \in RS!Within(RS!MaxDepth, embed[t]) /\ u \in RS!Within(d + 1, embed[t])
               /\ \A w \in {u} \cap Trackers : Wraps[w] # Absent =>
                    Wraps[w] \in RS!Within(d + 1, embed[t]) /\ Wraps[w] \in Urls
    <2>1. /\ Cardinality(chased[t]) \in 1 .. 4 /\ current[t] \in RS!Within(d, embed[t])
          /\ ~RS!LooksLikePlayableURL(current[t])
      BY <1>2 DEF RsInv, Chases
    <2>2. d \in 0 .. 3 /\ d + 1 = Cardinality(chased[t])  BY <2>1
    <2>3. u \in RS!Beyond(current[t])  BY <2>1 DEF RS!Beyond
    <2>4. ASSUME NEW w \in {u} \cap Trackers, Wraps[w] # Absent
          PROVE  Wraps[w] \in RS!Beyond(current[t]) /\ Wraps[w] \in Urls
      BY <2>1, <2>4 DEF RS!Beyond, RS!ResolversAssumption
    <2>5. d \in 0 .. 3 /\ current[t] \in RS!Within(d, embed[t])  BY <2>1, <2>2
    <2>6. u \in RS!Within(d + 1, embed[t]) /\ u \in RS!Within(RS!MaxDepth, embed[t])
      BY <2>5, <2>3, WithinNext
    <2>7. \A w \in {u} \cap Trackers : Wraps[w] # Absent =>
            Wraps[w] \in RS!Within(d + 1, embed[t]) /\ Wraps[w] \in Urls
      BY <2>5, <2>4, WithinNext
    <2> QED  BY <2>2, <2>6, <2>7
  <1>3. UNCHANGED <<embed, chased>>  BY DEF RS!Found
  <1>4. CASE t \in Resolving
    <2>0. t \notin Playing  BY <1>4 DEF RS!ResolversAssumption
    <2>1. UNCHANGED <<cached, current>> /\ RS!Return(t, u)  BY <2>0, <1>4 DEF RS!Found
    <2>2. RS!TypeOK'  BY <1>1, <1>3, <2>1 DEF RS!TypeOK, RS!Return
    <2>3. Chases'
      BY <1>1, <1>3, <2>0, <2>1 DEF RsInv, Chases, RS!TypeOK, RS!Return, RS!Chasers
    <2>4. RS!AnswersAreBehind'
      BY <1>1, <1>3, <2>0, <2>1 DEF RsInv, RS!AnswersAreBehind, RS!TypeOK, RS!Return,
           RS!Chasers
    <2> QED  BY <2>2, <2>3, <2>4 DEF RsInv
  <1>5. ASSUME t \in Playing, NEW v \in Urls, v \in RS!Within(d + 1, embed[t]),
               current' = [current EXCEPT ![t] = v], RS!Goto(t, "chase"), UNCHANGED cached
        PROVE  RsInv'
    <2>1. RS!TypeOK'  BY <1>1, <1>3, <1>5 DEF RS!TypeOK, RS!Goto
    <2>2. d + 1 = Cardinality(chased[t]) /\ Cardinality(chased[t]) \in 0 .. 4  BY <1>2, <1>5
    <2>3. Chases'
      BY <1>1, <1>3, <1>5, <2>2 DEF RsInv, Chases, RS!TypeOK, RS!Goto, RS!Chasers
    <2>4. RS!AnswersAreBehind'
      BY <1>1, <1>3, <1>5 DEF RsInv, RS!AnswersAreBehind, RS!TypeOK, RS!Goto, RS!Chasers
    <2> QED  BY <2>1, <2>3, <2>4 DEF RsInv
  <1>6. ASSUME t \in Playing, NEW a \in Urls \cup {"error"}, RS!Return(t, a),
                 UNCHANGED current,
               \/ UNCHANGED cached
               \/ a \in Urls /\ RS!LooksLikePlayableURL(a) /\ RS!Store(embed[t], a)
               \/ RS!Store(embed[t], "failed"),
               a \in Urls
                   => a \in RS!Within(RS!MaxDepth, embed[t]) /\ RS!LooksLikePlayableURL(a)
        PROVE  RsInv'
    <2>a. cached' \in [Urls -> Urls \cup {Absent, "failed"}]
      <3>1. cached \in [Urls -> Urls \cup {Absent, "failed"}]  BY <1>1 DEF RS!TypeOK
      <3>2. UNCHANGED cached => cached' \in [Urls -> Urls \cup {Absent, "failed"}]
        BY <3>1
      <3>3. ASSUME NEW x \in Urls \cup {"failed"}, RS!Store(embed[t], x)
            PROVE  cached' \in [Urls -> Urls \cup {Absent, "failed"}]
        BY <3>1, <3>3 DEF RS!Store
      <3> QED  BY <1>6, <3>2, <3>3
    <2>b. chaseAnswer' \in [RS!Chasers -> Urls \cup {Absent, "error"}]  BY <1>1,
         <1>6 DEF RS!TypeOK, RS!Return
    <2>1. RS!TypeOK'  BY <1>1, <1>3, <1>6, <2>a, <2>b DEF RS!TypeOK, RS!Return
    <2>2. Chases'
      BY <1>1, <1>3, <1>6 DEF RsInv, Chases, RS!TypeOK, RS!Return, RS!Chasers
    <2>3. "error" \notin Urls /\ "failed" \notin Urls  BY DEF RS!ResolversAssumption
    <2>4. \A x \in Playing : chaseAnswer'[x] \in Urls =>
            chaseAnswer'[x] \in RS!Within(RS!MaxDepth,
                embed[x]) /\ RS!LooksLikePlayableURL(chaseAnswer'[x])
      BY <1>1, <1>6, <2>3 DEF RsInv, RS!AnswersAreBehind, RS!TypeOK, RS!Return, RS!Chasers
    <2>5. \A x \in Urls : cached'[x] \in Urls =>
            cached'[x] \in RS!Within(RS!MaxDepth, x) /\ RS!LooksLikePlayableURL(cached'[x])
      BY <1>1, <1>6, <2>3 DEF RsInv, RS!AnswersAreBehind, RS!TypeOK, RS!Store
    <2>6. RS!AnswersAreBehind'
      BY <1>3, <2>4, <2>5 DEF RS!AnswersAreBehind
    <2> QED  BY <2>1, <2>2, <2>6 DEF RsInv
  <1>7. CASE t \in Playing
    <2>1. CASE u \in Trackers /\ Wraps[u] # Absent
      <3>1. RS!LooksLikePlayableURL(u) = FALSE /\ u \notin KnownPages /\ u \notin Junk
        BY <2>1 DEF RS!LooksLikePlayableURL, RS!ResolversAssumption
      <3>2. t \notin Resolving  BY <1>7 DEF RS!ResolversAssumption
      <3>3. /\ current' = [current EXCEPT ![t] = Wraps[u]] /\ RS!Goto(t, "chase")
            /\ UNCHANGED cached
        BY <2>1, <3>1, <3>2 DEF RS!Found
      <3>4. Wraps[u] \in Urls /\ Wraps[u] \in RS!Within(d + 1, embed[t])
        BY <1>2, <1>7, <2>1
      <3> QED  BY <3>3, <3>4, <1>5, <1>7
    <2>2. CASE u \in Trackers /\ Wraps[u] = Absent
      <3>1. RS!LooksLikePlayableURL(u) = FALSE /\ u \notin KnownPages /\ u \notin Junk
        BY <2>2 DEF RS!LooksLikePlayableURL, RS!ResolversAssumption
      <3>2. t \notin Resolving  BY <1>7 DEF RS!ResolversAssumption
      <3>3. RS!Return(t, "error") /\ UNCHANGED cached /\ UNCHANGED current
        BY <2>2, <3>1, <3>2 DEF RS!Found
      <3>4. "error" \notin Urls  BY DEF RS!ResolversAssumption
      <3> QED  BY <3>3, <3>4, <1>6, <1>7
    <2>3. CASE u \notin Trackers /\ u \in KnownPages
      <3>1. RS!LooksLikePlayableURL(u) = FALSE /\ u \notin Junk
        BY <2>3 DEF RS!LooksLikePlayableURL, RS!ResolversAssumption
      <3>2. t \notin Resolving  BY <1>7 DEF RS!ResolversAssumption
      <3>3. /\ current' = [current EXCEPT ![t] = u] /\ RS!Goto(t, "chase")
            /\ UNCHANGED cached
        BY <2>3, <3>1, <3>2 DEF RS!Found
      <3> QED  BY <3>3, <1>5, <1>7, <1>2
    <2>4. CASE u \notin Trackers /\ u \in Junk
      <3>1. RS!LooksLikePlayableURL(u) = FALSE /\ u \notin KnownPages
        BY <2>4 DEF RS!LooksLikePlayableURL, RS!ResolversAssumption
      <3>2. t \notin Resolving  BY <1>7 DEF RS!ResolversAssumption
      <3>3. RS!Store(embed[t], "failed") /\ RS!Return(t, "error") /\ UNCHANGED current
        BY <2>4, <3>1, <3>2 DEF RS!Found
      <3>4. "error" \notin Urls  BY DEF RS!ResolversAssumption
      <3> QED  BY <3>3, <3>4, <1>6, <1>7
    <2>5. CASE RS!LooksLikePlayableURL(u)
      <3>1. u \notin Trackers /\ u \notin KnownPages /\ u \notin Junk
        BY <2>5 DEF RS!LooksLikePlayableURL
      <3>2. t \notin Resolving  BY <1>7 DEF RS!ResolversAssumption
      <3>3. RS!Store(embed[t], u) /\ RS!Return(t, u) /\ UNCHANGED current
        BY <2>5, <3>1, <3>2 DEF RS!Found
      <3> QED  BY <2>5, <3>3, <1>2, <1>6, <1>7
    <2> QED  BY <2>1, <2>2, <2>3, <2>4, <2>5 DEF RS!LooksLikePlayableURL
  <1> QED  BY <1>4, <1>7 DEF RS!Chasers

LEMMA MissedKeeps ==
  ASSUME RS!ResolversAssumption, RsInv, NEW t \in RS!Chasers,
         chasePc[t] \in {"resolve", "capture", "browser"}, RS!Missed(t)
  PROVE  RsInv'
  <1>1. RS!TypeOK /\ UNCHANGED <<embed, current, chased>>  BY DEF RsInv, RS!Missed
  <1>2. "error" \notin Urls /\ "failed" \notin Urls  BY DEF RS!ResolversAssumption
  <1>3. CASE t \in Playing /\ chasePc[t] # "browser" /\ RS!Goto(t,
               "browser") /\ UNCHANGED cached
    <2>1. RS!TypeOK'  BY <1>1, <1>3 DEF RS!TypeOK, RS!Goto
    <2>2. Chases'  BY <1>1, <1>3 DEF RsInv, Chases, RS!TypeOK, RS!Goto, RS!Chasers
    <2>3. RS!AnswersAreBehind'  BY <1>1, <1>3 DEF RsInv, RS!AnswersAreBehind, RS!Goto
    <2> QED  BY <2>1, <2>2, <2>3 DEF RsInv
  <1>4. CASE RS!Return(t, "error") /\ (UNCHANGED cached \/ RS!Store(embed[t], "failed"))
    <2>1. RS!TypeOK'  BY <1>1, <1>4 DEF RS!TypeOK, RS!Return, RS!Store
    <2>2. Chases'  BY <1>1, <1>4 DEF RsInv, Chases, RS!TypeOK, RS!Return, RS!Chasers
    <2>3. RS!AnswersAreBehind'
      <3>1. \A x \in Playing : chaseAnswer'[x] \in Urls => chaseAnswer'[x] = chaseAnswer[x]
        BY <1>1, <1>2, <1>4 DEF RS!TypeOK, RS!Return, RS!Chasers
      <3>2. \A x \in Urls : cached'[x] \in Urls => cached'[x] = cached[x]
        BY <1>1, <1>2, <1>4 DEF RS!TypeOK, RS!Store
      <3> QED  BY <1>1, <3>1, <3>2 DEF RsInv, RS!AnswersAreBehind
    <2> QED  BY <2>1, <2>2, <2>3 DEF RsInv
  <1> QED  BY <1>3, <1>4 DEF RS!Missed

LEMMA LookupKeeps ==
  ASSUME RS!ResolversAssumption, RsInv, NEW t \in Playing, RS!Lookup(t)
  PROVE  RsInv'
  <1>1. RS!TypeOK /\ t \in RS!Chasers /\ chasePc[t] = "idle"  BY DEF RsInv, RS!Lookup,
          RS!Chasers
  <1>2. UNCHANGED <<embed, cached, current, chased>>  BY DEF RS!Lookup
  <1>3. embed[t] \in Urls  BY <1>1 DEF RS!TypeOK
  <1>4. CASE cached[embed[t]] \in Urls
    <2>1. RS!Return(t, cached[embed[t]])  BY <1>4 DEF RS!Lookup
    <2>2. RS!TypeOK'  BY <1>1, <1>2, <1>4, <2>1 DEF RS!TypeOK, RS!Return
    <2>3. Chases'  BY <1>1, <1>2, <2>1 DEF RsInv, Chases, RS!TypeOK, RS!Return, RS!Chasers
    <2>4. /\ cached[embed[t]] \in RS!Within(RS!MaxDepth, embed[t])
          /\ RS!LooksLikePlayableURL(cached[embed[t]])
      BY <1>3, <1>4 DEF RsInv, RS!AnswersAreBehind
    <2>5. RS!AnswersAreBehind'
      BY <1>1, <1>2, <2>1, <2>4 DEF RsInv, RS!AnswersAreBehind, RS!TypeOK, RS!Return,
           RS!Chasers
    <2> QED  BY <2>2, <2>3, <2>5 DEF RsInv
  <1>5. CASE cached[embed[t]] \notin Urls
    <2>1. RS!Goto(t, "chase")  BY <1>5 DEF RS!Lookup
    <2>2. RS!TypeOK'  BY <1>1, <1>2, <2>1 DEF RS!TypeOK, RS!Goto
    <2>3. chased[t] = {} /\ current[t] = embed[t]  BY <1>1 DEF RsInv, Chases
    <2>4. Cardinality(chased[t]) = 0 /\ current[t] \in RS!Within(0, embed[t])
      BY <2>3, FS_EmptySet, WithinSelf
    <2>5. Chases'  BY <1>1, <1>2, <2>1, <2>4 DEF RsInv, Chases, RS!TypeOK, RS!Goto, RS!Chasers
    <2>6. RS!AnswersAreBehind'  BY <1>2, <2>1 DEF RsInv, RS!AnswersAreBehind, RS!Goto
    <2> QED  BY <2>2, <2>5, <2>6 DEF RsInv
  <1> QED  BY <1>4, <1>5

LEMMA ArriveKeeps ==
  ASSUME RS!ResolversAssumption, RsInv, NEW t \in Playing, RS!Arrive(t)
  PROVE  RsInv'
  <1>1. RS!TypeOK /\ t \in RS!Chasers /\ chasePc[t] = "chase"  BY DEF RsInv, RS!Arrive,
          RS!Chasers
  <1>2. UNCHANGED <<embed, current>>  BY DEF RS!Arrive
  <1>3. embed[t] \in Urls /\ current[t] \in Urls  BY <1>1 DEF RS!TypeOK
  <1>4. "error" \notin Urls /\ "failed" \notin Urls  BY DEF RS!ResolversAssumption
  <1>5. /\ IsFiniteSet(chased[t]) /\ Cardinality(chased[t]) \in 0 .. 4
        /\ current[t] \in RS!Within(Cardinality(chased[t]), embed[t])
    BY <1>1 DEF RsInv, Chases
  <1>6. CASE /\ RS!Return(t, "error") /\ UNCHANGED chased
             /\ UNCHANGED cached \/ RS!Store(embed[t], "failed")
    <2>1. RS!TypeOK'  BY <1>1, <1>2, <1>6 DEF RS!TypeOK, RS!Return, RS!Store
    <2>2. Chases'  BY <1>1, <1>2, <1>6 DEF RsInv, Chases, RS!TypeOK, RS!Return, RS!Chasers
    <2>3. \A x \in Playing : chaseAnswer'[x] \in Urls => chaseAnswer'[x] = chaseAnswer[x]
      BY <1>1, <1>4, <1>6 DEF RS!TypeOK, RS!Return, RS!Chasers
    <2>4. \A x \in Urls : cached'[x] \in Urls => cached'[x] = cached[x]
      BY <1>1, <1>4, <1>6 DEF RS!TypeOK, RS!Store
    <2>5. RS!AnswersAreBehind'  BY <1>2, <2>3, <2>4 DEF RsInv, RS!AnswersAreBehind
    <2> QED  BY <2>1, <2>2, <2>5 DEF RsInv
  <1>7. CASE /\ Cardinality(chased[t]) < RS!MaxDepth /\ current[t] \notin chased[t]
             /\ chased' = [chased EXCEPT ![t] = @ \cup {current[t]}]
             /\ IF RS!LooksLikePlayableURL(current[t])
                THEN RS!Store(current[t], current[t]) /\ RS!Return(t, current[t])
                ELSE RS!Goto(t, "resolve") /\ UNCHANGED cached
    <2>1. chased'[t] = chased[t] \cup {current[t]} /\ \A x \in RS!Chasers \ {t} : chased'[x] = chased[x]
      BY <1>1, <1>7 DEF RS!TypeOK
    <2>a. /\ IsFiniteSet(chased[t] \cup {current[t]})
          /\ Cardinality(chased[t] \cup {current[t]}) = Cardinality(chased[t]) + 1
      BY <1>5, <1>7, FS_AddElement
    <2>2. /\ IsFiniteSet(chased'[t])
          /\ Cardinality(chased'[t]) = Cardinality(chased[t]) + 1
      BY <2>1, <2>a
    <2>3. Cardinality(chased[t]) \in 0 .. 3  BY <1>5, <1>7 DEF RS!MaxDepth
    <2>4. current[t] \in RS!Within(RS!MaxDepth, embed[t])
      BY <1>5, <2>3, WithinGrows DEF Steps, RS!MaxDepth
    <2>5. CASE RS!LooksLikePlayableURL(current[t])
      <3>1. RS!Store(current[t], current[t]) /\ RS!Return(t, current[t])  BY <1>7, <2>5
      <3>2. RS!TypeOK'
        <4>1. chased' \in [RS!Chasers -> SUBSET Urls]  BY <1>1, <1>3, <1>7 DEF RS!TypeOK
        <4> QED  BY <1>1, <1>2, <1>3, <3>1, <4>1 DEF RS!TypeOK, RS!Return, RS!Store
      <3>3. Chases'  BY <1>1, <1>2, <2>1, <2>2, <3>1 DEF RsInv, Chases, RS!TypeOK,
              RS!Return, RS!Chasers
      <3>4. \A x \in Playing : chaseAnswer'[x] \in Urls =>
              chaseAnswer'[x] \in RS!Within(RS!MaxDepth,
                  embed[x]) /\ RS!LooksLikePlayableURL(chaseAnswer'[x])
        BY <1>1, <2>4, <2>5, <3>1 DEF RsInv, RS!AnswersAreBehind, RS!TypeOK, RS!Return,
             RS!Chasers
      <3>5. \A x \in Urls : cached'[x] \in Urls =>
              cached'[x] \in RS!Within(RS!MaxDepth,
                  x) /\ RS!LooksLikePlayableURL(cached'[x])
        BY <1>1, <1>3, <2>5, <3>1, WithinSelf DEF RsInv, RS!AnswersAreBehind, RS!TypeOK,
             RS!Store
      <3>6. RS!AnswersAreBehind'  BY <1>2, <3>4, <3>5 DEF RS!AnswersAreBehind
      <3> QED  BY <3>2, <3>3, <3>6 DEF RsInv
    <2>6. CASE ~RS!LooksLikePlayableURL(current[t])
      <3>1. RS!Goto(t, "resolve") /\ UNCHANGED cached  BY <1>7, <2>6
      <3>2. RS!TypeOK'
        <4>1. chased' \in [RS!Chasers -> SUBSET Urls]  BY <1>1, <1>3, <1>7 DEF RS!TypeOK
        <4> QED  BY <1>1, <1>2, <3>1, <4>1 DEF RS!TypeOK, RS!Goto
      <3>3. /\ Cardinality(chased'[t]) \in 1 .. 4
            /\ Cardinality(chased'[t]) - 1 = Cardinality(chased[t])
        BY <2>2, <2>3
      <3>4. Chases'
        BY <1>1, <1>2, <1>5, <2>1, <2>2, <2>6, <3>1, <3>3
           DEF RsInv, Chases, RS!TypeOK, RS!Goto, RS!Chasers
      <3>5. RS!AnswersAreBehind'  BY <1>2, <3>1 DEF RsInv, RS!AnswersAreBehind, RS!Goto
      <3> QED  BY <3>2, <3>4, <3>5 DEF RsInv
    <2> QED  BY <2>5, <2>6
  <1> QED  BY <1>6, <1>7, SameSize DEF RS!Arrive

LEMMA ExpireKeeps ==
  ASSUME RS!ResolversAssumption, RsInv, RS!Expire
  PROVE  RsInv'
  <1>1. PICK u \in Urls : RS!Store(u, Absent)  BY DEF RS!Expire
  <1>2. UNCHANGED <<embed, chasePc, current, chased, chaseAnswer>>  BY DEF RS!Expire
  <1>3. RS!TypeOK /\ Absent \notin Urls  BY DEF RsInv, RS!ResolversAssumption
  <1>4. RS!TypeOK'  BY <1>1, <1>2, <1>3 DEF RS!TypeOK, RS!Store
  <1>5. Chases'  BY <1>2 DEF RsInv, Chases
  <1>6. \A x \in Urls : cached'[x] \in Urls => cached'[x] = cached[x]
    BY <1>1, <1>3 DEF RS!TypeOK, RS!Store
  <1>7. RS!AnswersAreBehind'  BY <1>2, <1>6 DEF RsInv, RS!AnswersAreBehind
  <1> QED  BY <1>4, <1>5, <1>7 DEF RsInv

\* Only a call of ResolvePlayable looks up and chases.
RunsWhere ==
  \A t \in Resolving : chasePc[t] \in {"resolve", "capture", "done"}

LEMMA ReadingKeeps ==
  ASSUME RS!ResolversAssumption, RsInv, NEW t \in RS!Chasers,
         \/ RS!Zilla(t) \/ RS!ReadPage(t) \/ RS!Okru(t) \/ RS!JKPlayer(t) \/ RS!Dood(t)
         \/ RS!Streamtape(t) \/ RS!StreamtapeBrowser(t) \/ RS!Browser(t)
  PROVE  RsInv'
  <1>1. RS!TypeOK /\ current[t] \in Urls  BY DEF RsInv, RS!TypeOK
  <1>2. chasePc[t] \in {"resolve", "capture", "browser"}
    BY DEF RS!Zilla, RS!ReadPage, RS!Okru, RS!JKPlayer, RS!Dood, RS!Streamtape,
             RS!StreamtapeBrowser, RS!Browser, RS!At
  <1>3. CASE RS!Missed(t)  BY <1>2, <1>3, MissedKeeps
  <1>4. CASE RS!FoundFirst(t)
    <2>1. PICK k \in RS!Matches(current[t]) : RS!Found(t, PageShows[current[t]][k])
      BY <1>4 DEF RS!FoundFirst
    <2>2. PageShows[current[t]][k] \in Urls /\ PageShows[current[t]][k] \in RS!Behind(current[t])
      BY <1>1, MatchesAreBehind
    <2> QED  BY <1>2, <2>1, <2>2, FoundKeeps
  <1>5. CASE RS!FoundBest(t)
    <2>1. PICK k \in DOMAIN PageVideos[current[t]] : RS!Found(t,
            PageVideos[current[t]][k].url)
      BY <1>5 DEF RS!FoundBest
    <2>2. /\ PageVideos[current[t]][k].url \in Urls
          /\ PageVideos[current[t]][k].url \in RS!Behind(current[t])
      BY <1>1, VideosAreBehind
    <2> QED  BY <1>2, <2>1, <2>2, FoundKeeps
  <1>6. CASE \E u \in PageLoads[current[t]] : RS!Found(t, u)
    <2>1. PICK u \in PageLoads[current[t]] : RS!Found(t, u)  BY <1>6
    <2>2. u \in Urls /\ u \in RS!Behind(current[t])
      BY <1>1, <2>1 DEF RS!ResolversAssumption, RS!Behind
    <2> QED  BY <1>2, <2>1, <2>2, FoundKeeps
  <1>7. CASE /\ chasePc[t] = "resolve" /\ RS!Goto(t, "capture")
             /\ UNCHANGED <<embed, cached, current, chased>>
    <2>1. RS!TypeOK'  BY <1>1, <1>7 DEF RS!TypeOK, RS!Goto
    <2>2. Chases'  BY <1>1, <1>7 DEF RsInv, Chases, RS!TypeOK, RS!Goto, RS!Chasers
    <2>3. RS!AnswersAreBehind'  BY <1>7 DEF RsInv, RS!AnswersAreBehind, RS!Goto
    <2> QED  BY <2>1, <2>2, <2>3 DEF RsInv
  <1> QED
    BY <1>3, <1>4, <1>5, <1>6, <1>7
       DEF RS!Zilla, RS!ReadPage, RS!Okru, RS!JKPlayer, RS!Dood, RS!Streamtape,
             RS!StreamtapeBrowser, RS!Browser, RS!At

LEMMA WhereInit == RS!ResolversAssumption /\ RS!Init => RunsWhere
  BY DEF RS!ResolversAssumption, RS!Init, RunsWhere, RS!Chasers

LEMMA WhereNext ==
  ASSUME RS!ResolversAssumption, RS!TypeOK, RunsWhere, [RS!Next]_(RS!vars)
  PROVE  RunsWhere'
  <1>1. CASE UNCHANGED RS!vars  BY <1>1 DEF RunsWhere, RS!vars
  <1>2. CASE RS!Expire  BY <1>2 DEF RunsWhere, RS!Expire
  <1>3. ASSUME NEW t \in RS!Chasers, RS!Step(t)  PROVE RunsWhere'
    <2>1. PICK p \in {"chase", "browser", "capture", "done", "resolve"} :
            /\ chasePc' = [chasePc EXCEPT ![t] = p]
            /\ t \in Resolving => p \in {"resolve", "capture", "done"}
      <3>1. CASE t \in Resolving
        <4>1. t \notin Playing /\ chasePc[t] \notin {"idle", "chase"}
          BY <3>1 DEF RunsWhere, RS!ResolversAssumption
        <4>2. ~RS!Lookup(t) /\ ~RS!Arrive(t)  BY <4>1 DEF RS!Lookup, RS!Arrive
        <4>3. ASSUME NEW u, RS!Found(t, u)  PROVE chasePc' = [chasePc EXCEPT ![t] = "done"]
          BY <4>1, <4>3 DEF RS!Found, RS!Return
        <4>4. RS!Missed(t) => chasePc' = [chasePc EXCEPT ![t] = "done"]
          BY <4>1 DEF RS!Missed, RS!Return
        <4> QED
          BY <1>3, <4>2, <4>3, <4>4
             DEF RS!Step, RS!Zilla, RS!ReadPage, RS!Okru, RS!JKPlayer, RS!Dood,
                   RS!Streamtape, RS!StreamtapeBrowser,
                 RS!Browser, RS!FoundFirst, RS!FoundBest, RS!Goto
      <3>2. CASE t \notin Resolving
        <4>1. ASSUME NEW u, RS!Found(t, u)
              PROVE  \E p \in {"chase", "done"} : chasePc' = [chasePc EXCEPT ![t] = p]
          BY <4>1 DEF RS!Found, RS!Return, RS!Goto
        <4>2. RS!Missed(t)
                => \E p \in {"browser", "done"} : chasePc' = [chasePc EXCEPT ![t] = p]
          BY DEF RS!Missed, RS!Return, RS!Goto
        <4>3. RS!Lookup(t)
                => \E p \in {"chase", "done"} : chasePc' = [chasePc EXCEPT ![t] = p]
          BY DEF RS!Lookup, RS!Return, RS!Goto
        <4>4. RS!Arrive(t)
                => \E p \in {"resolve", "done"} : chasePc' = [chasePc EXCEPT ![t] = p]
          BY DEF RS!Arrive, RS!Return, RS!Goto
        <4> QED
          BY <1>3, <3>2, <4>1, <4>2, <4>3, <4>4
             DEF RS!Step, RS!Zilla, RS!ReadPage, RS!Okru, RS!JKPlayer, RS!Dood,
                   RS!Streamtape, RS!StreamtapeBrowser,
                 RS!Browser, RS!FoundFirst, RS!FoundBest, RS!Goto
      <3> QED  BY <3>1, <3>2
    <2> QED  BY <2>1 DEF RunsWhere, RS!TypeOK, RS!Chasers
  <1> QED  BY <1>1, <1>2, <1>3 DEF RS!Next

LEMMA RsInvNext ==
  ASSUME RS!ResolversAssumption, RsInv, RunsWhere, [RS!Next]_(RS!vars)
  PROVE  RsInv'
  <1>1. CASE UNCHANGED RS!vars
    BY <1>1 DEF RsInv, RS!TypeOK, Chases, RS!AnswersAreBehind, RS!vars
  <1>2. CASE RS!Expire  BY <1>2, ExpireKeeps
  <1>3. ASSUME NEW t \in RS!Chasers, RS!Step(t)  PROVE RsInv'
    <2>1. RS!Lookup(t) => RsInv'
      <3>1. RS!Lookup(t) => t \in Playing  BY DEF RS!Lookup, RunsWhere, RS!Chasers
      <3> QED  BY <3>1, LookupKeeps
    <2>2. RS!Arrive(t) => RsInv'
      <3>1. RS!Arrive(t) => t \in Playing  BY DEF RS!Arrive, RunsWhere, RS!Chasers
      <3> QED  BY <3>1, ArriveKeeps
    <2> QED  BY <1>3, <2>1, <2>2, ReadingKeeps DEF RS!Step
  <1> QED  BY <1>1, <1>2, <1>3 DEF RS!Next

\* Resolvers: what is played was behind the embed, and is no known page.
THEOREM AnswersAreBehindHolds ==
  ASSUME RS!ResolversAssumption
  PROVE  RS!Spec => []AnswersAreBehind
  <1>1. RS!Init => RsInv /\ RunsWhere  BY RsInvInit, WhereInit
  <1>2. RsInv /\ RunsWhere /\ [RS!Next]_(RS!vars) => (RsInv /\ RunsWhere)'
    BY RsInvNext, WhereNext DEF RsInv
  <1>3. RsInv => AnswersAreBehind  BY DEF RsInv, AnswersAreBehind
  <1> QED  BY <1>1, <1>2, <1>3, PTL DEF RS!Spec

----------------------------------------------------------------------------
(* AnimeFLV: embeds sorted while they are resolved. *)
Outcomes == {"open", "resolved", "failed"}

FlvTyped ==
  /\ preferred \in FLV!AllEmbeds \cup {Absent}
  /\ flvPc \in [FlvCalls -> {"idle", "read", "compare", "pool", "rest", "done"}]
  /\ DOMAIN sorted = FlvCalls
  /\ flvLow \in [FlvCalls -> Nat \ {0}] /\ flvHigh \in [FlvCalls -> Nat \ {0}] /\ DOMAIN later = FlvCalls
  /\ outcome \in [FlvCalls -> [FLV!AllEmbeds -> Outcomes]]
  /\ flvNext \in [FlvCalls -> Nat]
  /\ flvAnswer \in [FlvCalls -> FLV!AllEmbeds \cup {Absent, "unread", "error"}]

\* The sorted embeds are those of the page, in another order.
Arranged(s, c) ==
  /\ s \in [1 .. FLV!Count(c) -> FLV!AllEmbeds]
  /\ \A e \in FLV!ShownBy(c) : \E k \in 1 .. FLV!Count(c) : s[k] = e
  /\ \A k, l \in 1 .. FLV!Count(c) : s[k] = s[l] => k = l

\* Where a call is, and what it has tried there.
Placed(c) ==
  /\ flvPc[c] = "idle" => flvLow[c] = 1 /\ flvHigh[c] = 2
  /\ flvPc[c] \in {"read", "compare"}
       => flvLow[c] < flvHigh[c] /\ flvHigh[c] <= FLV!Count(c)
  /\ flvPc[c] = "rest" =>
       /\ flvNext[c] > FLV!Width(c)
       /\ \A l \in 1 .. FLV!Count(c) : l < flvNext[c] => outcome[c][sorted[c][l]] = "failed"
  /\ flvPc[c] \in {"idle", "read", "compare", "pool"} => flvNext[c] = Parallel + 1
  /\ flvPc[c] # "done" => flvAnswer[c] = Absent

FlvAnswered(c) ==
  /\ flvAnswer[c] \in FLV!AllEmbeds =>
       \E k \in 1 .. FLV!Count(c) :
         /\ sorted[c][k] = flvAnswer[c] /\ outcome[c][flvAnswer[c]] = "resolved"
         /\ \A l \in 1 .. k - 1 : outcome[c][sorted[c][l]] = "failed"
  /\ flvAnswer[c] = "error" => \A e \in FLV!ShownBy(c) : outcome[c][e] = "failed"

Good(c) == Arranged(sorted[c], c) /\ Placed(c) /\ FlvAnswered(c)

FlvInv == FlvTyped /\ \A c \in FlvCalls : Good(c)

LEMMA Counted ==
  ASSUME FLV!AnimeFLVAssumption, NEW c \in FlvCalls
  PROVE  /\ FLV!Count(c) \in Nat \ {0} /\ DOMAIN FlvShows[c] = 1 .. FLV!Count(c)
         /\ FlvShows[c] \in [1 .. FLV!Count(c) -> FLV!AllEmbeds]
         /\ Parallel \in Nat \ {0} /\ FLV!Width(c) \in 1 .. FLV!Count(c) /\ FLV!Width(c) <= Parallel
         /\ FLV!Width(c) < FLV!Count(c) => FLV!Width(c) = Parallel
  <1>1. FlvShows[c] \in Seq(FLV!AllEmbeds) /\ FlvShows[c] # <<>> /\ Parallel \in Nat \ {0}
    BY DEF FLV!AnimeFLVAssumption
  <1>2. Len(FlvShows[c]) \in Nat /\ DOMAIN FlvShows[c] = 1 .. Len(FlvShows[c])
        /\ FlvShows[c] \in [1 .. Len(FlvShows[c]) -> FLV!AllEmbeds]
    BY <1>1
  <1>3. Len(FlvShows[c]) # 0
    <2> HIDE DEF FLV!AllEmbeds
    <2> QED  BY <1>1
  <1> QED  BY <1>1, <1>2, <1>3 DEF FLV!Count, FLV!Width

LEMMA FlvNoConfusion ==
  FLV!AnimeFLVAssumption =>
    /\ Absent \notin FLV!AllEmbeds /\ "unread" \notin FLV!AllEmbeds /\ "error" \notin FLV!AllEmbeds
    /\ Absent # "error"
  BY DEF FLV!AnimeFLVAssumption

LEMMA FlvInvInit == FLV!AnimeFLVAssumption /\ FLV!Init => FlvInv
  <1> SUFFICES ASSUME FLV!AnimeFLVAssumption, FLV!Init  PROVE FlvInv
    OBVIOUS
  <1>1. FlvTyped  BY DEF FLV!Init, FlvTyped, Outcomes, FLV!AnimeFLVAssumption
  <1>2. ASSUME NEW c \in FlvCalls  PROVE Good(c)
    <2>1. sorted[c] = FlvShows[c] /\ flvPc[c] = "idle" /\ flvLow[c] = 1 /\ flvHigh[c] = 2
          /\ flvNext[c] = Parallel + 1 /\ flvAnswer[c] = Absent
      BY DEF FLV!Init
    <2>2. \A k, l \in DOMAIN FlvShows[c] : FlvShows[c][k] = FlvShows[c][l] => k = l
      BY DEF FLV!AnimeFLVAssumption
    <2>3. Arranged(sorted[c], c)  BY <2>1, <2>2, Counted DEF Arranged, FLV!ShownBy
    <2>4. Placed(c)  BY <2>1 DEF Placed
    <2>5. FlvAnswered(c)  BY <2>1, FlvNoConfusion DEF FlvAnswered
    <2> QED  BY <2>3, <2>4, <2>5 DEF Good
  <1> QED  BY <1>1, <1>2 DEF FlvInv

LEMMA SwapArranges ==
  ASSUME FLV!AnimeFLVAssumption, NEW c \in FlvCalls, NEW s, Arranged(s, c),
         NEW a \in 1 .. FLV!Count(c), NEW b \in 1 .. FLV!Count(c), a # b
  PROVE  Arranged(FLV!Swapped(s, a, b), c)
  <1> DEFINE u == FLV!Swapped(s, a, b)
  <1>1. /\ u \in [1 .. FLV!Count(c) -> FLV!AllEmbeds] /\ u[a] = s[b] /\ u[b] = s[a]
        /\ \A k \in (1 .. FLV!Count(c)) \ {a, b} : u[k] = s[k]
    BY DEF Arranged, FLV!Swapped
  <1>2. ASSUME NEW e \in FLV!ShownBy(c)  PROVE \E k \in 1 .. FLV!Count(c) : u[k] = e
    <2>1. PICK k \in 1 .. FLV!Count(c) : s[k] = e  BY DEF Arranged
    <2>2. CASE k = a  BY <1>1, <2>1, <2>2
    <2>3. CASE k = b  BY <1>1, <2>1, <2>3
    <2>4. CASE k \notin {a, b}  BY <1>1, <2>1, <2>4
    <2> QED  BY <2>2, <2>3, <2>4
  <1>4. ASSUME NEW k \in 1 .. FLV!Count(c), NEW l \in 1 .. FLV!Count(c), u[k] = u[l]
        PROVE  k = l
    <2> HIDE DEF u
    <2> QED  BY <1>1, <1>4 DEF Arranged
  <1> QED  BY <1>1, <1>2, <1>4 DEF Arranged

\* A step of c leaves the other calls alone, and what it does not touch.
LEMMA OthersStay ==
  ASSUME FlvTyped, NEW c \in FlvCalls, NEW d \in FlvCalls \ {c}, FLV!Step(c)
  PROVE  /\ sorted'[d] = sorted[d] /\ flvPc'[d] = flvPc[d] /\ flvLow'[d] = flvLow[d] /\ flvHigh'[d] = flvHigh[d]
         /\ outcome'[d] = outcome[d] /\ flvNext'[d] = flvNext[d] /\ flvAnswer'[d] = flvAnswer[d]
  BY DEF FlvTyped, FLV!Step, FLV!Fetch, FLV!ReadLater, FLV!Compare, FLV!Resolve,
           FLV!Collect, FLV!TryNext, FLV!GiveUp,
         FLV!Goto, FLV!Return, FLV!SetOutcome

LEMMA FetchKeeps ==
  ASSUME FLV!AnimeFLVAssumption, FlvTyped, NEW c \in FlvCalls, Good(c), FLV!Fetch(c)
  PROVE  FlvTyped' /\ Good(c)'
  <1>1. FlvTyped'  BY DEF FlvTyped, FLV!Fetch, FLV!Goto, FLV!Return
  <1>2. Arranged(sorted'[c], c)  BY DEF Good, FLV!Fetch
  <1>3. CASE FLV!Return(c, "unread")
    <2>1. flvPc'[c] = "done" /\ flvAnswer'[c] = "unread"  BY <1>3 DEF FlvTyped, FLV!Return,
            FLV!Goto
    <2> QED  BY <1>1, <1>2, <2>1, FlvNoConfusion DEF Good, Placed, FlvAnswered
  <1>4. CASE FLV!Goto(c, IF FLV!Count(c) = 1 THEN "pool" ELSE "read") /\ UNCHANGED flvAnswer
    <2>1. flvPc'[c] = IF FLV!Count(c) = 1 THEN "pool" ELSE "read"  BY <1>4 DEF FlvTyped,
            FLV!Goto
    <2>2. /\ flvLow[c] = 1 /\ flvHigh[c] = 2 /\ flvNext[c] = Parallel + 1 /\ flvAnswer[c] = Absent
          /\ UNCHANGED <<flvLow, flvHigh, flvNext, sorted, outcome, flvAnswer>>
      BY <1>4 DEF Good, Placed, FLV!Fetch
    <2>3. FLV!Count(c) \in Nat \ {0}  BY Counted
    <2>4. Placed(c)'  BY <2>1, <2>2, <2>3 DEF Placed
    <2>5. FlvAnswered(c)'  BY <2>2, FlvNoConfusion DEF FlvAnswered
    <2> QED  BY <1>1, <1>2, <2>4, <2>5 DEF Good
  <1> QED  BY <1>3, <1>4 DEF FLV!Fetch

LEMMA ReadLaterKeeps ==
  ASSUME FLV!AnimeFLVAssumption, FlvTyped, NEW c \in FlvCalls, Good(c), FLV!ReadLater(c)
  PROVE  FlvTyped' /\ Good(c)'
  <1>1. FlvTyped'  BY DEF FlvTyped, FLV!ReadLater, FLV!Goto
  <1>2. /\ flvPc'[c] = "compare" /\ flvPc[c] = "read"
        /\ UNCHANGED <<flvLow, flvHigh, flvNext, sorted, outcome, flvAnswer>>
    BY DEF FlvTyped, FLV!ReadLater, FLV!Goto
  <1>3. Arranged(sorted'[c], c)  BY <1>2 DEF Good
  <1>4. Placed(c)'  BY <1>2 DEF Good, Placed
  <1>5. FlvAnswered(c)'  BY <1>2 DEF Good, FlvAnswered
  <1> QED  BY <1>1, <1>3, <1>4, <1>5 DEF Good

LEMMA CompareKeeps ==
  ASSUME FLV!AnimeFLVAssumption, FlvTyped, NEW c \in FlvCalls, Good(c), FLV!Compare(c)
  PROVE  FlvTyped' /\ Good(c)'
  <1> DEFINE a == flvLow[c]
             b == flvHigh[c]
  <1>1. /\ a \in 1 .. FLV!Count(c) /\ b \in 1 .. FLV!Count(c) /\ a < b /\ flvPc[c] = "compare"
        /\ flvNext[c] = Parallel + 1 /\ flvAnswer[c] = Absent
    <2>1. flvPc[c] = "compare"  BY DEF FLV!Compare
    <2>2. a \in Nat \ {0} /\ b \in Nat \ {0}  BY DEF FlvTyped
    <2>3. a < b /\ b <= FLV!Count(c) /\ FLV!Count(c) \in Nat  BY <2>1, Counted DEF Good,
            Placed
    <2>4. flvNext[c] = Parallel + 1 /\ flvAnswer[c] = Absent  BY <2>1 DEF Good, Placed
    <2> QED  BY <2>1, <2>2, <2>3, <2>4
  <1>2. UNCHANGED <<preferred, later, outcome, flvNext, flvAnswer>>  BY DEF FLV!Compare
  <1>3. Arranged(sorted'[c], c)
    <2>1. sorted'[c] = FLV!Swapped(sorted[c], a, b) \/ sorted'[c] = sorted[c]
      BY DEF FlvTyped, FLV!Compare
    <2>2. Arranged(sorted[c], c) /\ a # b  BY <1>1 DEF Good
    <2>3. Arranged(FLV!Swapped(sorted[c], a, b), c)  BY <1>1, <2>2, SwapArranges
    <2> QED  BY <2>1, <2>2, <2>3
  <1>4. FlvTyped' /\ Placed(c)'
    <2>1. DOMAIN sorted' = FlvCalls  BY DEF FlvTyped, FLV!Compare
    <2>2. CASE b < FLV!Count(c) /\ flvHigh' = [flvHigh EXCEPT ![c] = b + 1] /\ FLV!Goto(c,
                 "read") /\ UNCHANGED flvLow
      <3>1. flvHigh'[c] = b + 1 /\ flvLow'[c] = a /\ flvPc'[c] = "read"  BY <2>2 DEF FlvTyped, FLV!Goto
      <3>2. flvHigh' \in [FlvCalls -> Nat \ {0}]  BY <2>2 DEF FlvTyped
      <3>3. flvPc' \in [FlvCalls -> {"idle", "read", "compare", "pool", "rest", "done"}]
        BY <2>2 DEF FlvTyped, FLV!Goto
      <3>4. FlvTyped'  BY <1>2, <2>1, <2>2, <3>2, <3>3 DEF FlvTyped
      <3>5. flvLow'[c] < flvHigh'[c] /\ flvHigh'[c] <= FLV!Count(c)
        <4>1. FLV!Count(c) \in Nat /\ a \in Nat /\ b \in Nat  BY Counted DEF FlvTyped
        <4> QED  BY <1>1, <2>2, <3>1, <4>1
      <3>6. flvNext'[c] = Parallel + 1 /\ flvAnswer'[c] = Absent  BY <1>1, <1>2
      <3>7. Placed(c)'  BY <3>1, <3>5, <3>6 DEF Placed, FLV!Count
      <3> QED  BY <3>4, <3>7
    <2>3. CASE /\ b = FLV!Count(c) /\ a + 1 < FLV!Count(c) /\ FLV!Goto(c, "read")
               /\ flvLow' = [flvLow EXCEPT ![c] = a + 1] /\ flvHigh' = [flvHigh EXCEPT ![c] = a + 2]
      <3>1. flvHigh'[c] = a + 2 /\ flvLow'[c] = a + 1 /\ flvPc'[c] = "read"  BY <2>3 DEF FlvTyped, FLV!Goto
      <3>2. flvHigh' \in [FlvCalls -> Nat \ {0}] /\ flvLow' \in [FlvCalls -> Nat \ {0}]  BY <2>3 DEF FlvTyped
      <3>3. flvPc' \in [FlvCalls -> {"idle", "read", "compare", "pool", "rest", "done"}]
        BY <2>3 DEF FlvTyped, FLV!Goto
      <3> QED  BY <1>1, <1>2, <2>1, <2>3, <3>1, <3>2, <3>3 DEF FlvTyped, Placed
    <2>4. CASE FLV!Goto(c, "pool") /\ UNCHANGED <<flvLow, flvHigh>>
      <3>1. flvPc'[c] = "pool"  BY <2>4 DEF FlvTyped, FLV!Goto
      <3>3. flvPc' \in [FlvCalls -> {"idle", "read", "compare", "pool", "rest", "done"}]
        BY <2>4 DEF FlvTyped, FLV!Goto
      <3> QED  BY <1>1, <1>2, <2>1, <2>4, <3>1, <3>3 DEF FlvTyped, Placed
    <2> QED  BY <2>2, <2>3, <2>4 DEF FLV!Compare
  <1>5. FlvAnswered(c)'  BY <1>1, <1>2, FlvNoConfusion DEF FlvAnswered
  <1> QED  BY <1>3, <1>4, <1>5 DEF Good

LEMMA ResolveKeeps ==
  ASSUME FLV!AnimeFLVAssumption, FlvTyped, NEW c \in FlvCalls, Good(c), FLV!Resolve(c)
  PROVE  FlvTyped' /\ Good(c)'
  <1>1. PICK k \in 1 .. FLV!Width(c),
          o \in {"resolved", "failed"} : FLV!SetOutcome(c, sorted[c][k], o)
    BY DEF FLV!Resolve
  <1>2. flvPc[c] = "pool" /\ UNCHANGED <<preferred, flvPc, sorted, flvLow, flvHigh, later,
          flvNext, flvAnswer>>
    BY DEF FLV!Resolve
  <1>3. outcome' \in [FlvCalls -> [FLV!AllEmbeds -> Outcomes]]
    BY <1>1 DEF FLV!SetOutcome, FlvTyped, Outcomes
  <1>4. FlvTyped'  BY <1>2, <1>3 DEF FlvTyped
  <1>5. Placed(c)'  BY <1>2 DEF Good, Placed
  <1>6. flvAnswer'[c] = Absent  BY <1>2 DEF Good, Placed
  <1>7. FlvAnswered(c)'  BY <1>6, FlvNoConfusion DEF FlvAnswered
  <1> QED  BY <1>2, <1>4, <1>5, <1>7 DEF Good

LEMMA FlvCollectKeeps ==
  ASSUME FLV!AnimeFLVAssumption, FlvTyped, NEW c \in FlvCalls, Good(c), FLV!Collect(c)
  PROVE  FlvTyped' /\ Good(c)'
  <1>1. /\ flvPc[c] = "pool" /\ UNCHANGED <<sorted, flvLow, flvHigh, later, outcome,
             flvNext>>
        /\ \A k \in 1 .. FLV!Width(c) : outcome[c][sorted[c][k]] # "open"
    BY DEF FLV!Collect
  <1>2. Arranged(sorted[c], c) /\ Arranged(sorted'[c], c)  BY <1>1 DEF Good
  <1>3. FLV!Width(c) \in 1 .. FLV!Count(c) /\ FLV!Count(c) \in Nat /\ Parallel \in Nat \ {0}
        /\ FLV!Width(c) <= Parallel /\ (FLV!Width(c) < FLV!Count(c)
             => FLV!Width(c) = Parallel)
    BY Counted
  <1>4. ASSUME NEW k \in 1 .. FLV!Width(c), outcome[c][sorted[c][k]] # "resolved"
        PROVE  outcome[c][sorted[c][k]] = "failed"
    <2>1. sorted[c][k] \in FLV!AllEmbeds
      <3>1. k \in 1 .. FLV!Count(c)  BY <1>3
      <3> QED  BY <1>2, <3>1 DEF Arranged
    <2>2. outcome[c][sorted[c][k]] \in Outcomes  BY <2>1 DEF FlvTyped
    <2> QED  BY <1>1, <1>4, <2>2 DEF Outcomes
  <1>5. ASSUME NEW k \in 1 .. FLV!Width(c), outcome[c][sorted[c][k]] = "resolved",
               \A l \in 1 .. k - 1 : outcome[c][sorted[c][l]] # "resolved",
               preferred' = sorted[c][k], FLV!Return(c, sorted[c][k])
        PROVE  FlvTyped' /\ Good(c)'
    <2>1. k \in 1 .. FLV!Count(c) /\ sorted[c][k] \in FLV!AllEmbeds  BY <1>2,
            <1>3 DEF Arranged
    <2>2. flvPc'[c] = "done" /\ flvAnswer'[c] = sorted[c][k]  BY <1>5 DEF FlvTyped,
            FLV!Return, FLV!Goto
    <2>3. FlvTyped'  BY <1>1, <1>5, <2>1 DEF FlvTyped, FLV!Return, FLV!Goto
    <2>4. \A l \in 1 .. k - 1 : outcome[c][sorted[c][l]] = "failed"
      BY <1>3, <1>4, <1>5
    <2>5. FlvAnswered(c)'  BY <1>1, <1>5, <2>1, <2>2, <2>4, FlvNoConfusion DEF FlvAnswered
    <2>6. Placed(c)'  BY <2>2 DEF Placed
    <2> QED  BY <1>2, <2>3, <2>5, <2>6 DEF Good
  <1>6. ASSUME \A k \in 1 .. FLV!Width(c) : outcome[c][sorted[c][k]] # "resolved",
               FLV!Goto(c, "rest"), UNCHANGED <<preferred, flvAnswer>>
        PROVE  FlvTyped' /\ Good(c)'
    <2>1. flvPc'[c] = "rest" /\ flvAnswer'[c] = Absent /\ flvNext'[c] = Parallel + 1
      BY <1>1, <1>6 DEF FlvTyped, FLV!Goto, Good, Placed
    <2>2. FlvTyped'  BY <1>1, <1>6 DEF FlvTyped, FLV!Goto
    <2>3. \A l \in 1 .. FLV!Count(c) : l < Parallel + 1 => l \in 1 .. FLV!Width(c)
      BY <1>3
    <2>4. \A l \in 1 .. FLV!Count(c) : l < flvNext'[c]
            => outcome'[c][sorted'[c][l]] = "failed"
      BY <1>1, <1>4, <1>6, <2>1, <2>3
    <2>5. flvNext'[c] > FLV!Width(c)  BY <1>3, <2>1
    <2>6. Placed(c)'  BY <2>1, <2>4, <2>5 DEF Placed, FLV!Width, FLV!Count
    <2>7. FlvAnswered(c)'  BY <2>1, FlvNoConfusion DEF FlvAnswered
    <2> QED  BY <1>2, <2>2, <2>6, <2>7 DEF Good
  <1> QED  BY <1>5, <1>6 DEF FLV!Collect

LEMMA TryNextKeeps ==
  ASSUME FLV!AnimeFLVAssumption, FlvTyped, NEW c \in FlvCalls, Good(c), FLV!TryNext(c)
  PROVE  FlvTyped' /\ Good(c)'
  <1> DEFINE n == flvNext[c]
             e == sorted[c][n]
  <1>1. flvPc[c] = "rest" /\ UNCHANGED <<sorted, flvLow, flvHigh,
          later>> /\ n <= FLV!Count(c)
    BY DEF FLV!TryNext
  <1>2. Arranged(sorted[c], c) /\ Arranged(sorted'[c], c)  BY <1>1 DEF Good
  <1>3. FLV!Width(c) \in 1 .. FLV!Count(c) /\ FLV!Count(c) \in Nat  BY Counted
  <1>4. n > FLV!Width(c) /\ n \in Nat /\ flvAnswer[c] = Absent
        /\ \A l \in 1 .. FLV!Count(c) : l < n => outcome[c][sorted[c][l]] = "failed"
    BY <1>1 DEF Good, Placed, FlvTyped
  <1>5. n \in 1 .. FLV!Count(c) /\ e \in FLV!AllEmbeds  BY <1>1, <1>2, <1>3,
          <1>4 DEF Arranged
  <1>6. \A l \in 1 .. FLV!Count(c) : l # n => sorted[c][l] # e  BY <1>2, <1>5 DEF Arranged
  <1>7. ASSUME NEW o \in {"resolved", "failed"}, FLV!SetOutcome(c, e, o)
        PROVE  /\ outcome' \in [FlvCalls -> [FLV!AllEmbeds -> Outcomes]] /\ outcome'[c][e] = o
               /\ \A l \in 1 .. FLV!Count(c) : l < n => outcome'[c][sorted[c][l]] = "failed"
    <2>1. outcome' \in [FlvCalls -> [FLV!AllEmbeds -> Outcomes]]
      BY <1>7 DEF FLV!SetOutcome, FlvTyped, Outcomes
    <2>2. outcome'[c] = [outcome[c] EXCEPT ![e] = o]  BY <1>7 DEF FLV!SetOutcome, FlvTyped
    <2>3. outcome[c] \in [FLV!AllEmbeds -> Outcomes]  BY DEF FlvTyped
    <2>4. \A x \in FLV!AllEmbeds : x # e => outcome'[c][x] = outcome[c][x]  BY <2>2, <2>3
    <2>5. \A l \in 1 .. FLV!Count(c) : sorted[c][l] \in FLV!AllEmbeds  BY <1>2 DEF Arranged
    <2>6. ASSUME NEW l \in 1 .. FLV!Count(c), l < n
          PROVE  outcome'[c][sorted[c][l]] = "failed"
      <3>1. l # n  BY <1>4, <2>6
      <3> QED  BY <1>4, <1>6, <2>4, <2>5, <2>6, <3>1
    <2> QED  BY <1>5, <2>1, <2>2, <2>3, <2>6
  <1>8. CASE FLV!SetOutcome(c, e, "resolved") /\ preferred' = e /\ FLV!Return(c,
               e) /\ UNCHANGED flvNext
    <2>1. flvPc'[c] = "done" /\ flvAnswer'[c] = e  BY <1>8 DEF FlvTyped, FLV!Return,
            FLV!Goto
    <2>2. FlvTyped'  BY <1>1, <1>5, <1>7, <1>8 DEF FlvTyped, FLV!Return, FLV!Goto
    <2>3. /\ outcome'[c][e] = "resolved"
          /\ \A l \in 1 .. FLV!Count(c) : l < n => outcome'[c][sorted[c][l]] = "failed"
      BY <1>7, <1>8
    <2>a. \A l \in 1 .. n - 1 : l \in 1 .. FLV!Count(c) /\ l < n
      <3> HIDE DEF n
      <3> QED  BY <1>3, <1>5
    <2>4. \A l \in 1 .. n - 1 : outcome'[c][sorted'[c][l]] = "failed"
      BY <1>1, <2>3, <2>a
    <2>5. FlvAnswered(c)'  BY <1>1, <1>5, <2>1, <2>3, <2>4, FlvNoConfusion DEF FlvAnswered,
            FLV!Count
    <2>6. Placed(c)'  BY <2>1 DEF Placed
    <2> QED  BY <1>2, <2>2, <2>5, <2>6 DEF Good
  <1>9. CASE /\ FLV!SetOutcome(c, e, "failed") /\ flvNext' = [flvNext EXCEPT ![c] = @ + 1]
             /\ UNCHANGED <<preferred, flvPc, flvAnswer>>
    <2>1. flvNext'[c] = n + 1 /\ flvNext' \in [FlvCalls -> Nat]  BY <1>9 DEF FlvTyped
    <2>2. FlvTyped'  BY <1>1, <1>7, <1>9, <2>1 DEF FlvTyped
    <2>3. /\ outcome'[c][e] = "failed"
          /\ \A l \in 1 .. FLV!Count(c) : l < n => outcome'[c][sorted[c][l]] = "failed"
      BY <1>7, <1>9
    <2>4. \A l \in 1 .. FLV!Count(c) : l < n + 1 => l < n \/ l = n  BY <1>4
    <2>5. \A l \in 1 .. FLV!Count(c) : l < flvNext'[c]
            => outcome'[c][sorted'[c][l]] = "failed"
      BY <1>1, <2>1, <2>3, <2>4
    <2>6. flvNext'[c] > FLV!Width(c)  BY <1>3, <1>4, <2>1
    <2>7. Placed(c)'  BY <1>1, <1>4, <1>9, <2>5, <2>6 DEF Placed, FLV!Width, FLV!Count
    <2>8. FlvAnswered(c)'  BY <1>4, <1>9, FlvNoConfusion DEF FlvAnswered
    <2> QED  BY <1>2, <2>2, <2>7, <2>8 DEF Good
  <1> QED  BY <1>8, <1>9 DEF FLV!TryNext

LEMMA GiveUpKeeps ==
  ASSUME FLV!AnimeFLVAssumption, FlvTyped, NEW c \in FlvCalls, Good(c), FLV!GiveUp(c)
  PROVE  FlvTyped' /\ Good(c)'
  <1>1. /\ flvPc[c] = "rest" /\ flvNext[c] > FLV!Count(c) /\ FLV!Return(c, "error")
        /\ UNCHANGED <<preferred, sorted, flvLow, flvHigh, later, outcome, flvNext>>
    BY DEF FLV!GiveUp
  <1>2. FlvTyped'  BY <1>1 DEF FlvTyped, FLV!Return, FLV!Goto
  <1>3. flvPc'[c] = "done" /\ flvAnswer'[c] = "error"  BY <1>1 DEF FlvTyped, FLV!Return,
          FLV!Goto
  <1>4. FLV!Count(c) \in Nat /\ flvNext[c] \in Nat  BY Counted DEF FlvTyped
  <1>5. \A l \in 1 .. FLV!Count(c) : outcome[c][sorted[c][l]] = "failed"
    BY <1>1, <1>4 DEF Good, Placed
  <1>6. \A e \in FLV!ShownBy(c) : outcome'[c][e] = "failed"
    BY <1>1, <1>5 DEF Good, Arranged
  <1>7. FlvAnswered(c)'  BY <1>3, <1>6, FlvNoConfusion DEF FlvAnswered, FLV!ShownBy
  <1>8. Placed(c)'  BY <1>3 DEF Placed
  <1> QED  BY <1>1, <1>2, <1>7, <1>8 DEF Good

LEMMA FlvInvNext == FLV!AnimeFLVAssumption /\ FlvInv /\ [FLV!Next]_(FLV!vars) => FlvInv'
  <1> SUFFICES ASSUME FLV!AnimeFLVAssumption, FlvInv, [FLV!Next]_(FLV!vars)  PROVE FlvInv'
    OBVIOUS
  <1>1. CASE UNCHANGED FLV!vars
    BY <1>1 DEF FlvInv, FlvTyped, Good, Arranged, Placed, FlvAnswered, FLV!vars
  <1>2. ASSUME NEW c \in FlvCalls, FLV!Step(c)  PROVE FlvInv'
    <2>1. FlvTyped /\ Good(c)  BY DEF FlvInv
    <2>2. FlvTyped' /\ Good(c)'
      BY <1>2, <2>1, FetchKeeps, ReadLaterKeeps, CompareKeeps, ResolveKeeps,
           FlvCollectKeeps,
         TryNextKeeps, GiveUpKeeps DEF FLV!Step
    <2>3. ASSUME NEW d \in FlvCalls \ {c}  PROVE Good(d)'
      <3>1. /\ sorted'[d] = sorted[d] /\ flvPc'[d] = flvPc[d] /\ flvLow'[d] = flvLow[d] /\ flvHigh'[d] = flvHigh[d]
            /\ outcome'[d] = outcome[d] /\ flvNext'[d] = flvNext[d] /\ flvAnswer'[d] = flvAnswer[d]
        BY <1>2, <2>1, OthersStay
      <3>2. Arranged(sorted[d], d) /\ Placed(d) /\ FlvAnswered(d)  BY DEF FlvInv, Good
      <3>3. Arranged(sorted'[d], d)  BY <3>1, <3>2
      <3>4. Placed(d)'  BY <3>1, <3>2 DEF Placed
      <3>5. FlvAnswered(d)'  BY <3>1, <3>2 DEF FlvAnswered
      <3> QED  BY <3>3, <3>4, <3>5 DEF Good
    <2> QED  BY <2>2, <2>3 DEF FlvInv
  <1> QED  BY <1>1, <1>2 DEF FLV!Next

LEMMA FlvSkipsNone == FLV!AnimeFLVAssumption
    => (FLV!Spec => []FLV!NoEmbedIsSkipped)
  <1> SUFFICES ASSUME FLV!AnimeFLVAssumption  PROVE FLV!Spec => []FLV!NoEmbedIsSkipped
    OBVIOUS
  <1>1. FlvInv => FLV!NoEmbedIsSkipped
    <2>1. \A c \in FlvCalls : DOMAIN FlvShows[c] = 1 .. FLV!Count(c)  BY Counted
    <2>2. ASSUME FlvInv, NEW c \in FlvCalls, flvAnswer[c] = "error",
                 NEW k \in DOMAIN FlvShows[c]
          PROVE  outcome[c][FlvShows[c][k]] = "failed"
      <3>1. FlvShows[c][k] \in FLV!ShownBy(c)  BY DEF FLV!ShownBy
      <3> QED  BY <2>2, <3>1 DEF FlvInv, Good, FlvAnswered
    <2>3. ASSUME FlvInv, NEW c \in FlvCalls, flvAnswer[c] \in FLV!AllEmbeds
          PROVE  \E k \in DOMAIN FlvShows[c] :
                   /\ sorted[c][k] = flvAnswer[c] /\ outcome[c][flvAnswer[c]] = "resolved"
                   /\ \A l \in 1 .. k - 1 : outcome[c][sorted[c][l]] = "failed"
      <3>1. PICK k \in 1 .. FLV!Count(c) :
               /\ sorted[c][k] = flvAnswer[c] /\ outcome[c][flvAnswer[c]] = "resolved"
               /\ \A l \in 1 .. k - 1 : outcome[c][sorted[c][l]] = "failed"
        BY <2>3 DEF FlvInv, Good, FlvAnswered
      <3>2. k \in DOMAIN FlvShows[c]  BY <2>1
      <3> QED  BY <3>1, <3>2
    <2> QED  BY <2>2, <2>3 DEF FLV!NoEmbedIsSkipped
  <1> QED  BY <1>1, FlvInvInit, FlvInvNext, PTL DEF FLV!Spec

----------------------------------------------------------------------------
(* AnimeAV1: the streams of both audios. *)
\* Where the call is, what it has tried there, and what it has selected.
AvInv ==
  /\ avPc \in {"fetch", "pool", "slow", "select", "done", "failed"}
  /\ avPc = "fetch" => avPage = <<>>
  /\ avTried \subseteq AV1!Kept /\ \A x \in resolved : x.at \in avTried
  /\ avPc \in {"fetch", "pool"} => selected = <<>>
  /\ avPc \in {"slow", "select"} => AV1!Fast \subseteq avTried
  /\ avPc = "slow" => AV1!IsSelection(selected)
  /\ avPc \in {"done", "failed"} =>
       /\ AV1!IsSelection(selected)
       /\ AV1!Kept \subseteq avTried \/ (~AV1!NeedsMore(selected) /\ avPc = "done")
       /\ selected = <<>> <=> avPc = "failed"

LEMMA KeptOfNone == avPage = <<>> => AV1!Kept = {} /\ AV1!Fast = {} /\ AV1!Slow = {}
  BY DEF AV1!Kept, AV1!Fast, AV1!Slow

LEMMA AvInvInit == AV1!Init => AvInv
  BY KeptOfNone DEF AV1!Init, AvInv

LEMMA PageStays ==
  ASSUME UNCHANGED avPage
  PROVE  /\ AV1!Kept' = AV1!Kept /\ AV1!Fast' = AV1!Fast /\ AV1!Slow' = AV1!Slow /\ AV1!Variants' = AV1!Variants
  BY DEF AV1!Kept, AV1!Fast, AV1!Slow, AV1!Variants, AV1!IsSlow

LEMMA ChoiceStays ==
  ASSUME UNCHANGED <<avPage, resolved>>, NEW s
  PROVE  /\ AV1!IsSelection(s)' <=> AV1!IsSelection(s)
         /\ AV1!NeedsMore(s)' <=> AV1!NeedsMore(s)
  BY PageStays DEF AV1!IsSelection, AV1!NeedsMore, AV1!HasBoth, AV1!IsBest, AV1!Better,
       AV1!Earlier, AV1!InAudio, AV1!AudioOf, AV1!Others

LEMMA TryKeeps ==
  ASSUME AvInv, NEW k \in AV1!Kept, AV1!Try(k), UNCHANGED avPage
  PROVE  /\ (avTried \subseteq AV1!Kept)' /\ (\A x \in resolved : x.at \in avTried)'
         /\ avTried \subseteq avTried'
  BY PageStays DEF AvInv, AV1!Try

LEMMA AvInvNext == AvInv /\ [AV1!Next]_(AV1!vars) => AvInv'
  <1> SUFFICES ASSUME AvInv, [AV1!Next]_(AV1!vars)  PROVE AvInv'
    OBVIOUS
  <1>1. CASE UNCHANGED AV1!vars
    <2>1. UNCHANGED <<avPage, avPc, avTried, resolved, selected>>  BY <1>1 DEF AV1!vars
    <2> QED  BY <2>1, PageStays, ChoiceStays DEF AvInv
  <1>2. CASE AV1!Fetch
    <2>1. avTried = {} /\ resolved = {} /\ selected = <<>>
      BY <1>2, KeptOfNone DEF AV1!Fetch, AvInv
    <2>2. UNCHANGED <<avTried, resolved, selected>>  BY <1>2 DEF AV1!Fetch
    <2>3. AV1!IsSelection(selected)'  BY <2>1, <2>2 DEF AV1!IsSelection
    <2>4. CASE avPc' = "failed" /\ UNCHANGED avPage
      <3>1. avPc = "fetch" /\ AV1!Kept = {}  BY <1>2, KeptOfNone DEF AV1!Fetch, AvInv
      <3>2. AV1!Kept' = {} /\ AV1!Fast' = {}  BY <3>1, <2>4, PageStays DEF AV1!Fast
      <3> QED  BY <2>1, <2>2, <2>3, <2>4, <3>2 DEF AvInv
    <2>5. CASE avPc' = "pool"  BY <2>1, <2>2, <2>5 DEF AvInv
    <2> QED  BY <1>2, <2>4, <2>5 DEF AV1!Fetch
  <1>3. CASE AV1!Resolve
    <2>1. PICK k \in AV1!Fast \ avTried : AV1!Try(k)  BY <1>3 DEF AV1!Resolve
    <2>2. avPc = "pool" /\ UNCHANGED <<avPage, avPc, selected>>  BY <1>3 DEF AV1!Resolve
    <2>3. k \in AV1!Kept  BY <2>1 DEF AV1!Fast
    <2> QED  BY <2>1, <2>2, <2>3, TryKeeps DEF AvInv
  <1>4. ASSUME NEW s, AV1!Fast \subseteq avTried, selected' = s, AV1!IsSelection(s),
               avPc' = IF AV1!NeedsMore(s) THEN "slow" ELSE "done",
               UNCHANGED <<avPage, avTried, resolved>>
        PROVE  AvInv'
    <2>1. AV1!IsSelection(s)' /\ (AV1!NeedsMore(s)' <=> AV1!NeedsMore(s))  BY <1>4,
            ChoiceStays
    <2>2. AV1!Kept' = AV1!Kept /\ AV1!Fast' = AV1!Fast  BY <1>4, PageStays
    <2>3. AV1!NeedsMore(selected)' <=> AV1!NeedsMore(s)'  BY <1>4 DEF AV1!NeedsMore,
            AV1!AudioOf
    <2>4. AV1!IsSelection(selected)' <=> AV1!IsSelection(s)'  BY <1>4 DEF AV1!IsSelection
    <2>5. ~AV1!NeedsMore(s) => s # <<>>  BY DEF AV1!NeedsMore
    <2> QED  BY <1>4, <2>1, <2>2, <2>3, <2>4, <2>5 DEF AvInv
  <1>5. CASE AV1!Collect
    <2>1. PICK s \in AV1!Selections : AV1!IsSelection(s) /\ selected' = s  BY <1>5 DEF AV1!Collect
    <2> QED  BY <1>4, <1>5, <2>1 DEF AV1!Collect
  <1>6. CASE AV1!SelectAgain
    <2>1. PICK s \in AV1!Selections : AV1!IsSelection(s) /\ selected' = s  BY <1>6 DEF AV1!SelectAgain
    <2>2. AV1!Fast \subseteq avTried  BY <1>6 DEF AV1!SelectAgain, AvInv
    <2> QED  BY <1>4, <1>6, <2>1, <2>2 DEF AV1!SelectAgain
  <1>7. CASE AV1!TrySlow
    <2>1. PICK k \in AV1!Slow \ avTried : AV1!Try(k)  BY <1>7 DEF AV1!TrySlow
    <2>2. avPc = "slow" /\ UNCHANGED <<avPage, selected>>  BY <1>7 DEF AV1!TrySlow
    <2>3. k \in AV1!Kept  BY <2>1 DEF AV1!Slow
    <2>4. (avTried \subseteq AV1!Kept)' /\ (\A x \in resolved : x.at \in avTried)' /\ avTried \subseteq avTried'
      BY <2>1, <2>2, <2>3, TryKeeps
    <2>5. AV1!Fast' \subseteq avTried'  BY <2>2, <2>4, PageStays DEF AvInv
    <2>6. CASE resolved' = resolved
      <3>1. AV1!IsSelection(selected)'
        <4>1. AV1!IsSelection(selected)  BY <2>2 DEF AvInv
        <4>2. UNCHANGED <<avPage, resolved, selected>>  BY <2>2, <2>6
        <4> QED  BY <4>1, <4>2, PageStays
                 DEF AV1!IsSelection, AV1!HasBoth, AV1!IsBest, AV1!Better, AV1!Earlier,
                       AV1!InAudio, AV1!AudioOf, AV1!Others
      <3> QED  BY <1>7, <2>2, <2>4, <2>5, <2>6, <3>1 DEF AvInv, AV1!TrySlow
    <2>7. CASE resolved' # resolved
      BY <1>7, <2>2, <2>4, <2>5, <2>7 DEF AvInv, AV1!TrySlow
    <2> QED  BY <2>6, <2>7
  <1>8. CASE AV1!Stop
    <2>1. /\ avPc = "slow" /\ AV1!Slow \subseteq avTried /\ UNCHANGED <<avPage, avTried,
               resolved, selected>>
          /\ avPc' = IF selected = <<>> THEN "failed" ELSE "done"
      BY <1>8 DEF AV1!Stop
    <2>2. AV1!Kept \subseteq avTried  BY <2>1 DEF AvInv, AV1!Fast
    <2>3. AV1!IsSelection(selected)'
      <3>1. AV1!IsSelection(selected)  BY <2>1 DEF AvInv
      <3> QED  BY <2>1, <3>1, PageStays
               DEF AV1!IsSelection, AV1!HasBoth, AV1!IsBest, AV1!Better, AV1!Earlier,
                     AV1!InAudio, AV1!AudioOf, AV1!Others
    <2>4. AV1!Kept' = AV1!Kept /\ AV1!Fast' = AV1!Fast  BY <2>1, PageStays
    <2> QED  BY <2>1, <2>2, <2>3, <2>4 DEF AvInv
  <1> QED  BY <1>1, <1>2, <1>3, <1>5, <1>6, <1>7, <1>8 DEF AV1!Next

LEMMA AvKeepsBoth == AV1!Spec => []AV1!BothVariantsKept
  <1>1. AvInv => AV1!BothVariantsKept
    <2> SUFFICES ASSUME AvInv  PROVE AV1!BothVariantsKept
      OBVIOUS
    <2>1. ASSUME avPc = "failed", NEW k \in AV1!Kept  PROVE AV1!Failed(k)
      <3>1. k \in avTried /\ selected = <<>> /\ AV1!IsSelection(selected)  BY <2>1 DEF AvInv
      <3>2. resolved = {}  BY <3>1 DEF AV1!IsSelection
      <3> QED  BY <3>1, <3>2 DEF AV1!Failed
    <2>2. ASSUME avPc = "done", AV1!Variants = {"sub", "dub"}
          PROVE  \/ /\ Len(selected) = 2
                    /\ AV1!IsBest(selected[1], AV1!InAudio("sub")) /\ AV1!IsBest(selected[2],
                         AV1!InAudio("dub"))
                 \/ \E a \in {"sub", "dub"} :
                      \A k \in AV1!Kept : AV1!Audio(avPage[k].track) = a => AV1!Failed(k)
      <3>1. AV1!IsSelection(selected) /\ (AV1!Kept \subseteq avTried \/ ~AV1!NeedsMore(selected))
        BY <2>2 DEF AvInv
      <3>2. CASE AV1!HasBoth
        <4>1. resolved # {}  BY <3>2 DEF AV1!HasBoth, AV1!InAudio
        <4>2. PICK x \in AV1!InAudio("sub"), y \in AV1!InAudio("dub") :
                 AV1!IsBest(x, AV1!InAudio("sub")) /\ AV1!IsBest(y,
                     AV1!InAudio("dub")) /\ selected = <<x, y>>
          BY <3>1, <3>2, <4>1 DEF AV1!IsSelection
        <4> QED  BY <4>2
      <3>3. CASE ~AV1!HasBoth
        <4>1. PICK a \in {"sub", "dub"} : AV1!InAudio(a) = {}  BY <2>2, <3>3 DEF AV1!HasBoth
        <4>2. AV1!NeedsMore(selected)
          <5>1. ASSUME NEW k \in DOMAIN selected  PROVE selected[k] \in resolved
            <6>1. CASE selected = <<>>  BY <5>1, <6>1
            <6>2. ASSUME NEW x \in resolved, selected = <<x>>
                  PROVE selected[k] \in resolved
              BY <5>1, <6>2
            <6>3. ASSUME NEW x \in resolved, NEW y \in resolved, selected = <<x, y>>
                  PROVE  selected[k] \in resolved
              BY <5>1, <6>3
            <6>4. \A x : AV1!Others(x) \subseteq resolved  BY DEF AV1!Others
            <6> QED  BY <3>1, <3>3, <6>1, <6>2, <6>3, <6>4 DEF AV1!IsSelection
          <5>2. \A k \in DOMAIN selected : AV1!AudioOf(selected[k]) # a  BY <4>1,
                  <5>1 DEF AV1!InAudio
          <5> QED  BY <2>2, <5>2 DEF AV1!NeedsMore
        <4>3. AV1!Kept \subseteq avTried  BY <3>1, <4>2
        <4>4. ASSUME NEW k \in AV1!Kept, AV1!Audio(avPage[k].track) = a  PROVE AV1!Failed(k)
          <5>1. \A x \in resolved : x.at # k  BY <4>1, <4>4 DEF AV1!InAudio, AV1!AudioOf
          <5> QED  BY <4>3, <5>1 DEF AV1!Failed
        <4> QED  BY <4>4
      <3> QED  BY <3>2, <3>3
    <2> QED  BY <2>1, <2>2 DEF AV1!BothVariantsKept
  <1> QED  BY <1>1, AvInvInit, AvInvNext, PTL DEF AV1!Spec

----------------------------------------------------------------------------
(* AnimeKai: sessions with a browser. *)
KaiAllAsked == ~kaiLate => \A k \in DOMAIN kaiServers : k <= KaiTries => k \in kaiAsked

\* Where a call is, and what it has tried before.
KaiTyped ==
  /\ kaiPc \in Kai!Sessions \cup {"list", "ajax", "resolve", "done"}
  /\ kaiServers \in KaiServers \cup {<<>>} /\ kaiAt \in Nat \ {0}
  /\ kaiPc # "done" => kaiAnswer = "none"
  /\ kaiPc = "list" => kaiServers = <<>>
  /\ kaiPc \in {"list", "watch"} => kaiAt = 1

KaiTried ==
  /\ shown # Absent => kaiPc \in kaiTried /\ kaiPc \in Kai!Sessions
  /\ hasWatch /\ kaiPc \in {"ajax", "embed", "resolve", "last"} => "watch" \in kaiTried
  /\ kaiPc \in {"ajax", "embed", "resolve"} => \A k \in 1 .. kaiAt - 1 : k \in kaiAsked
  /\ kaiPc \in {"embed", "resolve"} => kaiAt \in kaiAsked
  /\ kaiPc = "last" => KaiAllAsked

KaiAnswered ==
  /\ kaiAnswer \in {"nothing", "challenge"} /\ kaiServers # <<>> =>
       KaiAllAsked /\ (hasWatch => {"watch", "last"} \subseteq kaiTried)
  /\ kaiAnswer = "streams" => sources # {}

KaiInv == KaiTyped /\ KaiTried /\ KaiAnswered

LEMMA KaiListed ==
  ASSUME Kai!AnimeKaiAssumption, kaiServers \in KaiServers \cup {<<>>}
  PROVE  Len(kaiServers) \in Nat /\ DOMAIN kaiServers = 1 .. Len(kaiServers)
  <1> DEFINE Pages == DOMAIN Plays
  <1>1. kaiServers # <<>> => kaiServers \in Seq(Pages)  BY DEF Kai!AnimeKaiAssumption
  <1>2. CASE kaiServers = <<>>  BY <1>2
  <1> HIDE DEF Pages
  <1>3. CASE kaiServers # <<>>  BY <1>1, <1>3
  <1> QED  BY <1>2, <1>3

LEMMA KaiInvInit == Kai!Init => KaiInv
  BY DEF Kai!Init, KaiInv, KaiTyped, KaiTried, KaiAnswered

\* A session that found nothing leaves the call where it has tried what it must.
LEMMA GoOnKeeps ==
  ASSUME KaiInv, kaiPc \in Kai!Sessions, Kai!GoOn, kaiPc \in kaiTried',
         kaiTried \subseteq kaiTried',
         UNCHANGED <<hasWatch, kaiServers, kaiAt, kaiAsked, sources>>, kaiLate => kaiLate',
             shown' = Absent
  PROVE  KaiInv'
  <1>1. CASE kaiPc = "watch" /\ Kai!Goto("ajax")
    <2>1. KaiTyped'  BY <1>1 DEF KaiInv, KaiTyped, Kai!Goto
    <2>2. KaiTried'
      <3>1. 1 .. kaiAt' - 1 = {}  BY <1>1 DEF KaiInv, KaiTyped
      <3> QED  BY <1>1, <3>1 DEF Kai!Goto, KaiTried
    <2>3. KaiAnswered'  BY <1>1 DEF KaiInv, KaiTyped, Kai!Goto, KaiAnswered
    <2> QED  BY <2>1, <2>2, <2>3 DEF KaiInv
  <1>2. CASE kaiPc = "embed" /\ Kai!Goto("resolve")
    <2>1. KaiTyped'  BY <1>2 DEF KaiInv, KaiTyped, Kai!Goto
    <2>2. KaiTried'  BY <1>2 DEF KaiInv, KaiTried, Kai!Goto
    <2>3. KaiAnswered'  BY <1>2 DEF KaiInv, KaiTyped, Kai!Goto, KaiAnswered
    <2> QED  BY <2>1, <2>2, <2>3 DEF KaiInv
  <1>3. CASE kaiPc = "instead" /\ Kai!Return("unlisted")
    BY <1>3 DEF KaiInv, KaiTyped, KaiTried, KaiAnswered, Kai!Return
  <1>4. CASE kaiPc = "last" /\ Kai!Return(IF challenged' THEN "challenge" ELSE "nothing")
    <2>1. KaiAllAsked'  BY <1>4 DEF KaiInv, KaiTried, KaiAllAsked
    <2>2. hasWatch' => {"watch", "last"} \subseteq kaiTried'  BY <1>4 DEF KaiInv, KaiTried
    <2> QED  BY <1>4, <2>1, <2>2 DEF KaiInv, KaiTyped, KaiTried, KaiAnswered, Kai!Return
  <1> QED  BY <1>1, <1>2, <1>3, <1>4 DEF Kai!GoOn

LEMMA FinishKeeps ==
  ASSUME KaiInv, NEW found, found # {}, Kai!Finish(found)
  PROVE  KaiInv'
  BY DEF KaiInv, KaiTyped, KaiTried, KaiAnswered, Kai!Finish, Kai!Return

LEMMA KaiInvNext == Kai!AnimeKaiAssumption /\ KaiInv /\ [Kai!Next]_(Kai!vars) => KaiInv'
  <1> SUFFICES ASSUME Kai!AnimeKaiAssumption, KaiInv, [Kai!Next]_(Kai!vars)  PROVE KaiInv'
    OBVIOUS
  <1>1. CASE Kai!ListServers
    <2>1. kaiPc = "list" /\ kaiServers = <<>> /\ kaiAt = 1 /\ kaiAnswer = "none"
          /\ UNCHANGED <<hasWatch, kaiAt, kaiLate, challenged, shown, captured, sources,
               kaiAsked, kaiTried>>
          /\ shown = Absent
      BY <1>1 DEF Kai!ListServers, KaiInv, KaiTyped, KaiTried, Kai!Sessions
    <2>2. CASE kaiPc' \in {"instead", "done"} /\ UNCHANGED kaiServers
               /\ (kaiPc' = "done" => kaiAnswer' \in {"unlisted", "challenge"})
               /\ (kaiPc' # "done" => UNCHANGED kaiAnswer)
      BY <2>1, <2>2 DEF KaiInv, KaiTyped, KaiTried, KaiAnswered, Kai!Sessions
    <2>3. CASE kaiServers' \in KaiServers /\ Kai!Goto(IF hasWatch THEN "watch" ELSE "ajax")
      <3>1. 1 .. kaiAt' - 1 = {}  BY <2>1
      <3>2. kaiPc' = IF hasWatch THEN "watch" ELSE "ajax"  BY <2>3 DEF Kai!Goto
      <3>3. UNCHANGED kaiAnswer  BY <2>3 DEF Kai!Goto
      <3> QED  BY <2>1, <2>3, <3>1, <3>2, <3>3 DEF KaiInv, KaiTyped, KaiTried, KaiAnswered,
            Kai!Sessions
    <2> QED  BY <1>1, <2>2, <2>3 DEF Kai!ListServers, Kai!Goto, Kai!Return
  <1>2. CASE Kai!OpenBrowser
    <2>1. /\ kaiPc \in Kai!Sessions /\ shown = Absent /\ kaiTried' = kaiTried \cup {kaiPc}
          /\ UNCHANGED <<hasWatch, kaiServers, kaiAt, kaiLate, sources, kaiAsked>>
      BY <1>2 DEF Kai!OpenBrowser
    <2>2. CASE shown' = Watch /\ UNCHANGED <<kaiPc, challenged, kaiAnswer>>
      BY <2>1, <2>2 DEF KaiInv, KaiTyped, KaiTried, KaiAnswered, KaiAllAsked, Kai!Sessions
    <2>3. CASE Kai!GoOn /\ UNCHANGED shown
      BY <2>1, <2>3, GoOnKeeps
    <2> QED  BY <1>2, <2>2, <2>3 DEF Kai!OpenBrowser
  <1>3. CASE Kai!Navigate
    <2>1. /\ kaiPc = "embed" /\ shown # Absent /\ kaiPc \in kaiTried
          /\ UNCHANGED <<hasWatch, kaiServers, kaiAt, kaiLate, captured, sources, kaiAsked,
               kaiTried>>
      BY <1>3 DEF Kai!Navigate, Kai!AnimeKaiAssumption, KaiInv, KaiTried
    <2>2. CASE UNCHANGED <<kaiPc, challenged, kaiAnswer>>
      BY <2>1, <2>2 DEF KaiInv, KaiTyped, KaiTried, KaiAnswered, KaiAllAsked, Kai!Sessions
    <2>3. CASE shown' = Absent /\ Kai!GoOn
      BY <2>1, <2>3, GoOnKeeps DEF Kai!Sessions
    <2> QED  BY <1>3, <2>2, <2>3 DEF Kai!Navigate
  <1>4. CASE Kai!Capture
    BY <1>4 DEF Kai!Capture, KaiInv, KaiTyped, KaiTried, KaiAnswered, KaiAllAsked
  <1>5. CASE Kai!ShowCaptured
    BY <1>5, FinishKeeps DEF Kai!ShowCaptured
  <1>6. CASE Kai!ShowCandidates
    <2>1. \E S : S # {} /\ Kai!Finish(S)
      <3> HIDE DEF Kai!Frames
      <3> QED  BY <1>6, Zenon DEF Kai!ShowCandidates
    <2> QED  BY <2>1, FinishKeeps
  <1>7. CASE Kai!TimeOut
    BY <1>7, GoOnKeeps DEF Kai!TimeOut, Kai!Polls, KaiInv, KaiTried
  <1>8. CASE Kai!Ask
    <2>1. /\ kaiPc = "ajax" /\ kaiAsked' = kaiAsked \cup {kaiAt}
          /\ UNCHANGED <<hasWatch, kaiServers, kaiLate, shown, captured, sources, kaiTried>>
          /\ kaiAt \in Nat \ {0} /\ kaiAnswer = "none" /\ shown = Absent
      BY <1>8 DEF Kai!Ask, KaiInv, KaiTyped, KaiTried, Kai!Sessions
    <2>2. CASE kaiAt' = kaiAt + 1 /\ UNCHANGED <<kaiPc, kaiAnswer>>
      <3>1. \A k \in 1 .. kaiAt' - 1 : k \in kaiAsked'  BY <2>1, <2>2 DEF KaiInv, KaiTried
      <3> QED  BY <2>1, <2>2, <3>1 DEF KaiInv, KaiTyped, KaiTried, KaiAnswered
    <2>3. CASE Kai!Goto(IF hasWatch THEN "embed" ELSE "resolve") /\ UNCHANGED <<kaiAt,
                 challenged>>
      <3>1. kaiPc' \in {"embed", "resolve"} /\ UNCHANGED kaiAnswer  BY <2>3 DEF Kai!Goto
      <3> QED  BY <2>1, <2>3, <3>1 DEF KaiInv, KaiTyped, KaiTried, KaiAnswered, Kai!Sessions
    <2> QED  BY <1>8, <2>2, <2>3 DEF Kai!Ask
  <1>9. CASE Kai!Resolve
    <2>1. /\ kaiPc = "resolve" /\ kaiAt' = kaiAt + 1 /\ kaiPc' = "ajax" /\ UNCHANGED kaiAnswer
          /\ UNCHANGED <<hasWatch, kaiServers, kaiLate, challenged, shown, captured,
               kaiAsked, kaiTried>>
          /\ kaiAt \in Nat \ {0} /\ kaiAnswer = "none" /\ shown = Absent
      BY <1>9 DEF Kai!Resolve, Kai!Goto, KaiInv, KaiTyped, KaiTried, Kai!Sessions
    <2>2. \A k \in 1 .. kaiAt' - 1 : k \in kaiAsked'  BY <2>1 DEF KaiInv, KaiTried
    <2> QED  BY <2>1, <2>2 DEF KaiInv, KaiTyped, KaiTried, KaiAnswered
  <1>10. CASE Kai!Stop
    <2>1. /\ kaiPc = "ajax" /\ ~Kai!More /\ kaiAt \in Nat \ {0} /\ kaiAnswer = "none" /\ shown = Absent
          /\ UNCHANGED <<hasWatch, kaiServers, kaiAt, kaiLate, challenged, shown, captured,
               sources,
                         kaiAsked, kaiTried>>
      BY <1>10 DEF Kai!Stop, KaiInv, KaiTyped, KaiTried, Kai!Sessions
    <2>2. CASE sources # {} /\ Kai!Return("streams")
      BY <2>1, <2>2 DEF KaiInv, KaiTyped, KaiTried, KaiAnswered, Kai!Return
    <2>3. ASSUME sources = {}  PROVE KaiAllAsked'
      <3>1. Cardinality(sources) < Enough
        BY <2>3, FS_EmptySet DEF Kai!AnimeKaiAssumption
      <3>2. kaiAt > Len(kaiServers) \/ kaiAt > KaiTries \/ kaiLate
        <4>1. Len(kaiServers) \in Nat /\ KaiTries \in Nat
          BY KaiListed DEF Kai!AnimeKaiAssumption, KaiInv, KaiTyped
        <4> QED  BY <2>1, <3>1, <4>1, SameSize DEF Kai!More
      <3>3. KaiTries \in Nat /\ Len(kaiServers) \in Nat /\ DOMAIN kaiServers = 1 .. Len(kaiServers)
        BY KaiListed DEF Kai!AnimeKaiAssumption, KaiInv, KaiTyped
      <3>4. \A k \in 1 .. kaiAt - 1 : k \in kaiAsked  BY <2>1 DEF KaiInv, KaiTried
      <3>5. ASSUME ~kaiLate, NEW k \in DOMAIN kaiServers, k <= KaiTries
            PROVE k \in kaiAsked
        BY <2>1, <3>2, <3>3, <3>4, <3>5
      <3>6. KaiAllAsked  BY <3>5 DEF KaiAllAsked
      <3> QED  BY <2>1, <3>6 DEF KaiAllAsked
    <2>4. CASE sources = {} /\ hasWatch /\ Kai!Goto("last")
      BY <2>1, <2>3, <2>4 DEF KaiInv, KaiTyped, KaiTried, KaiAnswered, Kai!Goto,
           Kai!Sessions
    <2>5. CASE sources = {} /\ ~hasWatch /\ Kai!Return(IF challenged THEN "challenge" ELSE "nothing")
      BY <2>1, <2>3, <2>5 DEF KaiInv, KaiTyped, KaiTried, KaiAnswered, Kai!Return
    <2> QED  BY <1>10, <2>2, <2>4, <2>5 DEF Kai!Stop
  <1>11. CASE Kai!Pass
    BY <1>11 DEF Kai!Pass, KaiInv, KaiTyped, KaiTried, KaiAnswered, KaiAllAsked
  <1>12. CASE UNCHANGED Kai!vars
    BY <1>12 DEF Kai!vars, KaiInv, KaiTyped, KaiTried, KaiAnswered, KaiAllAsked
  <1> QED
    BY <1>1, <1>2, <1>3, <1>4, <1>5, <1>6, <1>7, <1>8, <1>9, <1>10, <1>11, <1>12
    DEF Kai!Next, Kai!Step

LEMMA KaiTriesAll ==
  Kai!AnimeKaiAssumption => (Kai!Spec => []Kai!NothingIsLeftUntried)
  <1> SUFFICES ASSUME Kai!AnimeKaiAssumption  PROVE Kai!Spec => []Kai!NothingIsLeftUntried
    OBVIOUS
  <1>1. KaiInv => Kai!NothingIsLeftUntried
    BY DEF KaiInv, Kai!NothingIsLeftUntried, KaiAnswered, KaiAllAsked
  <1> QED  BY <1>1, KaiInvInit, KaiInvNext, PTL DEF Kai!Spec

----------------------------------------------------------------------------
(* AnimeNinja: servers, frames, and the rendered page. *)
NinTyped ==
  /\ ninPage \in NinPages \cup {Absent} /\ (ninPage = Absent => ninPc \in {"fetch", "done"})
  /\ ninPc \in {"fetch", "servers", "frames", "browser", "done"}
  /\ ninAt \in Nat \ {0}
  /\ ninAnswer \in NinEmbeds \cup {Absent, "unread", "error"}

NinAllAsked ==
  ~ninLate => \A k \in DOMAIN ninPage.servers : k <= NinTries
      => ninPage.servers[k] \in ninAsked

AllSeen == \A k \in DOMAIN ninPage.frames : ninPage.frames[k] \in ninSeen

\* What was tried where the call is.
NinTried ==
  /\ ninPc = "fetch" => ninAt = 1
  /\ ninPc = "servers" => \A k \in DOMAIN ninPage.servers : k < ninAt
       => ninPage.servers[k] \in ninAsked
  /\ ninPc = "frames" => NinAllAsked /\ \A k \in DOMAIN ninPage.frames : k < ninAt
       => ninPage.frames[k] \in ninSeen
  /\ ninPc = "browser" => NinAllAsked /\ AllSeen
  /\ ninAnswer = "error" => NinAllAsked /\ AllSeen
  /\ ninPc # "done" => ninAnswer = Absent

Rendered ==
  /\ ninPc \in {"fetch", "servers", "frames"} => rendered = {}
  /\ ninAnswer \in Foreign => ninAnswer \notin rendered

NinInv == NinTyped /\ NinTried /\ Rendered

LEMMA NinNoConfusion ==
  Nin!AnimeNinjaAssumption =>
    /\ Absent \notin NinEmbeds /\ "unread" \notin NinEmbeds /\ "error" \notin NinEmbeds
    /\ Absent # "error" /\ Absent # "unread" /\ Absent \notin NinPages /\ Foreign \subseteq NinEmbeds /\ NinTries \in Nat \ {0}
  BY DEF Nin!AnimeNinjaAssumption

LEMMA NinListed ==
  ASSUME Nin!AnimeNinjaAssumption, ninPage \in NinPages
  PROVE  /\ Len(ninPage.servers) \in Nat /\ DOMAIN ninPage.servers = 1 .. Len(ninPage.servers)
         /\ Len(ninPage.frames) \in Nat /\ DOMAIN ninPage.frames = 1 .. Len(ninPage.frames)
         /\ \A k \in DOMAIN ninPage.frames : ninPage.frames[k] \in NinEmbeds
  <1>1. ninPage.servers \in Seq(NinServers) /\ ninPage.frames \in Seq(NinEmbeds)
    BY DEF Nin!AnimeNinjaAssumption
  <1> QED  BY <1>1

LEMMA NinInvInit == Nin!AnimeNinjaAssumption /\ Nin!Init => NinInv
  <1> SUFFICES ASSUME Nin!AnimeNinjaAssumption, Nin!Init  PROVE NinInv
    OBVIOUS
  <1>1. NinTyped  BY NinNoConfusion DEF Nin!Init, NinTyped
  <1>2. NinTried  BY NinNoConfusion DEF Nin!Init, NinTried
  <1>3. Rendered  BY NinNoConfusion DEF Nin!Init, Rendered
  <1> QED  BY <1>1, <1>2, <1>3 DEF NinInv

LEMMA InvStep == Nin!AnimeNinjaAssumption /\ NinInv /\ [Nin!Next]_(Nin!vars) => NinInv'
  <1> SUFFICES ASSUME Nin!AnimeNinjaAssumption, NinInv, [Nin!Next]_(Nin!vars)  PROVE NinInv'
    OBVIOUS
  <1> USE NinNoConfusion
  <1> USE DEF NinInv, NinTyped
  <1>1. CASE Nin!Fetch
    <2>1. CASE Nin!Return("unread")  BY <1>1, <2>1 DEF Nin!Fetch, Nin!Return, NinTried,
                 Rendered
    <2>2. CASE ninPage' \in NinPages /\ Nin!Goto("servers")
      <3>1. Len(ninPage'.servers) \in Nat /\ DOMAIN ninPage'.servers = 1 .. Len(ninPage'.servers)
        <4>1. ninPage'.servers \in Seq(NinServers)  BY <2>2 DEF Nin!AnimeNinjaAssumption
        <4> QED  BY <4>1
      <3>2. /\ ninPc = "fetch" /\ ninPc' = "servers" /\ ninAt = 1 /\ ninAnswer = Absent /\ rendered = {}
            /\ UNCHANGED <<ninAt, ninLate, ninSeen, rendered, ninAsked,
                 ninAnswer>> /\ ninPage' \in NinPages
        BY <1>1, <2>2 DEF Nin!Fetch, Nin!Goto, NinTried, Rendered
      <3>3. NinTyped'  BY <3>2
      <3>4. NinTried'  BY <3>1, <3>2 DEF NinTried
      <3>5. Rendered'  BY <3>2 DEF Rendered
      <3> QED  BY <3>3, <3>4, <3>5
    <2> QED  BY <1>1, <2>1, <2>2 DEF Nin!Fetch
  <1>2. CASE Nin!AskServer
    <2>1. ninPage \in NinPages /\ UNCHANGED ninPage /\ UNCHANGED ninLate /\ UNCHANGED rendered
          /\ rendered = {} /\ ninAnswer = Absent
      BY <1>2 DEF Nin!AskServer, NinTried, Rendered
    <2>2. CASE ninAt' = ninAt + 1 /\ UNCHANGED <<ninPc, ninAnswer>>
      <3>1. ninAsked' = ninAsked \cup {ninPage.servers[ninAt]} /\ ninPc = "servers"  BY <1>2 DEF Nin!AskServer
      <3> QED  BY <2>1, <2>2, <3>1, NinListed DEF NinTried, Rendered
    <2>3. CASE \E e \in NinEmbeds : Nin!Return(e) /\ UNCHANGED ninAt
      BY <2>1, <2>3 DEF Nin!Return, NinTried, Rendered
    <2> QED  BY <1>2, <2>2, <2>3 DEF Nin!AskServer, Nin!Try, Nin!Return
  <1>3. CASE Nin!EndServers
    <2>1. ninPage \in NinPages /\ UNCHANGED <<ninPage, ninLate, ninSeen, rendered,
            ninAsked>>
          /\ ninPc = "servers" /\ ninPc' = "frames" /\ ninAt' = 1 /\ UNCHANGED ninAnswer /\ ~Nin!MoreServers
      BY <1>3 DEF Nin!EndServers, Nin!Goto
    <2>2. NinAllAsked'  BY <2>1, NinListed DEF NinAllAsked, NinTried, Nin!MoreServers
    <2> QED  BY <2>1, <2>2, NinListed DEF NinTried, Rendered, NinAllAsked
  <1>4. CASE Nin!TryFrame
    <2>1. ninPage \in NinPages /\ UNCHANGED ninPage /\ UNCHANGED ninLate /\ UNCHANGED rendered
          /\ UNCHANGED ninAsked /\ rendered = {} /\ ninAnswer = Absent /\ NinAllAsked
          /\ ninPage.frames[ninAt] \in NinEmbeds /\ ninSeen' = ninSeen \cup {ninPage.frames[ninAt]} /\ ninPc = "frames"
      BY <1>4, NinListed DEF Nin!TryFrame, NinTried, Rendered
    <2>2. CASE ninAt' = ninAt + 1 /\ UNCHANGED <<ninPc, ninAnswer>>
      BY <2>1, <2>2, NinListed DEF NinTried, Rendered, NinAllAsked
    <2>3. CASE Nin!Return(ninPage.frames[ninAt]) /\ UNCHANGED ninAt
      BY <2>1, <2>3 DEF Nin!Return, NinTried, Rendered
    <2> QED  BY <1>4, <2>2, <2>3 DEF Nin!TryFrame, Nin!Try, Nin!Return
  <1>5. CASE Nin!OpenBrowser
    <2>1. ninPage \in NinPages /\ UNCHANGED <<ninPage, ninAt, ninLate, ninSeen, rendered,
            ninAsked>>
          /\ ninPc = "frames" /\ ninAt > Len(ninPage.frames)
      BY <1>5 DEF Nin!OpenBrowser
    <2>2. NinAllAsked /\ AllSeen  BY <2>1, NinListed DEF NinTried, AllSeen
    <2>3. NinAllAsked' /\ AllSeen'  BY <2>1, <2>2 DEF NinAllAsked, AllSeen
    <2> QED  BY <1>5, <2>1, <2>3 DEF Nin!OpenBrowser, Nin!Goto, Nin!Return, NinTried,
          Rendered
  <1>6. CASE Nin!TryRendered
    <2>1. PICK e \in NinEmbeds \ rendered :
            /\ rendered' = rendered \cup {e}
            /\ UNCHANGED <<ninPc, ninAnswer>> \/ (e \notin Foreign /\ Nin!Return(e))
      BY <1>6 DEF Nin!TryRendered
    <2>2. UNCHANGED <<ninPage, ninAt, ninLate, ninSeen,
            ninAsked>> /\ ninPc = "browser"  BY <1>6 DEF Nin!TryRendered
    <2>3. NinAllAsked' /\ AllSeen'  BY <2>2 DEF NinAllAsked, AllSeen, NinTried
    <2> QED  BY <2>1, <2>2, <2>3 DEF Nin!Return, NinTried, Rendered
  <1>7. CASE Nin!TimeOut
    <2>1. NinAllAsked' /\ AllSeen'  BY <1>7 DEF Nin!TimeOut, NinAllAsked, AllSeen, NinTried
    <2> QED  BY <1>7, <2>1 DEF Nin!TimeOut, Nin!Return, NinTried, Rendered
  <1>8. CASE Nin!Pass  BY <1>8 DEF Nin!Pass, NinTried, Rendered
  <1>9. CASE UNCHANGED Nin!vars  BY <1>9 DEF Nin!vars, NinTried, Rendered, NinAllAsked,
               AllSeen
  <1> QED  BY <1>1, <1>2, <1>3, <1>4, <1>5, <1>6, <1>7, <1>8, <1>9 DEF Nin!Next, Nin!Step

LEMMA NinTriesAll ==
  Nin!AnimeNinjaAssumption => (Nin!Spec => []Nin!NothingIsLeftUntried)
  <1> SUFFICES ASSUME Nin!AnimeNinjaAssumption  PROVE Nin!Spec => []Nin!NothingIsLeftUntried
    OBVIOUS
  <1>1. NinInv => Nin!NothingIsLeftUntried
    BY DEF NinInv, Nin!NothingIsLeftUntried, NinTried, Rendered, NinAllAsked, AllSeen
  <1> QED  BY <1>1, NinInvInit, InvStep, PTL DEF Nin!Spec

----------------------------------------------------------------------------
(* JKAnime: episodes, embeds and download links. *)
Distinct(s) == \A k, l \in DOMAIN s : k # l => JkUrl[s[k]] # JkUrl[s[l]]
Ranked(s, rank) == \A k, l \in DOMAIN s : k < l => rank[s[k]] <= rank[s[l]]

\* d has the items of s in the order of their ranks.
Reordered(d, s, rank) ==
  \E q \in [DOMAIN s -> DOMAIN s] :
    /\ \A k \in DOMAIN s : d[k] = s[q[k]]
    /\ \A k, l \in DOMAIN s : k < l => rank[q[k]] <= rank[q[l]]

\* Where a call may be.
JkTyped ==
  /\ jkShow \in JkHints /\ jkList \in JkLists /\ most \in Nat /\ jkAt \in Nat \ {0}
  /\ jkFrom \in Seq(JkItems) /\ jkFound \in Seq(JkItems)
  /\ got \in Seq([stream : JkStreams, item : JkItems])
  /\ jkPc \in {"start", "pages", "collect", "resolve", "sort", "done", "failed", "panicked"}
  /\ jkCall \in {"episodes", "streams", "links", "hrefs"}
  /\ jkPc = "pages" => jkCall = "episodes"
  /\ jkPc = "collect" => jkCall # "episodes"
  /\ jkPc = "resolve" => jkCall = "streams"
  /\ jkPc = "sort" => jkCall = "links"
  /\ jkCall = "episodes" => jkFrom = <<>> /\ jkFound = <<>>
  /\ jkPc = "start" => jkAt = 1 /\ jkFrom = <<>> /\ jkCall # "hrefs"
  /\ jkPc \in {"start", "collect"} => jkLow = 1 /\ jkHigh = 2 /\ got = <<>> /\ jkTried = {}

Counting ==
  /\ jkPc = "start" => most = 0 /\ jkCount = 0
  /\ jkPc = "pages" => ~JK!NoMoreThanPlanned(jkShow.marker)
  /\ JK!PlannedIsLastResort

\* The items that were collected, each address once.
Collected ==
  /\ jkPc = "start" => jkFound = <<>>
  /\ jkPc = "collect"
       => JK!UrlsOf(jkFound) = {JkUrl[jkFrom[k]] : k \in 1 .. jkAt - 1} /\ jkAt <= Len(jkFrom) + 1
  /\ jkPc \in {"resolve", "sort", "done"} => JK!UrlsOf(jkFound) = JK!UrlsOf(jkFrom)
  /\ Distinct(jkFound)

JkResolving ==
  /\ jkPc = "resolve" =>
       /\ Ranked(jkFound, JkPriority)
       /\ jkTried = {jkFound[k] : k \in {k \in DOMAIN jkFound : k < jkAt}}
       /\ \A l \in DOMAIN got : got[l].item \in jkTried
  /\ jkCall = "streams" /\ jkPc = "failed"
       => \A k \in DOMAIN jkFound : jkFound[k] \in jkTried
  /\ jkCall = "streams" /\ jkPc = "done" => JK!NothingIsLeftUntried

\* The exchange sort: what stands before low ranks lowest, and the item at low
\* no higher than those it was compared with.
Sorting ==
  /\ jkPc = "sort" =>
       /\ jkLow \in Nat \ {0} /\ jkHigh \in Nat /\ jkLow < jkHigh
       /\ \A k, l \in DOMAIN jkFound : k < jkLow /\ k < l
            => JkHostRank[jkFound[k]] <= JkHostRank[jkFound[l]]
       /\ \A l \in DOMAIN jkFound : jkLow < l /\ l < jkHigh =>
            JkHostRank[jkFound[jkLow]] <= JkHostRank[jkFound[l]]
  /\ jkCall = "links" /\ jkPc = "done" => Ranked(jkFound, JkHostRank)
  /\ jkCall = "hrefs" /\ jkPc = "done" =>
       \A k, l \in DOMAIN jkFound : k < l /\ jkFound[l] \in Mediafire
           => jkFound[k] \in Mediafire

JkInv == JkTyped /\ Counting /\ Collected /\ JkResolving /\ Sorting

----------------------------------------------------------------------------
LEMMA Numbers ==
  ASSUME JK!JKAnimeAssumption, jkShow \in JkHints
  PROVE  jkShow.total \in Nat /\ jkShow.marker \in Nat /\ JK!FromPageHTML \in Nat
  BY DEF JK!JKAnimeAssumption, JK!FromPageHTML

LEMMA Ranks ==
  JK!JKAnimeAssumption => \A x \in JkItems : JkPriority[x] \in Nat /\ JkHostRank[x] \in Nat
  BY DEF JK!JKAnimeAssumption

LEMMA Lengths ==
  ASSUME NEW S, NEW s \in Seq(S)
  PROVE  /\ Len(s) \in Nat /\ DOMAIN s = 1 .. Len(s) /\ s \in [1 .. Len(s) -> S]
         /\ \A k \in DOMAIN s : s[k] \in S
         /\ s = <<>> <=> Len(s) = 0
  OBVIOUS

LEMMA SameUrls ==
  ASSUME NEW s, NEW d, NEW D, D = DOMAIN s, D = DOMAIN d,
         \A k \in D : \E l \in D : d[k] = s[l], \A k \in D : \E l \in D : s[k] = d[l]
  PROVE  JK!UrlsOf(d) = JK!UrlsOf(s)
  <1>1. ASSUME NEW u \in JK!UrlsOf(d)  PROVE u \in JK!UrlsOf(s)
    <2>1. PICK k \in D : u = JkUrl[d[k]]  BY DEF JK!UrlsOf
    <2>2. PICK l \in D : d[k] = s[l]  OBVIOUS
    <2> QED  BY <2>1, <2>2 DEF JK!UrlsOf
  <1>2. ASSUME NEW u \in JK!UrlsOf(s)  PROVE u \in JK!UrlsOf(d)
    <2>1. PICK k \in D : u = JkUrl[s[k]]  BY DEF JK!UrlsOf
    <2>2. PICK l \in D : s[k] = d[l]  OBVIOUS
    <2> QED  BY <2>1, <2>2 DEF JK!UrlsOf
  <1> QED  BY <1>1, <1>2

\* A stable sort keeps the items, and puts them in the order of their ranks.
LEMMA SortKeeps ==
  ASSUME NEW s \in Seq(JkItems), NEW D, D = DOMAIN s, NEW rank \in [D -> Nat],
         NEW d \in JK!StablySorted(s, rank), Distinct(s)
  PROVE  /\ d \in Seq(JkItems) /\ DOMAIN d = D /\ JK!UrlsOf(d) = JK!UrlsOf(s) /\ Distinct(d)
         /\ Reordered(d, s, rank)
  <1>1. PICK q \in JK!Bijection(D, D) :
          /\ d = [k \in D |-> s[q[k]]]
          /\ \A k, l \in D : k < l => \/ rank[q[k]] < rank[q[l]]
                                      \/ rank[q[k]] = rank[q[l]] /\ q[k] < q[l]
    BY Zenon DEF JK!StablySorted
  <1>2. /\ q \in [D -> D] /\ \A t \in D : \E k \in D : q[k] = t
        /\ \A k, l \in D : q[k] = q[l] => k = l
    BY <1>1 DEF JK!Bijection, JK!Injection, JK!Surjection, JK!IsInjective
  <1>3. Len(s) \in Nat /\ D = 1 .. Len(s) /\ \A k \in D : s[k] \in JkItems  BY Lengths
  <1>4. DOMAIN d = D /\ d \in [1 .. Len(s) -> JkItems]  BY <1>1, <1>2, <1>3
  <1>5. d \in Seq(JkItems)  BY <1>3, <1>4
  <1>6. \A k \in D : d[k] = s[q[k]] /\ q[k] \in D  BY <1>1, <1>2
  <1>7. JK!UrlsOf(d) = JK!UrlsOf(s)
    <2>1. ASSUME NEW k \in D  PROVE \E t \in D : d[k] = s[t]  BY <1>6
    <2>2. ASSUME NEW t \in D  PROVE \E k \in D : s[t] = d[k]
      <3>1. PICK k \in D : q[k] = t  BY <1>2
      <3> QED  BY <1>6, <3>1
    <2> QED  BY <1>4, <2>1, <2>2, SameUrls
  <1>8. Distinct(d)
    <2>1. ASSUME NEW k \in D, NEW l \in D, k # l  PROVE JkUrl[d[k]] # JkUrl[d[l]]
      <3>1. q[k] # q[l] /\ q[k] \in D /\ q[l] \in D  BY <1>2, <2>1
      <3>2. d[k] = s[q[k]] /\ d[l] = s[q[l]]  BY <1>6
      <3>3. JkUrl[s[q[k]]] # JkUrl[s[q[l]]]  BY <3>1, Zenon DEF Distinct
      <3> QED  BY <3>2, <3>3
    <2> QED  BY <1>4, <2>1 DEF Distinct
  <1>9. ASSUME NEW k \in D, NEW l \in D, k < l  PROVE rank[q[k]] <= rank[q[l]]
    <2>1. rank[q[k]] \in Nat /\ rank[q[l]] \in Nat  BY <1>2
    <2>2. rank[q[k]] < rank[q[l]] \/ rank[q[k]] = rank[q[l]]  BY <1>1, <1>9
    <2> QED  BY <2>1, <2>2
  <1>10. Reordered(d, s, rank)  BY <1>2, <1>6, <1>9 DEF Reordered
  <1> QED  BY <1>4, <1>5, <1>7, <1>8, <1>10

\* Two items are exchanged: the items stay, each once.
LEMMA ExchangeKeeps ==
  ASSUME NEW s \in Seq(JkItems), NEW D, D = DOMAIN s, NEW a \in D, NEW b \in D, a # b,
         Distinct(s), NEW d \in [D -> JkItems], d[a] = s[b], d[b] = s[a],
         \A k \in D \ {a, b} : d[k] = s[k]
  PROVE  d \in Seq(JkItems) /\ JK!UrlsOf(d) = JK!UrlsOf(s) /\ Distinct(d)
  <1>1. Len(s) \in Nat /\ D = 1 .. Len(s)  BY Lengths
  <1>2. DOMAIN d = D  OBVIOUS
  <1>3. d \in Seq(JkItems)  BY <1>1
  <1>4. JK!UrlsOf(d) = JK!UrlsOf(s)
    <2>1. ASSUME NEW k \in D  PROVE \E l \in D : d[k] = s[l]
      BY <1>2
    <2>2. ASSUME NEW k \in D  PROVE \E l \in D : s[k] = d[l]
      BY <1>2
    <2> QED  BY <1>2, <2>1, <2>2, SameUrls
  <1>5. Distinct(d)
    BY <1>2 DEF Distinct
  <1> QED  BY <1>3, <1>4, <1>5

----------------------------------------------------------------------------
LEMMA JkInvInit == JK!JKAnimeAssumption /\ JK!Init => JkInv
  <1> SUFFICES ASSUME JK!JKAnimeAssumption, JK!Init  PROVE JkInv
    OBVIOUS
  <1>1. JkTyped  BY DEF JK!Init, JkTyped
  <1>2. Counting  BY DEF JK!Init, Counting, JK!PlannedIsLastResort
  <1>3. Collected  BY DEF JK!Init, Collected, Distinct
  <1>4. JkResolving  BY DEF JK!Init, JkResolving
  <1>5. Sorting  BY DEF JK!Init, Sorting
  <1> QED  BY <1>1, <1>2, <1>3, <1>4, <1>5 DEF JkInv

\* The steps that count episodes leave the items alone.
LEMMA EpisodesKeep ==
  ASSUME JK!JKAnimeAssumption, JkInv, JK!ReadShow \/ JK!ReadList \/ JK!EndList \/ JK!Panic
  PROVE  JkInv'
  <1>1. /\ jkCall = "episodes" /\ jkPc \in {"start", "pages"} /\ jkPc' \in {"pages", "done",
             "failed", "panicked"}
        /\ UNCHANGED <<jkCall, jkShow,
             jkList>> /\ UNCHANGED JK!itemVars /\ jkCall # "streams"
        /\ jkCall # "links" /\ jkCall # "hrefs"
    BY DEF JK!ReadShow, JK!ReadList, JK!EndList, JK!Panic, JK!Found, JkInv, JkTyped
  <1>2. /\ jkShow.total \in Nat /\ jkShow.marker \in Nat /\ JK!FromPageHTML \in Nat
        /\ JK!FromPageHTML' = JK!FromPageHTML /\ most \in Nat
    BY <1>1, Numbers DEF JK!FromPageHTML, JkInv, JkTyped
  <1>3. jkFrom = <<>> /\ jkFound = <<>>
    BY <1>1 DEF JkInv, JkTyped
  <1>4. Counting' /\ most' \in Nat /\ jkAt' \in Nat \ {0}
    <2>1. CASE JK!ReadShow
      <3>1. UNCHANGED <<most, jkAt>> /\ most = 0 /\ jkPc = "start"
        BY <2>1 DEF JK!ReadShow, JkInv, Counting
      <3> QED
        BY <1>1, <1>2, <2>1, <3>1
        DEF JK!ReadShow, JK!Found, JK!NoMoreThanPlanned, JkInv, JkTyped, Counting,
              JK!PlannedIsLastResort
    <2>2. CASE JK!ReadList
      <3>1. jkList \in Seq(Nat) /\ jkAt \in DOMAIN jkList
        BY <2>2 DEF JK!ReadList, JkInv, JkTyped, JK!JKAnimeAssumption
      <3>2. jkList[jkAt] \in Nat  BY <3>1
      <3> QED
        BY <1>1, <1>2, <2>2, <3>2
        DEF JK!ReadList, JK!NoMoreThanPlanned, JkInv, JkTyped, Counting,
              JK!PlannedIsLastResort
    <2>3. CASE JK!EndList
      <3>1. UNCHANGED <<most,
              jkAt>> /\ jkPc = "pages" /\ ~JK!NoMoreThanPlanned(jkShow.marker)
        BY <2>3 DEF JK!EndList, JkInv, Counting
      <3> QED
        BY <1>1, <1>2, <2>3, <3>1
        DEF JK!EndList, JK!Found, JK!NoMoreThanPlanned, JkInv, JkTyped, Counting,
              JK!PlannedIsLastResort
    <2>4. CASE JK!Panic
      BY <1>1, <1>2, <2>4
      DEF JK!Panic, JK!itemVars, JkInv, JkTyped, Counting, JK!PlannedIsLastResort
    <2> QED  BY <2>1, <2>2, <2>3, <2>4
  <1>5. JkTyped'  BY <1>1, <1>4 DEF JK!itemVars, JkInv, JkTyped
  <1>6. Collected'  BY <1>1, <1>3 DEF JK!itemVars, JkInv, Collected, JK!UrlsOf, Distinct
  <1>7. JkResolving' /\ Sorting'  BY <1>1 DEF JK!itemVars, JkInv, JkResolving, Sorting
  <1> QED  BY <1>4, <1>5, <1>6, <1>7 DEF JkInv

LEMMA FindKeeps ==
  ASSUME JK!JKAnimeAssumption, JkInv, JK!FindEmbeds \/ JK!FindLinks
  PROVE  JkInv'
  <1>1. /\ jkPc = "start" /\ jkPc' \in {"collect", "failed"}
        /\ jkCall \in {"streams",
             "links"} /\ (jkCall' = jkCall \/ (jkCall = "links" /\ jkCall' = "hrefs"))
        /\ (jkPc' = "failed" => UNCHANGED <<jkCall, jkFrom>>)
        /\ UNCHANGED <<jkShow, jkList, most, jkCount, jkFound, jkAt, jkLow, jkHigh, got,
             jkTried>>
    BY DEF JK!FindEmbeds, JK!FindLinks, JK!episodeVars
  <1>2. /\ jkFrom = <<>> /\ jkFound = <<>> /\ jkAt = 1 /\ jkLow = 1 /\ jkHigh = 2 /\ got = <<>>
        /\ jkTried = {}
    BY <1>1 DEF JkInv, JkTyped, Collected
  <1>3. jkFrom' \in Seq(JkItems)
    <2>1. CASE JK!FindEmbeds
      <3>1. CASE UNCHANGED jkFrom  BY <3>1 DEF JkInv, JkTyped
      <3>2. CASE ~UNCHANGED jkFrom
        <4>1. PICK p \in JkEmbeds : jkFrom' \in {p.inline, p.first, p.second}
          BY <2>1, <3>2 DEF JK!FindEmbeds
        <4> QED  BY <4>1 DEF JK!JKAnimeAssumption
      <3> QED  BY <3>1, <3>2
    <2>2. CASE JK!FindLinks
      <3>1. CASE UNCHANGED jkFrom  BY <3>1 DEF JkInv, JkTyped
      <3>2. CASE ~UNCHANGED jkFrom
        <4>1. PICK p \in JkDownloads : jkFrom' \in {p.servers, p.hrefs}
          BY <2>2, <3>2 DEF JK!FindLinks
        <4> QED  BY <4>1 DEF JK!JKAnimeAssumption
      <3> QED  BY <3>1, <3>2
    <2> QED  BY <2>1, <2>2
  <1>4. JkTyped'  BY <1>1, <1>2, <1>3 DEF JkInv, JkTyped
  <1>5. Counting'  BY <1>1 DEF JkInv, Counting, JK!PlannedIsLastResort
  <1>6. Collected'
    <2>1. JK!UrlsOf(jkFound') = {} /\ 1 .. jkAt' - 1 = {}  BY <1>1, <1>2 DEF JK!UrlsOf
    <2>2. Len(jkFrom') \in Nat  BY <1>3
    <2> QED  BY <1>1, <1>2, <2>1, <2>2 DEF Collected, Distinct
  <1>7. JkResolving' /\ Sorting'  BY <1>1, <1>2 DEF JkResolving, Sorting
  <1> QED  BY <1>4, <1>5, <1>6, <1>7 DEF JkInv

LEMMA JkCollectKeeps ==
  ASSUME JK!JKAnimeAssumption, JkInv, JK!Collect
  PROVE  JkInv'
  <1>1. /\ jkPc = "collect" /\ jkCall # "episodes" /\ jkAt' = jkAt + 1 /\ jkAt \in Nat \ {0}
        /\ UNCHANGED <<jkCall, jkPc, jkShow, jkList, most, jkCount, jkFrom, jkLow, jkHigh,
             got, jkTried>>
    BY DEF JK!Collect, JK!episodeVars, JkInv, JkTyped
  <1>2. /\ jkFound \in Seq(JkItems) /\ jkFrom \in Seq(JkItems) /\ jkAt \in 1 .. Len(jkFrom)
        /\ Len(jkFrom) \in Nat /\ jkFrom[jkAt] \in JkItems /\ Distinct(jkFound)
        /\ JK!UrlsOf(jkFound) = {JkUrl[jkFrom[k]] : k \in 1 .. jkAt - 1}
    <2>1. jkFound \in Seq(JkItems) /\ jkFrom \in Seq(JkItems)  BY DEF JkInv, JkTyped
    <2>2. Len(jkFrom) \in Nat /\ jkAt \in 1 .. Len(jkFrom)  BY <1>1, <2>1 DEF JK!Collect
    <2>3. jkFrom[jkAt] \in JkItems  BY <2>1, <2>2
    <2>4. Distinct(jkFound) /\ JK!UrlsOf(jkFound) = {JkUrl[jkFrom[k]] : k \in 1 .. jkAt - 1}
      BY <1>1 DEF JkInv, Collected
    <2> QED  BY <2>1, <2>2, <2>3, <2>4
  <1>3. jkFound' \in Seq(JkItems) /\ Distinct(jkFound') /\ JK!UrlsOf(jkFound') = JK!UrlsOf(jkFound) \cup {JkUrl[jkFrom[jkAt]]}
    <2>1. CASE JkUrl[jkFrom[jkAt]] \in JK!UrlsOf(jkFound)
      <3>1. jkFound' = jkFound  BY <2>1 DEF JK!Collect
      <3> QED  BY <1>2, <2>1, <3>1
    <2>2. CASE JkUrl[jkFrom[jkAt]] \notin JK!UrlsOf(jkFound)
      <3> DEFINE x == jkFrom[jkAt]
      <3>1. jkFound' = Append(jkFound, x)  BY <2>2 DEF JK!Collect
      <3>2. x \in JkItems /\ JkUrl[x] \notin JK!UrlsOf(jkFound)  BY <1>2, <2>2
      <3> HIDE DEF x
      <3>3. /\ jkFound' \in Seq(JkItems) /\ DOMAIN jkFound' = DOMAIN jkFound \cup {Len(jkFound) + 1}
            /\ Len(jkFound) + 1 \notin DOMAIN jkFound /\ jkFound'[Len(jkFound) + 1] = x
            /\ \A k \in DOMAIN jkFound : jkFound'[k] = jkFound[k]
        <4>1. Len(jkFound) \in Nat /\ DOMAIN jkFound = 1 .. Len(jkFound)  BY <1>2
        <4>2. jkFound' \in Seq(JkItems) /\ Len(jkFound') = Len(jkFound) + 1
              /\ DOMAIN jkFound' = 1 .. Len(jkFound) + 1
          BY <1>2, <3>1, <3>2
        <4>3. /\ \A k \in 1 .. Len(jkFound) : jkFound'[k] = jkFound[k]
              /\ jkFound'[Len(jkFound) + 1] = x
          BY <1>2, <3>1, <3>2
        <4>4. 1 .. Len(jkFound) + 1 = (1 .. Len(jkFound)) \cup {Len(jkFound) + 1}
          BY <4>1
        <4> QED  BY <4>1, <4>2, <4>3, <4>4
      <3>4. JK!UrlsOf(jkFound') = JK!UrlsOf(jkFound) \cup {JkUrl[x]}
        <4>1. ASSUME NEW u \in JK!UrlsOf(jkFound')
              PROVE u \in JK!UrlsOf(jkFound) \cup {JkUrl[x]}
          BY <3>3 DEF JK!UrlsOf
        <4>2. ASSUME NEW u \in JK!UrlsOf(jkFound)  PROVE u \in JK!UrlsOf(jkFound')
          <5>1. PICK k \in DOMAIN jkFound : u = JkUrl[jkFound[k]]  BY DEF JK!UrlsOf
          <5>2. k \in DOMAIN jkFound' /\ jkFound'[k] = jkFound[k]  BY <3>3
          <5> QED  BY <5>1, <5>2 DEF JK!UrlsOf
        <4>3. JkUrl[x] \in JK!UrlsOf(jkFound')
          <5>1. Len(jkFound) + 1 \in DOMAIN jkFound' /\ jkFound'[Len(jkFound) + 1] = x  BY <3>3
          <5> QED  BY <5>1 DEF JK!UrlsOf
        <4> QED  BY <4>1, <4>2, <4>3
      <3>5. Distinct(jkFound')
        <4>1. \A k \in DOMAIN jkFound : JkUrl[jkFound[k]] # JkUrl[x]  BY <3>2 DEF JK!UrlsOf
        <4>2. ASSUME NEW k \in DOMAIN jkFound', NEW l \in DOMAIN jkFound', k # l
              PROVE  JkUrl[jkFound'[k]] # JkUrl[jkFound'[l]]
          <5>1. CASE k \in DOMAIN jkFound /\ l \in DOMAIN jkFound
            BY <1>2, <3>3, <4>2, <5>1 DEF Distinct
          <5>2. CASE k = Len(jkFound) + 1 /\ l \in DOMAIN jkFound  BY <3>3, <4>1, <5>2
          <5>3. CASE l = Len(jkFound) + 1 /\ k \in DOMAIN jkFound  BY <3>3, <4>1, <5>3
          <5> QED  BY <3>3, <4>2, <5>1, <5>2, <5>3
        <4> QED  BY <4>2 DEF Distinct
      <3> QED  BY <3>3, <3>4, <3>5 DEF x
    <2> QED  BY <2>1, <2>2
  <1>4. JK!UrlsOf(jkFound') = {JkUrl[jkFrom[k]] : k \in 1 .. jkAt' - 1} /\ jkAt' <= Len(jkFrom) + 1
    <2>1. 1 .. jkAt' - 1 = (1 .. jkAt - 1) \cup {jkAt}  BY <1>1
    <2> QED  BY <1>1, <1>2, <1>3, <2>1
  <1>5. JkTyped'  BY <1>1, <1>3 DEF JkInv, JkTyped
  <1>6. Counting'  BY <1>1 DEF JkInv, Counting, JK!PlannedIsLastResort
  <1>7. Collected'  BY <1>1, <1>3, <1>4 DEF Collected
  <1>8. JkResolving' /\ Sorting'  BY <1>1 DEF JkResolving, Sorting
  <1> QED  BY <1>5, <1>6, <1>7, <1>8 DEF JkInv

\* What a sort puts in order is all that was collected.
LEMMA AllCollected ==
  ASSUME JkInv, jkPc = "collect", jkAt > Len(jkFrom)
  PROVE  JK!UrlsOf(jkFound) = JK!UrlsOf(jkFrom) /\ Distinct(jkFound)
  <1>1. jkFrom \in Seq(JkItems) /\ jkAt <= Len(jkFrom) + 1 /\ jkAt \in Nat  BY DEF JkInv,
          JkTyped, Collected
  <1>2. DOMAIN jkFrom = 1 .. jkAt - 1  BY <1>1
  <1> QED  BY <1>2 DEF JkInv, Collected, JK!UrlsOf

LEMMA SortEmbedsKeeps ==
  ASSUME JK!JKAnimeAssumption, JkInv, JK!SortEmbeds
  PROVE  JkInv'
  <1> DEFINE rank == [k \in DOMAIN jkFound |-> JkPriority[jkFound[k]]]
  <1>1. /\ jkCall = "streams" /\ jkPc = "collect" /\ jkAt > Len(jkFrom) /\ jkPc' = "resolve" /\ jkAt' = 1
        /\ UNCHANGED <<jkCall, jkShow, jkList, most, jkCount, jkFrom, jkLow, jkHigh, got,
             jkTried>>
        /\ jkFound \in Seq(JkItems) /\ got = <<>> /\ jkTried = {}
    BY DEF JK!SortEmbeds, JK!episodeVars, JkInv, JkTyped
  <1>2. JK!UrlsOf(jkFound) = JK!UrlsOf(jkFrom) /\ Distinct(jkFound)  BY <1>1, AllCollected
  <1>3. \A k \in DOMAIN jkFound : jkFound[k] \in JkItems  BY <1>1, Lengths
  <1>4. rank \in [DOMAIN jkFound -> Nat]  BY <1>3, Ranks
  <1>5. jkFound' \in JK!StablySorted(jkFound, rank)  BY DEF JK!SortEmbeds
  <1>6. PICK q \in [DOMAIN jkFound -> DOMAIN jkFound] :
          /\ \A k \in DOMAIN jkFound : jkFound'[k] = jkFound[q[k]]
          /\ \A k, l \in DOMAIN jkFound : k < l => rank[q[k]] <= rank[q[l]]
    <2>1. Reordered(jkFound', jkFound, rank)
      <3> HIDE DEF rank
      <3> QED  BY <1>1, <1>2, <1>4, <1>5, SortKeeps
    <2> QED  BY <2>1 DEF Reordered
  <1>7. /\ jkFound' \in Seq(JkItems) /\ DOMAIN jkFound' = DOMAIN jkFound
        /\ JK!UrlsOf(jkFound') = JK!UrlsOf(jkFound) /\ Distinct(jkFound')
    <2> HIDE DEF rank
    <2> QED  BY <1>1, <1>2, <1>4, <1>5, SortKeeps
  <1>8. Ranked(jkFound', JkPriority)
    <2>1. ASSUME NEW k \in DOMAIN jkFound, NEW l \in DOMAIN jkFound, k < l
          PROVE  JkPriority[jkFound'[k]] <= JkPriority[jkFound'[l]]
      <3>1. rank[q[k]] = JkPriority[jkFound[q[k]]] /\ rank[q[l]] = JkPriority[jkFound[q[l]]]
        BY <1>6
      <3> QED  BY <1>6, <2>1, <3>1
    <2> QED  BY <1>7, <2>1 DEF Ranked
  <1>9. {k \in DOMAIN jkFound' : k < jkAt'} = {}  BY <1>1, <1>7, Lengths
  <1>10. JkTyped'  BY <1>1, <1>7 DEF JkInv, JkTyped
  <1>11. Counting'  BY <1>1 DEF JkInv, Counting, JK!PlannedIsLastResort
  <1>12. Collected'  BY <1>1, <1>2, <1>7 DEF Collected
  <1>13. JkResolving' /\ Sorting'  BY <1>1, <1>8, <1>9 DEF JkResolving, Sorting
  <1> QED  BY <1>10, <1>11, <1>12, <1>13 DEF JkInv

LEMMA SortHrefsKeeps ==
  ASSUME JK!JKAnimeAssumption, JkInv, JK!SortHrefs
  PROVE  JkInv'
  <1> DEFINE rank == [k \in DOMAIN jkFound |-> IF jkFound[k] \in Mediafire THEN 0 ELSE 1]
  <1>1. /\ jkCall = "hrefs" /\ jkPc = "collect" /\ jkAt > Len(jkFrom) /\ jkPc' = "done"
        /\ UNCHANGED <<jkCall, jkShow, jkList, most, jkCount, jkFrom, jkAt, jkLow, jkHigh,
             got, jkTried>>
        /\ jkFound \in Seq(JkItems)
    BY DEF JK!SortHrefs, JK!episodeVars, JkInv, JkTyped
  <1>2. JK!UrlsOf(jkFound) = JK!UrlsOf(jkFrom) /\ Distinct(jkFound)  BY <1>1, AllCollected
  <1>3. rank \in [DOMAIN jkFound -> Nat]  OBVIOUS
  <1>4. jkFound' \in JK!StablySorted(jkFound, rank)  BY DEF JK!SortHrefs
  <1>5. PICK q \in [DOMAIN jkFound -> DOMAIN jkFound] :
          /\ \A k \in DOMAIN jkFound : jkFound'[k] = jkFound[q[k]]
          /\ \A k, l \in DOMAIN jkFound : k < l => rank[q[k]] <= rank[q[l]]
    <2>1. Reordered(jkFound', jkFound, rank)
      <3> HIDE DEF rank
      <3> QED  BY <1>1, <1>2, <1>3, <1>4, SortKeeps
    <2> QED  BY <2>1 DEF Reordered
  <1>6. /\ jkFound' \in Seq(JkItems) /\ DOMAIN jkFound' = DOMAIN jkFound
        /\ JK!UrlsOf(jkFound') = JK!UrlsOf(jkFound) /\ Distinct(jkFound')
    <2> HIDE DEF rank
    <2> QED  BY <1>1, <1>2, <1>3, <1>4, SortKeeps
  <1>7. ASSUME NEW k \in DOMAIN jkFound, NEW l \in DOMAIN jkFound, k < l,
                 jkFound'[l] \in Mediafire
        PROVE  jkFound'[k] \in Mediafire
    <2>1. rank[q[l]] = 0  BY <1>5, <1>7
    <2>2. rank[q[k]] = 0
      <3>1. rank[q[k]] \in Nat /\ rank[q[k]] <= rank[q[l]]  BY <1>5, <1>7
      <3> HIDE DEF rank
      <3> QED  BY <2>1, <3>1
    <2> QED  BY <1>5, <2>2
  <1>8. JkTyped'  BY <1>1, <1>6 DEF JkInv, JkTyped
  <1>9. Counting'  BY <1>1 DEF JkInv, Counting, JK!PlannedIsLastResort
  <1>10. Collected'  BY <1>1, <1>2, <1>6 DEF Collected
  <1>11. JkResolving' /\ Sorting'  BY <1>1, <1>6, <1>7 DEF JkResolving, Sorting
  <1> QED  BY <1>8, <1>9, <1>10, <1>11 DEF JkInv

LEMMA TryEmbedKeeps ==
  ASSUME JK!JKAnimeAssumption, JkInv, JK!TryEmbed
  PROVE  JkInv'
  <1>1. /\ jkPc = "resolve" /\ jkCall = "streams" /\ jkAt' = jkAt + 1 /\ jkAt \in Nat \ {0}
        /\ UNCHANGED <<jkCall, jkShow, jkList, most, jkCount, jkFrom, jkFound, jkLow,
             jkHigh>>
        /\ jkTried' = jkTried \cup {jkFound[jkAt]}
    BY DEF JK!TryEmbed, JK!episodeVars, JkInv, JkTyped
  <1>2. /\ jkFound \in Seq(JkItems) /\ jkAt \in DOMAIN jkFound /\ DOMAIN jkFound \subseteq Nat
        /\ \A k \in DOMAIN jkFound : jkFound[k] \in JkItems
    <2>1. jkFound \in Seq(JkItems)  BY DEF JkInv, JkTyped
    <2>2. Len(jkFound) \in Nat /\ DOMAIN jkFound = 1 .. Len(jkFound)  BY <2>1, Lengths
    <2>3. jkAt <= Len(jkFound)  BY DEF JK!TryEmbed
    <2> QED  BY <1>1, <2>1, <2>2, <2>3
  <1>3. /\ Ranked(jkFound, JkPriority)
        /\ jkTried = {jkFound[k] : k \in {k \in DOMAIN jkFound : k < jkAt}}
        /\ \A l \in DOMAIN got : got[l].item \in jkTried
    BY <1>1 DEF JkInv, JkResolving
  <1>4. jkTried' = {jkFound[k] : k \in {k \in DOMAIN jkFound : k < jkAt'}}
    <2>1. {k \in DOMAIN jkFound : k < jkAt'} = {k \in DOMAIN jkFound : k < jkAt} \cup {jkAt}
      BY <1>1, <1>2
    <2> QED  BY <1>1, <1>3, <2>1
  <1>5. /\ got' \in Seq([stream : JkStreams, item : JkItems])
        /\ \A l \in DOMAIN got' : got'[l].item \in jkTried'
        /\ jkPc' = "resolve" \/ (jkPc' = "done" /\ got' # <<>>)
    <2> DEFINE Rec == [stream : JkStreams, item : JkItems]
    <2>0. got \in Seq(Rec)  BY DEF JkInv, JkTyped
    <2>1. CASE UNCHANGED <<got, jkPc>>
      BY <1>1, <1>3, <2>0, <2>1
    <2> DEFINE Gets(s) ==
                 /\ got' = Append(got, [stream |-> s, item |-> jkFound[jkAt]])
                 /\ jkPc' = IF Len(got') = 2 THEN "done" ELSE jkPc
    <2>2. CASE \E s \in JkStreams : Gets(s)
      <3>1. PICK s \in JkStreams : Gets(s)  BY <2>2
      <3> DEFINE r == [stream |-> s, item |-> jkFound[jkAt]]
      <3>2. r \in Rec /\ r.item = jkFound[jkAt]  BY <1>2
      <3>3. got' = Append(got, r)  BY <3>1
      <3> HIDE DEF r, Rec
      <3>4. /\ got' \in Seq(Rec) /\ DOMAIN got' = DOMAIN got \cup {Len(got) + 1}
            /\ got'[Len(got) + 1] = r /\ \A k \in DOMAIN got : got'[k] = got[k] /\ got' # <<>>
        <4>1. Len(got) \in Nat /\ DOMAIN got = 1 .. Len(got)  BY <2>0
        <4>2. got' \in Seq(Rec) /\ Len(got') = Len(got) + 1 /\ DOMAIN got' = 1 .. Len(got) + 1
          BY <2>0, <3>2, <3>3
        <4>3. /\ \A k \in 1 .. Len(got) : got'[k] = got[k]
              /\ got'[Len(got) + 1] = r
          BY <2>0, <3>2, <3>3
        <4>4. 1 .. Len(got) + 1 = (1 .. Len(got)) \cup {Len(got) + 1}  BY <4>1
        <4>5. got' # <<>>  BY <4>1, <4>2
        <4> QED  BY <4>1, <4>2, <4>3, <4>4, <4>5
      <3>5. \A l \in DOMAIN got' : got'[l].item \in jkTried'
        BY <1>1, <1>3, <3>2, <3>4
      <3>6. got' # <<>>  BY <2>0, <3>2, <3>3
      <3> QED  BY <1>1, <3>1, <3>4, <3>5, <3>6 DEF Rec
    <2> QED  BY <2>1, <2>2 DEF JK!TryEmbed
  <1>6. jkPc' = "done" => JK!NothingIsLeftUntried'
    <2>1. ASSUME NEW k \in DOMAIN jkFound, jkFound[k] \notin jkTried', NEW l \in DOMAIN got'
          PROVE  JkPriority[got'[l].item] <= JkPriority[jkFound[k]]
      <3>1. PICK m \in DOMAIN jkFound : m < jkAt' /\ got'[l].item = jkFound[m]  BY <1>4,
              <1>5
      <3>2. ~(k < jkAt')  BY <1>4, <2>1
      <3>3. m < k  BY <1>1, <1>2, <3>1, <3>2
      <3> QED  BY <1>3, <3>1, <3>3 DEF Ranked
    <2> QED  BY <1>1, <1>5, <2>1 DEF JK!NothingIsLeftUntried
  <1>7. JkTyped'  BY <1>1, <1>5 DEF JkInv, JkTyped
  <1>8. Counting'  BY <1>1, <1>5 DEF JkInv, Counting, JK!PlannedIsLastResort
  <1>9. Collected'  BY <1>1, <1>5 DEF JkInv, Collected
  <1>10. JkResolving'  BY <1>1, <1>3, <1>4, <1>5, <1>6 DEF JkResolving
  <1>11. Sorting'  BY <1>1, <1>5 DEF Sorting
  <1> QED  BY <1>7, <1>8, <1>9, <1>10, <1>11 DEF JkInv

LEMMA EndEmbedsKeeps ==
  ASSUME JK!JKAnimeAssumption, JkInv, JK!EndEmbeds
  PROVE  JkInv'
  <1>1. /\ jkPc = "resolve" /\ jkCall = "streams" /\ jkAt > Len(jkFound)
        /\ jkPc' = IF got = <<>> THEN "failed" ELSE "done"
        /\ UNCHANGED <<jkCall, jkShow, jkList, most, jkCount, jkFrom, jkFound, jkAt, jkLow,
             jkHigh, got, jkTried>>
    BY DEF JK!EndEmbeds, JK!episodeVars, JK!itemVars, JkInv, JkTyped
  <1>2. jkAt \in Nat /\ DOMAIN jkFound = 1 .. Len(jkFound) /\ Len(jkFound) \in Nat
    BY Lengths DEF JkInv, JkTyped
  <1>3. \A k \in DOMAIN jkFound : jkFound[k] \in jkTried
    <2>1. jkTried = {jkFound[k] : k \in {k \in DOMAIN jkFound : k < jkAt}}
      BY <1>1 DEF JkInv, JkResolving
    <2>2. \A k \in DOMAIN jkFound : k < jkAt  BY <1>1, <1>2
    <2> QED  BY <2>1, <2>2
  <1>4. JkTyped'  BY <1>1 DEF JkInv, JkTyped
  <1>5. Counting'  BY <1>1 DEF JkInv, Counting, JK!PlannedIsLastResort
  <1>6. Collected'  BY <1>1 DEF JkInv, Collected
  <1>7. JkResolving'  BY <1>1, <1>3 DEF JkResolving, JK!NothingIsLeftUntried
  <1>8. Sorting'  BY <1>1 DEF Sorting
  <1> QED  BY <1>4, <1>5, <1>6, <1>7, <1>8 DEF JkInv

LEMMA SortServersKeeps ==
  ASSUME JK!JKAnimeAssumption, JkInv, JK!SortServers
  PROVE  JkInv'
  <1>1. /\ jkPc = "collect" /\ jkCall = "links" /\ jkAt > Len(jkFrom) /\ jkPc' = "sort"
        /\ UNCHANGED <<jkCall, jkShow, jkList, most, jkCount, jkFrom, jkFound, jkAt, jkLow,
             jkHigh, got, jkTried>>
        /\ jkLow = 1 /\ jkHigh = 2
    BY DEF JK!SortServers, JK!episodeVars, JK!itemVars, JkInv, JkTyped
  <1>2. JK!UrlsOf(jkFound) = JK!UrlsOf(jkFrom) /\ Distinct(jkFound)  BY <1>1, AllCollected
  <1>3. DOMAIN jkFound = 1 .. Len(jkFound) /\ Len(jkFound) \in Nat  BY Lengths DEF JkInv,
          JkTyped
  <1>4. JkTyped'  BY <1>1 DEF JkInv, JkTyped
  <1>5. Counting'  BY <1>1 DEF JkInv, Counting, JK!PlannedIsLastResort
  <1>6. Collected'  BY <1>1, <1>2 DEF Collected
  <1>7. JkResolving'  BY <1>1 DEF JkResolving
  <1>8. Sorting'  BY <1>1, <1>3 DEF Sorting
  <1> QED  BY <1>4, <1>5, <1>6, <1>7, <1>8 DEF JkInv

\* Nothing before low moves; the item at low gets a lower rank or keeps its own.
LEMMA ExchangeStep ==
  ASSUME JK!JKAnimeAssumption, JkInv, JK!Exchange
  PROVE  JkInv'
  <1> DEFINE D == DOMAIN jkFound
             a == jkLow
             b == jkHigh
  <1>1. /\ jkPc = "sort" /\ jkCall = "links" /\ b <= Len(jkFound) /\ jkHigh' = b + 1
        /\ UNCHANGED <<jkCall, jkPc, jkShow, jkList, most, jkCount, jkFrom, jkAt, jkLow,
             got, jkTried>>
        /\ jkFound \in Seq(JkItems) /\ a \in Nat \ {0} /\ b \in Nat /\ a < b
        /\ Distinct(jkFound) /\ JK!UrlsOf(jkFound) = JK!UrlsOf(jkFrom)
    BY DEF JK!Exchange, JK!episodeVars, JkInv, JkTyped, Sorting, Collected
  <1>2. /\ D = 1 .. Len(jkFound) /\ Len(jkFound) \in Nat /\ a \in D /\ b \in D
        /\ \A k \in D : jkFound[k] \in JkItems
        /\ \A k \in D : JkHostRank[jkFound[k]] \in Nat
    BY <1>1, Lengths, Ranks
  <1>3. /\ \A k, l \in D : k < a /\ k < l
             => JkHostRank[jkFound[k]] <= JkHostRank[jkFound[l]]
        /\ \A l \in D : a < l /\ l < b => JkHostRank[jkFound[a]] <= JkHostRank[jkFound[l]]
    BY <1>1 DEF JkInv, Sorting
  <1>4. /\ jkFound' \in Seq(JkItems) /\ DOMAIN jkFound' = D /\ JK!UrlsOf(jkFound') = JK!UrlsOf(jkFound)
        /\ Distinct(jkFound')
        /\ \A k, l \in D : k < a /\ k < l
             => JkHostRank[jkFound'[k]] <= JkHostRank[jkFound'[l]]
        /\ \A l \in D : a < l /\ l < b + 1
             => JkHostRank[jkFound'[a]] <= JkHostRank[jkFound'[l]]
    <2>1. CASE JkHostRank[jkFound[b]] < JkHostRank[jkFound[a]]
      <3>1. jkFound' = [jkFound EXCEPT ![a] = jkFound[b], ![b] = jkFound[a]]
        BY <2>1 DEF JK!Exchange
      <3>2. /\ jkFound' \in [D -> JkItems] /\ jkFound'[a] = jkFound[b] /\ jkFound'[b] = jkFound[a]
            /\ \A k \in D \ {a, b} : jkFound'[k] = jkFound[k]
        BY <1>1, <1>2, <3>1
      <3>3. a # b  BY <1>1
      <3>4. jkFound' \in Seq(JkItems) /\ JK!UrlsOf(jkFound') = JK!UrlsOf(jkFound) /\ Distinct(jkFound')
        <4> HIDE DEF D, a, b
        <4>1. D = DOMAIN jkFound  BY DEF D
        <4>2. a \in D /\ b \in D  BY <1>2
        <4> QED  BY <1>1, <3>2, <3>3, <4>1, <4>2, ExchangeKeeps
      <3>5. DOMAIN jkFound' = D  BY <3>2
      <3>6. ASSUME NEW k \in D, NEW l \in D, k < a, k < l
            PROVE  JkHostRank[jkFound'[k]] <= JkHostRank[jkFound'[l]]
        <4>1. jkFound'[k] = jkFound[k] /\ k < b
          <5>1. k \in Nat /\ a \in Nat /\ b \in Nat  BY <1>1, <1>2
          <5>2. k < b /\ k \notin {a, b}  BY <1>1, <3>6, <5>1
          <5> QED  BY <3>2, <5>2
        <4>2. \E m \in D : jkFound'[l] = jkFound[m] /\ k < m
          <5>1. CASE l = a  BY <1>2, <3>2, <4>1, <5>1
          <5>2. CASE l = b  BY <1>2, <3>2, <3>6, <5>2
          <5>3. CASE l \notin {a, b}  BY <3>2, <3>6, <5>3
          <5> QED  BY <5>1, <5>2, <5>3
        <4> QED  BY <1>3, <3>6, <4>1, <4>2
      <3>7. ASSUME NEW l \in D, a < l, l < b + 1
            PROVE  JkHostRank[jkFound'[a]] <= JkHostRank[jkFound'[l]]
        <4>1. CASE l = b  BY <1>2, <2>1, <3>2, <4>1
        <4>2. CASE l # b
          <5>1. l < b /\ l \notin {a, b}  BY <1>1, <1>2, <3>7, <4>2
          <5>2. JkHostRank[jkFound[a]] <= JkHostRank[jkFound[l]]  BY <1>3, <3>7, <5>1
          <5>3. jkFound'[l] = jkFound[l] /\ jkFound'[a] = jkFound[b]  BY <3>2, <5>1
          <5>4. /\ JkHostRank[jkFound[a]] \in Nat /\ JkHostRank[jkFound[b]] \in Nat
                /\ JkHostRank[jkFound[l]] \in Nat
            BY <1>2
          <5> QED  BY <2>1, <5>2, <5>3, <5>4
        <4> QED  BY <4>1, <4>2
      <3> QED  BY <3>4, <3>5, <3>6, <3>7
    <2>2. CASE ~(JkHostRank[jkFound[b]] < JkHostRank[jkFound[a]])
      <3>1. jkFound' = jkFound  BY <2>2 DEF JK!Exchange
      <3>2. ASSUME NEW l \in D, a < l, l < b + 1
            PROVE  JkHostRank[jkFound[a]] <= JkHostRank[jkFound[l]]
        <4>1. CASE l = b  BY <1>2, <2>2, <4>1
        <4>2. CASE l # b  BY <1>1, <1>2, <1>3, <3>2, <4>2
        <4> QED  BY <4>1, <4>2
      <3> QED  BY <1>1, <1>3, <3>1, <3>2
    <2> QED  BY <2>1, <2>2
  <1>5. JkTyped'  BY <1>1, <1>4 DEF JkInv, JkTyped
  <1>6. Counting'  BY <1>1 DEF JkInv, Counting, JK!PlannedIsLastResort
  <1>7. Collected'  BY <1>1, <1>4 DEF Collected
  <1>8. JkResolving'  BY <1>1 DEF JkResolving
  <1>9. Sorting'  BY <1>1, <1>4 DEF Sorting
  <1> QED  BY <1>5, <1>6, <1>7, <1>8, <1>9 DEF JkInv

LEMMA NextLowKeeps ==
  ASSUME JK!JKAnimeAssumption, JkInv, JK!NextLow
  PROVE  JkInv'
  <1>1. /\ jkPc = "sort" /\ jkCall = "links" /\ jkHigh > Len(jkFound)
        /\ UNCHANGED <<jkCall, jkShow, jkList, most, jkCount, jkFrom, jkFound, jkAt, got,
             jkTried>>
        /\ jkLow \in Nat \ {0} /\ jkHigh \in Nat
        /\ DOMAIN jkFound = 1 .. Len(jkFound) /\ Len(jkFound) \in Nat
    BY Lengths DEF JK!NextLow, JK!episodeVars, JkInv, JkTyped, Sorting
  <1>2. /\ \A k, l \in DOMAIN jkFound : k < jkLow /\ k < l
             => JkHostRank[jkFound[k]] <= JkHostRank[jkFound[l]]
        /\ \A l \in DOMAIN jkFound : jkLow < l
             => JkHostRank[jkFound[jkLow]] <= JkHostRank[jkFound[l]]
    <2>1. \A l \in DOMAIN jkFound : l < jkHigh  BY <1>1
    <2> QED  BY <1>1, <2>1 DEF JkInv, Sorting
  <1>3. \A k, l \in DOMAIN jkFound : k < jkLow + 1 /\ k < l
          => JkHostRank[jkFound[k]] <= JkHostRank[jkFound[l]]
    BY <1>1, <1>2
  <1>4. CASE jkLow < Len(jkFound) /\ jkLow' = jkLow + 1 /\ jkHigh' = jkLow + 2 /\ UNCHANGED jkPc
    <2>1. JkTyped'  BY <1>1, <1>4 DEF JkInv, JkTyped
    <2>2. Counting'  BY <1>1, <1>4 DEF JkInv, Counting, JK!PlannedIsLastResort
    <2>3. Collected'  BY <1>1, <1>4 DEF JkInv, Collected
    <2>4. JkResolving'  BY <1>1, <1>4 DEF JkResolving
    <2>5. Sorting'  BY <1>1, <1>3, <1>4 DEF Sorting
    <2> QED  BY <2>1, <2>2, <2>3, <2>4, <2>5 DEF JkInv
  <1>5. CASE jkLow >= Len(jkFound) /\ jkPc' = "done" /\ UNCHANGED <<jkLow, jkHigh>>
    <2>1. JkTyped'  BY <1>1, <1>5 DEF JkInv, JkTyped
    <2>2. Counting'  BY <1>1, <1>5 DEF JkInv, Counting, JK!PlannedIsLastResort
    <2>3. Collected'  BY <1>1, <1>5 DEF JkInv, Collected
    <2>4. JkResolving'  BY <1>1, <1>5 DEF JkResolving
    <2>5. Ranked(jkFound, JkHostRank)  BY <1>1, <1>3, <1>5 DEF Ranked
    <2>6. Sorting'  BY <1>1, <1>5, <2>5 DEF Sorting, Ranked
    <2> QED  BY <2>1, <2>2, <2>3, <2>4, <2>6 DEF JkInv
  <1> QED  BY <1>4, <1>5 DEF JK!NextLow

LEMMA JkInvNext == JK!JKAnimeAssumption /\ JkInv /\ [JK!Next]_(JK!vars) => JkInv'
  <1> SUFFICES ASSUME JK!JKAnimeAssumption, JkInv, [JK!Next]_(JK!vars)  PROVE JkInv'
    OBVIOUS
  <1>1. CASE UNCHANGED JK!vars
    <2>1. JkTyped'  BY <1>1 DEF JK!vars, JkInv, JkTyped
    <2>2. Counting'
      BY <1>1 DEF JK!vars, JkInv, Counting, JK!NoMoreThanPlanned, JK!PlannedIsLastResort,
           JK!FromPageHTML
    <2>3. Collected'
      <3>1. UNCHANGED <<jkPc, jkFrom, jkFound, jkAt>>  BY <1>1 DEF JK!vars
      <3> QED  BY <3>1 DEF JkInv, Collected
    <2>4. JkResolving'  BY <1>1 DEF JK!vars, JkInv, JkResolving, Ranked,
            JK!NothingIsLeftUntried
    <2>5. Sorting'  BY <1>1 DEF JK!vars, JkInv, Sorting, Ranked
    <2> QED  BY <2>1, <2>2, <2>3, <2>4, <2>5 DEF JkInv
  <1> QED
    BY <1>1, EpisodesKeep, FindKeeps, JkCollectKeeps, SortEmbedsKeeps, SortHrefsKeeps,
       TryEmbedKeeps, EndEmbedsKeeps, SortServersKeeps, ExchangeStep, NextLowKeeps
    DEF JK!Next

LEMMA InvHolds == JK!JKAnimeAssumption => (JK!Spec => []JkInv)
  <1> SUFFICES ASSUME JK!JKAnimeAssumption  PROVE JK!Spec => []JkInv
    OBVIOUS
  <1> QED  BY JkInvInit, JkInvNext, PTL DEF JK!Spec

LEMMA JkTriesAll ==
  JK!JKAnimeAssumption => (JK!Spec => []JK!NothingIsLeftUntried)
  <1> SUFFICES ASSUME JK!JKAnimeAssumption  PROVE JK!Spec => []JK!NothingIsLeftUntried
    OBVIOUS
  <1>1. JkInv => JK!NothingIsLeftUntried
    BY DEF JkInv, JkResolving, JK!NothingIsLeftUntried
  <1> QED  BY <1>1, InvHolds, PTL

LEMMA JkChooses ==
  JK!JKAnimeAssumption => (JK!Spec => [](JK!PlannedIsLastResort /\ JK!LinksAreRanked))
  <1> SUFFICES ASSUME JK!JKAnimeAssumption
        PROVE JK!Spec => [](JK!PlannedIsLastResort /\ JK!LinksAreRanked)
    OBVIOUS
  <1>1. ASSUME JkInv  PROVE JK!PlannedIsLastResort /\ JK!LinksAreRanked
    <2>1. JK!PlannedIsLastResort  BY <1>1 DEF JkInv, Counting
    <2>2. \A k, l \in DOMAIN jkFound : k < l => JkUrl[jkFound[k]] # JkUrl[jkFound[l]]
      <3>1. DOMAIN jkFound \subseteq Nat
        <4>1. jkFound \in Seq(JkItems)  BY <1>1 DEF JkInv, JkTyped
        <4>2. Len(jkFound) \in Nat /\ DOMAIN jkFound = 1 .. Len(jkFound)  BY <4>1, Lengths
        <4> QED  BY <4>2
      <3> QED  BY <1>1, <3>1 DEF JkInv, Collected, Distinct
    <2>3. JK!LinksAreRanked  BY <1>1, <2>2 DEF JkInv, Collected, Sorting, Ranked,
            JK!LinksAreRanked
    <2> QED  BY <2>1, <2>3
  <1> QED  BY <1>1, InvHolds, PTL

----------------------------------------------------------------------------
(* AnimeGG: streams that are merged. *)
GgUnique(ss)     == \A s, t \in ss : GG!SameKey(s, t) => s = t
GgCovered(ss, f) == \E t \in ss : GG!SameKey(f, t) /\ GG!Priority(t) >= GG!Priority(f)
GgSound(ss) ==
  /\ ss \subseteq GG!Entries /\ GgUnique(ss)
  /\ ggTarget # "any" => \A s \in ss : s.audio = ggTarget

\* Priorities are numbers.
LEMMA PriorityIsNat ==
  ASSUME GG!AnimeGGAssumption, NEW s \in GG!Entries
  PROVE  GG!Priority(s) \in Nat
  <1>1. s.quality \in Nat  BY DEF GG!AnimeGGAssumption, GG!Entries
  <1> QED  BY <1>1 DEF GG!Priority

\* The better of two entries, filled in, is as good as both.
LEMMA UpgradedIsBetter ==
  ASSUME GG!AnimeGGAssumption, NEW s \in GG!Entries, NEW t \in GG!Entries, GG!SameKey(s, t)
  PROVE  LET u == GG!Upgraded(s, t)
         IN  /\ u \in GG!Entries /\ GG!SameKey(s, u) /\ GG!SameKey(t, u)
             /\ GG!Priority(u) >= GG!Priority(s) /\ GG!Priority(u) >= GG!Priority(t)
  <1>1. GG!Priority(s) \in Nat /\ GG!Priority(t) \in Nat  BY PriorityIsNat
  <1>2. CASE GG!Priority(t) > GG!Priority(s)
    BY <1>1, <1>2 DEF GG!Upgraded, GG!SameKey
  <1>3. CASE ~(GG!Priority(t) > GG!Priority(s))
    <2> DEFINE q == IF s.quality < t.quality THEN t.quality ELSE s.quality
               u == [s EXCEPT !.cookie = s.cookie \/ t.cookie,
                              !.referer = s.referer \/ t.referer, !.quality = q]
    <2>1. GG!Upgraded(s, t) = u  BY <1>3 DEF GG!Upgraded
    <2>2. /\ s.quality \in GgQualities /\ t.quality \in GgQualities /\ GgQualities \subseteq Nat
          /\ s.cookie \in BOOLEAN /\ t.cookie \in BOOLEAN
          /\ s.referer \in BOOLEAN /\ t.referer \in BOOLEAN
      BY DEF GG!AnimeGGAssumption, GG!Entries
    <2>3. q \in GgQualities /\ q \in Nat /\ q >= s.quality
      <3>1. s.quality \in Nat /\ t.quality \in Nat  BY <2>2
      <3>2. CASE s.quality < t.quality  BY <2>2, <3>1, <3>2
      <3>3. CASE ~(s.quality < t.quality)  BY <2>2, <3>1, <3>3
      <3> QED  BY <3>2, <3>3
    <2>4. /\ u.url = s.url /\ u.audio = s.audio /\ u.quality = q
          /\ u.cookie = (s.cookie \/ t.cookie) /\ u.referer = (s.referer \/ t.referer)
      BY DEF GG!Entries
    <2>5. u \in GG!Entries  BY <2>2, <2>3 DEF GG!Entries
    <2> HIDE DEF q, u
    <2>6. GG!Priority(u) >= GG!Priority(s)
      <3>1. s.quality \in Nat /\ u.quality \in Nat /\ u.quality >= s.quality /\ u.url = s.url
        BY <2>2, <2>3, <2>4
      <3>2. (s.cookie => u.cookie) /\ (s.referer => u.referer)  BY <2>4
      <3> QED  BY <3>1, <3>2 DEF GG!Priority
    <2>7. GG!Priority(u) \in Nat  BY <2>5, PriorityIsNat
    <2>8. GG!Priority(u) >= GG!Priority(t)  BY <1>1, <1>3, <2>6, <2>7
    <2> QED  BY <2>1, <2>4, <2>5, <2>6, <2>8 DEF GG!SameKey
  <1> QED  BY <1>2, <1>3

\* A merge loses nothing, keeps keys unique, and adds no other edition.
LEMMA MergeKeeps ==
  ASSUME GG!AnimeGGAssumption, NEW ss, NEW ts, GgSound(ss), GgSound(ts)
  PROVE  GgSound(GG!Merge(ss, ts)) /\ \A f \in ss \cup ts : GgCovered(GG!Merge(ss, ts), f)
  <1> DEFINE mm == GG!Merge(ss, ts)
  <1>1. ss \subseteq GG!Entries /\ ts \subseteq GG!Entries /\ GgUnique(ss) /\ GgUnique(ts)
    BY DEF GgSound
  <1>2. ASSUME NEW m \in mm
        PROVE  \/ m \in ss /\ \A t \in ts : ~GG!SameKey(m, t)
               \/ m \in ts /\ \A s \in ss : ~GG!SameKey(s, m)
               \/ \E s \in ss, t \in ts : GG!SameKey(s, t) /\ m = GG!Upgraded(s, t)
    BY <1>2 DEF GG!Merge
  <1>3. ASSUME NEW s \in ss, NEW t \in ts, GG!SameKey(s, t)  PROVE GG!Upgraded(s, t) \in mm
    <2>1. <<s, t>> \in {q \in ss \X ts : GG!SameKey(q[1], q[2])}  BY <1>3
    <2> QED  BY <2>1 DEF GG!Merge
  <1>4. ASSUME NEW m \in mm
        PROVE  /\ m \in GG!Entries
               /\ (\E s \in ss : GG!SameKey(s, m)) \/ (\E t \in ts : GG!SameKey(t, m))
               /\ ggTarget # "any" => m.audio = ggTarget
    <2>1. CASE m \in ss  BY <1>1, <2>1 DEF GG!SameKey, GgSound
    <2>2. CASE m \in ts  BY <1>1, <2>2 DEF GG!SameKey, GgSound
    <2>3. ASSUME NEW s \in ss, NEW t \in ts, GG!SameKey(s, t), m = GG!Upgraded(s, t)
          PROVE  /\ m \in GG!Entries /\ GG!SameKey(s, m)
                 /\ ggTarget # "any" => m.audio = ggTarget
      <3>1. m \in GG!Entries /\ GG!SameKey(s, m)  BY <1>1, <2>3, UpgradedIsBetter
      <3> QED  BY <3>1 DEF GG!SameKey, GgSound
    <2> QED  BY <1>2, <2>1, <2>2, <2>3
  <1>5. ASSUME NEW m \in mm, NEW n \in mm, GG!SameKey(m, n)  PROVE m = n
    <2>1. CASE m \in ss /\ \A t \in ts : ~GG!SameKey(m, t)
      <3>1. ASSUME NEW s \in ss, NEW t \in ts, GG!SameKey(s, t), n = GG!Upgraded(s, t)
            PROVE FALSE
        <4>1. GG!SameKey(t, n)  BY <1>1, <3>1, UpgradedIsBetter
        <4> QED  BY <1>5, <2>1, <4>1 DEF GG!SameKey
      <3> QED  BY <1>1, <1>2, <1>5, <2>1, <3>1 DEF GgUnique
    <2>2. CASE m \in ts /\ \A s \in ss : ~GG!SameKey(s, m)
      <3>1. ASSUME NEW s \in ss, NEW t \in ts, GG!SameKey(s, t), n = GG!Upgraded(s, t)
            PROVE FALSE
        <4>1. GG!SameKey(s, n)  BY <1>1, <3>1, UpgradedIsBetter
        <4> QED  BY <1>5, <2>2, <4>1 DEF GG!SameKey
      <3>2. ~(n \in ss)  BY <1>5, <2>2 DEF GG!SameKey
      <3> QED  BY <1>1, <1>2, <1>5, <2>2, <3>1, <3>2 DEF GgUnique
    <2>3. ASSUME NEW s \in ss, NEW t \in ts, GG!SameKey(s, t), m = GG!Upgraded(s, t)
          PROVE  m = n
      <3>1. GG!SameKey(s, m) /\ GG!SameKey(t, m)  BY <1>1, <2>3, UpgradedIsBetter
      <3>2. GG!SameKey(s, n) /\ GG!SameKey(n, t)  BY <1>5, <3>1 DEF GG!SameKey
      <3>3. ASSUME NEW x \in ss, NEW y \in ts, GG!SameKey(x, y), n = GG!Upgraded(x, y)
            PROVE  m = n
        <4>1. GG!SameKey(x, n) /\ GG!SameKey(y, n)  BY <1>1, <3>3, UpgradedIsBetter
        <4>2. GG!SameKey(s, x) /\ GG!SameKey(t, y)  BY <3>2, <4>1 DEF GG!SameKey
        <4>3. s = x /\ t = y  BY <1>1, <4>2 DEF GgUnique
        <4> QED  BY <2>3, <3>3, <4>3
      <3> QED  BY <1>2, <3>2, <3>3
    <2> QED  BY <1>2, <2>1, <2>2, <2>3
  <1>6. ASSUME NEW f \in ss \cup ts  PROVE GgCovered(mm, f)
    <2>1. GG!SameKey(f, f) /\ GG!Priority(f) >= GG!Priority(f)
      <3>1. GG!Priority(f) \in Nat  BY <1>1, <1>6, PriorityIsNat
      <3> QED  BY <3>1 DEF GG!SameKey
    <2>2. CASE f \in mm  BY <2>1, <2>2 DEF GgCovered
    <2>3. ASSUME NEW s \in ss, NEW t \in ts, GG!SameKey(s, t), f \in {s, t}
          PROVE  GgCovered(mm, f)
      <3>1. LET u == GG!Upgraded(s, t)
            IN  /\ u \in mm /\ GG!SameKey(s, u) /\ GG!SameKey(t, u)
                /\ GG!Priority(u) >= GG!Priority(s) /\ GG!Priority(u) >= GG!Priority(t)
        BY <1>1, <1>3, <2>3, UpgradedIsBetter
      <3> QED  BY <2>3, <3>1 DEF GgCovered
    <2>4. f \in mm \/ \E s \in ss, t \in ts : GG!SameKey(s, t) /\ f \in {s, t}
      BY <1>6 DEF GG!Merge
    <2> QED  BY <2>2, <2>3, <2>4
  <1> HIDE DEF mm
  <1>7. GgSound(mm)  BY <1>4, <1>5 DEF GgSound, GgUnique
  <1> QED  BY <1>6, <1>7 DEF mm

\* A single stream, and a merge with one, are sound.
LEMMA SingleIsSound ==
  ASSUME GG!AnimeGGAssumption, NEW s \in GG!Entries, ggTarget # "any" => s.audio = ggTarget
  PROVE  GgSound({s}) /\ GgCovered({s}, s)
  <1>1. GG!Priority(s) \in Nat  BY PriorityIsNat
  <1> QED  BY <1>1 DEF GgSound, GgUnique, GgCovered, GG!SameKey

GgWanted == {v.url : v \in GG!Wanted}

\* What a call keeps, what it has found, and what it has tried.
GgTyped ==
  /\ ggTarget \in GG!Audios \cup {"any"}
  /\ ggPc \in {"fetch", "unread", "variants", "unavailable", "embeds", "upgrade",
               "session", "answer", "done", "none"}
  /\ ggPc \notin {"fetch", "unread"} => ggPage \in GgPages
  /\ ggFound \subseteq GG!Entries /\ (ggPc = "fetch" => ggFound = {})
  /\ GgSound(ggSources) /\ GgSound(ggSession) /\ (ggPc # "session" => ggSession = {})
GgHeld ==
  \A f \in ggFound : GgCovered(ggSources, f) \/ GgCovered(ggSession, f)
GgTries ==
  /\ ggPc = "variants" =>
       ggLeft \subseteq GG!Wanted /\ {v.url : v \in GG!Wanted \ ggLeft} \subseteq ggTried
  /\ ggPc \in {"embeds", "upgrade", "session", "answer"} => GgWanted \subseteq ggTried
  /\ ggPc = "embeds" => ggSources = {} /\ GG!Selected \ ggLeft \subseteq ggTried
  /\ ggPc \in {"upgrade", "session", "answer"} => ggSources # {} \/ GG!Selected \subseteq ggTried
  /\ ggPc \in {"session", "answer"} => ggSources # {} \/ "browser" \in ggTried

GgInv ==
  /\ GgTyped /\ GgHeld /\ GgTries
  /\ GG!NothingIsLeftUntried /\ GG!StreamsAreMerged

LEMMA GgInvInit == GG!AnimeGGAssumption /\ GG!Init => GgInv
  BY DEF GG!Init, GgInv, GgTyped, GgHeld, GgTries, GgSound, GgUnique, GG!NothingIsLeftUntried,
         GG!StreamsAreMerged

\* While the target and the page stay, so do what is wanted, what is sound and
\* what is covered.
LEMMA GgStays ==
  ASSUME UNCHANGED ggTarget
  PROVE  /\ \A ss : GgSound(ss)' <=> GgSound(ss)
         /\ ggPage' = ggPage => GG!Wanted' = GG!Wanted /\ GG!Selected' = GG!Selected
                                /\ GgWanted' = GgWanted
  BY DEF GgSound, GgUnique, GG!SameKey, GG!Wanted, GG!Selected, GgWanted


\* What is covered stays so, by a set that covers what covered it.
LEMMA CoverTwice ==
  ASSUME GG!AnimeGGAssumption, NEW f \in GG!Entries, NEW ss, NEW mm,
         ss \subseteq GG!Entries, mm \subseteq GG!Entries,
         GgCovered(ss, f), \A s \in ss : GgCovered(mm, s)
  PROVE  GgCovered(mm, f)
  <1>1. PICK s \in ss : GG!SameKey(f, s) /\ GG!Priority(s) >= GG!Priority(f)  BY DEF GgCovered
  <1>2. PICK m \in mm : GG!SameKey(s, m) /\ GG!Priority(m) >= GG!Priority(s)
    BY <1>1 DEF GgCovered
  <1>3. GG!Priority(f) \in Nat /\ GG!Priority(s) \in Nat /\ GG!Priority(m) \in Nat
    BY PriorityIsNat
  <1> QED  BY <1>1, <1>2, <1>3 DEF GgCovered, GG!SameKey

\* A merge into the streams in hand, of streams that are then noted, if not yet.
LEMMA MergeIntoSources ==
  ASSUME GG!AnimeGGAssumption, GgInv, NEW ns, GgSound(ns), UNCHANGED ggTarget,
         ggSources' = GG!Merge(ggSources, ns), ggFound' = ggFound \cup ns,
         ggSession' = ggSession
  PROVE  GgSound(ggSources)' /\ GgHeld' /\ ggFound' \subseteq GG!Entries
  <1>1. GgSound(ggSources) /\ GgSound(ggSession) /\ ggFound \subseteq GG!Entries
    BY DEF GgInv, GgTyped
  <1>2. GgSound(ggSources') /\ \A f \in ggSources \cup ns : GgCovered(ggSources', f)
    BY <1>1, MergeKeeps
  <1>3. /\ ns \subseteq GG!Entries /\ ggSources' \subseteq GG!Entries
        /\ ggSources \subseteq GG!Entries
    BY <1>1, <1>2 DEF GgSound
  <1>4. ASSUME NEW f \in ggFound'  PROVE GgCovered(ggSources', f) \/ GgCovered(ggSession', f)
    <2>1. CASE f \in ns  BY <1>2, <2>1
    <2>2. CASE GgCovered(ggSources, f)  BY <1>1, <1>2, <1>3, <1>4, <2>2, CoverTwice
    <2>3. CASE GgCovered(ggSession, f)  BY <2>3
    <2> QED  BY <1>4, <2>1, <2>2, <2>3 DEF GgInv, GgHeld
  <1>5. GgSound(ggSources)'  BY <1>2 DEF GgSound, GgUnique, GG!SameKey
  <1>6. GgHeld'  BY <1>4 DEF GgHeld, GgCovered, GG!SameKey, GG!Priority
  <1> QED  BY <1>1, <1>3, <1>5, <1>6

LEMMA GgFetchKeeps ==
  ASSUME GG!AnimeGGAssumption, GgInv, GG!Fetch
  PROVE  GgInv'
  <1>1. /\ ggPc = "fetch" /\ UNCHANGED <<ggTarget, ggSession, ggTried>>
        /\ ggSession = {} /\ ggFound = {}
    BY DEF GG!Fetch, GgInv, GgTyped
  <1>2. CASE ggPc' = "unread" /\ UNCHANGED <<ggPage, ggLeft, ggSources, ggFound, ggAnswer>>
    <2>1. GgSound(ggSources)' /\ GgSound(ggSession)'  BY <1>1, <1>2 DEF GgInv, GgTyped,
            GgSound, GgUnique, GG!SameKey
    <2> QED  BY <1>1, <1>2, <2>1 DEF GgInv, GgTyped, GgHeld, GgTries,
         GG!NothingIsLeftUntried, GG!StreamsAreMerged
  <1>3. CASE ggPc' = "variants" /\ ggPage' \in GgPages
    <2> DEFINE entry(u) == [url |-> u, audio |-> ggTarget, quality |-> GgInferred[u],
                            cookie |-> FALSE, referer |-> FALSE]
    <2>1. /\ ggLeft' = {v \in ggPage'.variants : ggTarget = "any" \/ v.audio = ggTarget}
          /\ ggSources' = {entry(u) : u \in ggPage'.direct}
          /\ ggFound' = ggFound \cup ggSources'
      BY <1>3 DEF GG!Fetch, GG!Note, GG!Goto
    <2>2. ggPage'.direct \subseteq GgMedia  BY <1>3 DEF GG!AnimeGGAssumption
    <2>3. \A u \in ggPage'.direct : entry(u) \in GG!Entries
      <3>1. ggTarget \in GG!Audios \cup {"any"}  BY DEF GgInv, GgTyped
      <3> QED  BY <2>2, <3>1 DEF GG!AnimeGGAssumption, GG!Entries
    <2>4. \A u, w \in ggPage'.direct : u = w  BY <1>3 DEF GG!AnimeGGAssumption
    <2>5. \A u \in ggPage'.direct : entry(u).audio = ggTarget  OBVIOUS
    <2>6. ggSources' \subseteq GG!Entries  BY <2>1, <2>3
    <2>7. \A s, t \in ggSources' : s = t  BY <2>1, <2>4
    <2>8. \A s \in ggSources' : s.audio = ggTarget  BY <2>1, <2>5
    <2> HIDE DEF entry
    <2>9. GgSound(ggSources)' /\ GgSound(ggSession)'
      BY <1>1, <2>6, <2>7, <2>8 DEF GgSound, GgUnique, GG!SameKey
    <2>10. ASSUME NEW f \in ggSources'  PROVE GgCovered(ggSources, f)'
      <3>1. f \in GG!Entries  BY <2>6, <2>10
      <3>2. GG!Priority(f) \in Nat  BY <3>1, PriorityIsNat
      <3> QED  BY <2>10, <3>2 DEF GgCovered, GG!SameKey, GG!Priority
    <2>11. GgHeld' /\ ggFound' \subseteq GG!Entries
      BY <1>1, <2>1, <2>6, <2>10 DEF GgHeld
    <2>12. ggLeft' = GG!Wanted'  BY <1>1, <2>1 DEF GG!Wanted
    <2>13. GgTyped'  BY <1>1, <1>3, <2>9, <2>11 DEF GgInv, GgTyped
    <2>14. GgTries'  BY <1>3, <2>12 DEF GgTries
    <2> QED  BY <1>3, <2>11, <2>13, <2>14 DEF GgInv, GG!NothingIsLeftUntried, GG!StreamsAreMerged
  <1> QED  BY <1>2, <1>3 DEF GG!Fetch, GG!Goto

LEMMA GgAskKeeps ==
  ASSUME GG!AnimeGGAssumption, GgInv, GG!AskVariant
  PROVE  GgInv'
  <1>1. ggPc = "variants" /\ UNCHANGED <<ggTarget, ggPage, ggPc, ggSession, ggAnswer>>
    BY DEF GG!AskVariant
  <1>2. PICK v \in ggLeft :
          /\ ggLeft' = ggLeft \ {v} /\ ggTried' = ggTried \cup {v.url}
          /\ \/ UNCHANGED <<ggSources, ggFound>>
             \/ \E alive \in SUBSET GgListed[v.url] \ {{}} :
                  LET streams == {GG!Labelled(x, v.audio) : x \in alive}
                  IN  ggSources' = GG!Merge(ggSources, streams) /\ GG!Note(streams)
    BY DEF GG!AskVariant
  <1>3. v \in GG!Wanted /\ ggLeft \subseteq GG!Wanted  BY <1>1, <1>2 DEF GgInv, GgTries
  <1>4. GG!Wanted' = GG!Wanted /\ GG!Selected' = GG!Selected /\ GgWanted' = GgWanted
        /\ (GgSound(ggSession)' <=> GgSound(ggSession))
    BY <1>1, GgStays
  <1>5. GgTries'
    <2>1. {w.url : w \in GG!Wanted \ ggLeft'} \subseteq ggTried'
      BY <1>1, <1>2 DEF GgInv, GgTries
    <2> QED  BY <1>1, <1>2, <1>3, <1>4, <2>1 DEF GgTries
  <1>6. GgSound(ggSources)' /\ GgHeld' /\ ggFound' \subseteq GG!Entries
    <2>1. CASE UNCHANGED <<ggSources, ggFound>>
      BY <1>1, <2>1, GgStays DEF GgInv, GgTyped, GgHeld, GgCovered, GG!SameKey, GG!Priority
    <2>2. ASSUME NEW alive \in SUBSET GgListed[v.url],
                 LET streams == {GG!Labelled(x, v.audio) : x \in alive}
                 IN  ggSources' = GG!Merge(ggSources, streams) /\ GG!Note(streams)
          PROVE  GgSound(ggSources)' /\ GgHeld' /\ ggFound' \subseteq GG!Entries
      <3> DEFINE streams == {GG!Labelled(x, v.audio) : x \in alive}
      <3>1. /\ v \in GG!Editions /\ v.url \in GgEmbeds /\ v.audio \in GG!Audios
            /\ ggTarget # "any" => v.audio = ggTarget
        <4>1. ggPage \in GgPages  BY <1>1 DEF GgInv, GgTyped
        <4>2. v \in ggPage.variants /\ (ggTarget = "any" \/ v.audio = ggTarget)
          BY <1>3 DEF GG!Wanted
        <4>3. ggPage.variants \subseteq GG!Editions  BY <4>1 DEF GG!AnimeGGAssumption
        <4> QED  BY <4>2, <4>3 DEF GG!Editions
      <3>2. /\ GgListed[v.url] \subseteq [url : GgMedia, quality : GgQualities]
            /\ \A x, y \in GgListed[v.url] : x.url = y.url => x = y
        BY <3>1 DEF GG!AnimeGGAssumption
      <3>3. \A x \in alive : x \in [url : GgMedia, quality : GgQualities]  BY <3>2
      <3>4. \A x \in alive :
               LET s == GG!Labelled(x, v.audio)
               IN  s \in GG!Entries /\ s.url = x.url /\ s.audio = v.audio
        BY <3>1, <3>3 DEF GG!Labelled, GG!Entries
      <3>5. GgSound(streams)
        <4>1. streams \subseteq GG!Entries  BY <3>4
        <4>2. \A s \in streams : s.audio = v.audio  BY <3>4
        <4>3. ASSUME NEW x \in alive, NEW y \in alive,
                     GG!SameKey(GG!Labelled(x, v.audio), GG!Labelled(y, v.audio))
              PROVE  GG!Labelled(x, v.audio) = GG!Labelled(y, v.audio)
          <5>1. x.url = y.url  BY <3>4, <4>3 DEF GG!SameKey
          <5>2. x = y  BY <3>2, <5>1
          <5> QED  BY <5>2
        <4>4. GgUnique(streams)  BY <4>3 DEF GgUnique
        <4> QED  BY <3>1, <4>1, <4>2, <4>4 DEF GgSound
      <3> HIDE DEF streams
      <3>6. ggSources' = GG!Merge(ggSources, streams) /\ ggFound' = ggFound \cup streams
        BY <2>2 DEF GG!Note, streams
      <3> QED  BY <1>1, <3>5, <3>6, MergeIntoSources
    <2> QED  BY <1>2, <2>1, <2>2
  <1>7. GgTyped'  BY <1>1, <1>4, <1>6 DEF GgInv, GgTyped
  <1> QED  BY <1>1, <1>5, <1>6, <1>7 DEF GgInv, GG!NothingIsLeftUntried, GG!StreamsAreMerged

LEMMA GgCheckKeeps ==
  ASSUME GG!AnimeGGAssumption, GgInv, GG!CheckAudio
  PROVE  GgInv'
  <1>1. /\ ggPc = "variants" /\ ggLeft = {}
        /\ UNCHANGED <<ggTarget, ggPage, ggSources, ggSession, ggTried, ggFound, ggAnswer>>
    BY DEF GG!CheckAudio, GG!Goto
  <1>2. GG!Wanted' = GG!Wanted /\ GG!Selected' = GG!Selected /\ GgWanted' = GgWanted
        /\ (GgSound(ggSession)' <=> GgSound(ggSession))
        /\ (GgSound(ggSources)' <=> GgSound(ggSources))
    BY <1>1, GgStays
  <1>3. GgWanted \subseteq ggTried  BY <1>1 DEF GgInv, GgTries, GgWanted
  <1>4. GgHeld'
    BY <1>1 DEF GgInv, GgHeld, GgCovered, GG!SameKey, GG!Priority
  <1>5. ggPc' \in {"unavailable", "embeds", "upgrade"}  BY DEF GG!CheckAudio, GG!Goto
  <1>6. GgTyped'  BY <1>1, <1>2, <1>5 DEF GgInv, GgTyped
  <1>7. GgTries'
    <2>1. CASE ggPc' = "unavailable"  BY <2>1 DEF GgTries
    <2>2. CASE ggPc' = "embeds"
      <3>1. ggLeft' = GG!Selected /\ ggSources = {}  BY <2>2 DEF GG!CheckAudio, GG!Goto
      <3> QED  BY <1>1, <1>2, <1>3, <2>2, <3>1 DEF GgTries
    <2>3. CASE ggPc' = "upgrade"
      <3>1. ggSources # {}  BY <2>3 DEF GG!CheckAudio, GG!Goto
      <3> QED  BY <1>1, <1>2, <1>3, <2>3, <3>1 DEF GgTries
    <2> QED  BY <1>5, <2>1, <2>2, <2>3
  <1>8. ASSUME ggPc' = "unavailable"
        PROVE  ggTarget # "any" /\ ggPage.variants # {} /\ \A v \in ggPage.variants : v.audio # ggTarget
    <2>1. ggTarget # "any" /\ ggPage.variants # {} /\ GG!Selected = {}
      BY <1>8 DEF GG!CheckAudio, GG!Goto
    <2> QED  BY <2>1 DEF GG!Selected, GG!Wanted
  <1> QED  BY <1>1, <1>4, <1>5, <1>6, <1>7, <1>8
           DEF GgInv, GG!NothingIsLeftUntried, GG!StreamsAreMerged

LEMMA GgEmbedKeeps ==
  ASSUME GG!AnimeGGAssumption, GgInv, GG!ResolveEmbed \/ GG!EndEmbeds
  PROVE  GgInv'
  <1>1. ggPc = "embeds" /\ UNCHANGED <<ggTarget, ggPage, ggSession, ggAnswer>> /\ ggSession = {}
    BY DEF GG!ResolveEmbed, GG!EndEmbeds, GG!Goto, GgInv, GgTyped
  <1>2. GG!Wanted' = GG!Wanted /\ GG!Selected' = GG!Selected /\ GgWanted' = GgWanted
        /\ (GgSound(ggSession)' <=> GgSound(ggSession))
        /\ (GgSound(ggSources)' <=> GgSound(ggSources'))
    BY <1>1, GgStays DEF GgSound, GgUnique, GG!SameKey
  <1>3. ASSUME ggPc' \in {"embeds", "upgrade"}, UNCHANGED <<ggSources, ggFound>>,
               ggTried \subseteq ggTried', GG!Selected \ ggLeft' \subseteq ggTried',
               ggPc' = "upgrade" => ggLeft' = {}
        PROVE  GgInv'
    <2>1. GgHeld'  BY <1>1, <1>3 DEF GgInv, GgHeld, GgCovered, GG!SameKey, GG!Priority
    <2>2. GgTyped'  BY <1>1, <1>2, <1>3 DEF GgInv, GgTyped
    <2>3. GgTries'  BY <1>1, <1>2, <1>3 DEF GgInv, GgTries
    <2> QED  BY <1>3, <2>1, <2>2, <2>3 DEF GgInv, GG!NothingIsLeftUntried, GG!StreamsAreMerged
  <1>4. CASE GG!EndEmbeds
    <2>1. /\ ggLeft = {} /\ ggPc' = "upgrade"
          /\ UNCHANGED <<ggLeft, ggSources, ggFound, ggTried>>
      BY <1>4 DEF GG!EndEmbeds, GG!Goto
    <2>2. GG!Selected \ ggLeft \subseteq ggTried  BY <1>1 DEF GgInv, GgTries
    <2> QED  BY <1>3, <2>1, <2>2
  <1>5. ASSUME NEW e \in ggLeft, ggTried' = ggTried \cup {e}, ggLeft' = ggLeft \ {e},
               UNCHANGED <<ggPc, ggSources, ggFound>>
        PROVE  GgInv'
    <2>1. GG!Selected \ ggLeft \subseteq ggTried  BY <1>1 DEF GgInv, GgTries
    <2>2. GG!Selected \ ggLeft' \subseteq ggTried'  BY <1>5, <2>1
    <2> QED  BY <1>1, <1>3, <1>5, <2>2
  <1>6. ASSUME NEW e \in ggLeft, ggTried' = ggTried \cup {e}, ggLeft' = {}, ggPc' = "upgrade",
               NEW x \in [url : GgMedia, quality : GgQualities],
               ggSources' = {GG!Labelled(x, ggTarget)}, GG!Note(ggSources')
        PROVE  GgInv'
    <2> DEFINE s == GG!Labelled(x, ggTarget)
    <2>1. s \in GG!Entries /\ s.audio = ggTarget
      BY DEF GG!Labelled, GG!Entries, GgInv, GgTyped
    <2>2. ggSources' = {s} /\ ggFound' = ggFound \cup {s}  BY <1>6 DEF GG!Note
    <2> HIDE DEF s
    <2>3. GgSound({s}) /\ GgCovered({s}, s)  BY <2>1, SingleIsSound
    <2>4. ASSUME NEW f \in ggFound'  PROVE GgCovered({s}, f)
      <3>1. CASE f = s  BY <2>3, <3>1
      <3>2. CASE f \in ggFound
        <4>1. GgCovered(ggSources, f) \/ GgCovered(ggSession, f)  BY <3>2 DEF GgInv, GgHeld
        <4>2. ggSources = {} /\ ggSession = {}  BY <1>1 DEF GgInv, GgTries
        <4> QED  BY <4>1, <4>2 DEF GgCovered
      <3> QED  BY <2>2, <2>4, <3>1, <3>2
    <2>5. GgHeld'
      BY <2>2, <2>4 DEF GgHeld, GgCovered, GG!SameKey, GG!Priority
    <2>6. GgTyped'  BY <1>1, <1>2, <1>6, <2>1, <2>2, <2>3 DEF GgInv, GgTyped
    <2>7. GgTries'
      <3>1. GgWanted \subseteq ggTried /\ ggTried \subseteq ggTried'
        BY <1>1, <1>6 DEF GgInv, GgTries
      <3> QED  BY <1>2, <1>6, <2>2, <3>1 DEF GgTries
    <2> QED  BY <1>6, <2>5, <2>6, <2>7 DEF GgInv, GG!NothingIsLeftUntried, GG!StreamsAreMerged
  <1> QED  BY <1>1, <1>4, <1>5, <1>6 DEF GG!ResolveEmbed, GG!Goto

LEMMA GgOpenKeeps ==
  ASSUME GG!AnimeGGAssumption, GgInv, GG!OpenBrowser \/ GG!KeepAsIs
  PROVE  GgInv'
  <1>1. ggPc = "upgrade" /\ UNCHANGED <<ggTarget, ggPage, ggLeft, ggSources, ggAnswer>>
        /\ ggSession = {} /\ ggPc' \in {"answer", "session"}
    BY DEF GG!OpenBrowser, GG!KeepAsIs, GG!Goto, GgInv, GgTyped
  <1>2. GG!Wanted' = GG!Wanted /\ GG!Selected' = GG!Selected /\ GgWanted' = GgWanted
        /\ (GgSound(ggSession)' <=> GgSound(ggSession'))
        /\ (GgSound(ggSources)' <=> GgSound(ggSources))
    BY <1>1, GgStays DEF GgSound, GgUnique, GG!SameKey
  <1>3. ASSUME ggTried \subseteq ggTried', ggSources # {} \/ "browser" \in ggTried'
        PROVE  GgTries'
    BY <1>1, <1>2, <1>3 DEF GgInv, GgTries
  <1>4. CASE UNCHANGED <<ggSession, ggFound>>
    <2>1. GgHeld'  BY <1>1, <1>4 DEF GgInv, GgHeld, GgCovered, GG!SameKey, GG!Priority
    <2>2. GgTyped'  BY <1>1, <1>2, <1>4 DEF GgInv, GgTyped
    <2>3. ggTried \subseteq ggTried' /\ (ggSources # {} \/ "browser" \in ggTried')
      <3>1. CASE GG!OpenBrowser  BY <3>1 DEF GG!OpenBrowser
      <3>2. CASE GG!KeepAsIs
        <4>1. ggSources # {}
          BY <3>2 DEF GG!KeepAsIs, GG!GoodEnough, GG!NeedsUpgrade, GG!Matching
        <4> QED  BY <3>2, <4>1 DEF GG!KeepAsIs
      <3> QED  BY <3>1, <3>2
    <2> QED  BY <1>1, <1>3, <2>1, <2>2, <2>3 DEF GgInv, GG!NothingIsLeftUntried, GG!StreamsAreMerged
  <1>5. ASSUME NEW x \in [url : GgMedia, quality : GgQualities], NEW c \in BOOLEAN,
               ggSession' = {[GG!Labelled(x, ggTarget) EXCEPT !.cookie = c]},
               GG!Note(ggSession'), ggPc' = "session", ggTried' = ggTried \cup {"browser"}
        PROVE  GgInv'
    <2> DEFINE s == [GG!Labelled(x, ggTarget) EXCEPT !.cookie = c]
    <2>1. s \in GG!Entries /\ s.audio = ggTarget
      BY DEF GG!Labelled, GG!Entries, GgInv, GgTyped
    <2>2. ggSession' = {s} /\ ggFound' = ggFound \cup {s}  BY <1>5 DEF GG!Note
    <2> HIDE DEF s
    <2>3. GgSound({s}) /\ GgCovered({s}, s)  BY <2>1, SingleIsSound
    <2>4. ASSUME NEW f \in ggFound'  PROVE GgCovered(ggSources, f) \/ GgCovered({s}, f)
      <3>1. CASE f = s  BY <2>3, <3>1
      <3>2. CASE f \in ggFound
        <4>1. GgCovered(ggSources, f) \/ GgCovered(ggSession, f)  BY <3>2 DEF GgInv, GgHeld
        <4> QED  BY <1>1, <4>1 DEF GgCovered
      <3> QED  BY <2>2, <2>4, <3>1, <3>2
    <2>5. GgHeld'
      BY <1>1, <2>2, <2>4 DEF GgHeld, GgCovered, GG!SameKey, GG!Priority
    <2>6. GgTyped'  BY <1>1, <1>2, <1>5, <2>1, <2>2, <2>3 DEF GgInv, GgTyped
    <2>7. GgTries'  BY <1>3, <1>5
    <2> QED  BY <1>5, <2>5, <2>6, <2>7 DEF GgInv, GG!NothingIsLeftUntried, GG!StreamsAreMerged
  <1> QED  BY <1>4, <1>5 DEF GG!OpenBrowser, GG!KeepAsIs, GG!Goto

LEMMA GgCaptureKeeps ==
  ASSUME GG!AnimeGGAssumption, GgInv, GG!Capture
  PROVE  GgInv'
  <1>1. ggPc = "session" /\ UNCHANGED <<ggTarget, ggPage, ggPc, ggLeft, ggSources, ggTried, ggAnswer>>
    BY DEF GG!Capture
  <1>2. PICK u \in GgMedia, c \in BOOLEAN, r \in BOOLEAN :
          LET s == [url |-> u, audio |-> ggTarget, quality |-> GgInferred[u],
                    cookie |-> c, referer |-> r]
          IN  ggSession' = GG!Merge(ggSession, {s}) /\ GG!Note({s})
    BY DEF GG!Capture
  <1> DEFINE s == [url |-> u, audio |-> ggTarget, quality |-> GgInferred[u],
                   cookie |-> c, referer |-> r]
  <1>3. s \in GG!Entries /\ s.audio = ggTarget
    <2>1. ggTarget \in GG!Audios \cup {"any"}  BY DEF GgInv, GgTyped
    <2>2. GgInferred[u] \in GgQualities  BY DEF GG!AnimeGGAssumption
    <2> QED  BY <2>1, <2>2 DEF GG!Entries
  <1>4. ggSession' = GG!Merge(ggSession, {s}) /\ ggFound' = ggFound \cup {s}
    BY <1>2 DEF GG!Note
  <1> HIDE DEF s
  <1>5. GgSound({s}) /\ GgSound(ggSession) /\ GgSound(ggSources) /\ ggFound \subseteq GG!Entries
    BY <1>3, SingleIsSound DEF GgInv, GgTyped
  <1>6. GgSound(ggSession') /\ \A f \in ggSession \cup {s} : GgCovered(ggSession', f)
    BY <1>4, <1>5, MergeKeeps
  <1>7. ASSUME NEW f \in ggFound'  PROVE GgCovered(ggSources, f) \/ GgCovered(ggSession', f)
    <2>1. CASE f = s  BY <1>6, <2>1
    <2>2. CASE f \in ggFound
      <3>1. CASE GgCovered(ggSession, f)
        <4>1. f \in GG!Entries /\ ggSession \subseteq GG!Entries /\ ggSession' \subseteq GG!Entries
          BY <1>5, <1>6, <2>2 DEF GgSound
        <4> QED  BY <1>6, <3>1, <4>1, CoverTwice
      <3> QED  BY <2>2, <3>1 DEF GgInv, GgHeld
    <2> QED  BY <1>4, <1>7, <2>1, <2>2
  <1>8. GG!Wanted' = GG!Wanted /\ GG!Selected' = GG!Selected /\ GgWanted' = GgWanted
        /\ (GgSound(ggSession)' <=> GgSound(ggSession'))
        /\ (GgSound(ggSources)' <=> GgSound(ggSources))
    BY <1>1, GgStays DEF GgSound, GgUnique, GG!SameKey
  <1>9. GgHeld'
    BY <1>1, <1>7 DEF GgHeld, GgCovered, GG!SameKey, GG!Priority
  <1>10. GgTyped'  BY <1>1, <1>3, <1>4, <1>5, <1>6, <1>8 DEF GgInv, GgTyped
  <1>11. GgTries'  BY <1>1, <1>8 DEF GgInv, GgTries
  <1> QED  BY <1>1, <1>9, <1>10, <1>11 DEF GgInv, GG!NothingIsLeftUntried, GG!StreamsAreMerged

LEMMA GgEndSessionKeeps ==
  ASSUME GG!AnimeGGAssumption, GgInv, GG!EndSession
  PROVE  GgInv'
  <1>1. /\ ggPc = "session" /\ ggPc' = "answer" /\ ggSession' = {}
        /\ ggSources' = GG!Merge(ggSources, ggSession)
        /\ UNCHANGED <<ggTarget, ggPage, ggLeft, ggTried, ggFound, ggAnswer>>
    BY DEF GG!EndSession, GG!Goto
  <1>2. GgSound(ggSession) /\ GgSound(ggSources) /\ ggFound \subseteq GG!Entries
    BY DEF GgInv, GgTyped
  <1>3. GgSound(ggSources') /\ \A f \in ggSources \cup ggSession : GgCovered(ggSources', f)
    BY <1>1, <1>2, MergeKeeps
  <1>4. ggSources' = {} => ggSources = {}  BY <1>3 DEF GgCovered
  <1>5. ASSUME NEW f \in ggFound  PROVE GgCovered(ggSources', f)
    <2>1. GgCovered(ggSources, f) \/ GgCovered(ggSession, f)  BY DEF GgInv, GgHeld
    <2>2. /\ f \in GG!Entries /\ ggSession \subseteq GG!Entries
          /\ ggSources \subseteq GG!Entries /\ ggSources' \subseteq GG!Entries
      BY <1>2, <1>3 DEF GgSound
    <2> QED  BY <1>3, <2>1, <2>2, CoverTwice
  <1>6. GG!Wanted' = GG!Wanted /\ GG!Selected' = GG!Selected /\ GgWanted' = GgWanted
        /\ (GgSound(ggSources)' <=> GgSound(ggSources'))
    BY <1>1, GgStays DEF GgSound, GgUnique, GG!SameKey
  <1>7. GgHeld'
    BY <1>1, <1>5 DEF GgHeld, GgCovered, GG!SameKey, GG!Priority
  <1>8. GgTyped'
    <2>1. GgSound(ggSession)'  BY <1>1 DEF GgSound, GgUnique
    <2> QED  BY <1>1, <1>2, <1>3, <1>6, <2>1 DEF GgInv, GgTyped
  <1>9. GgTries'  BY <1>1, <1>4, <1>6 DEF GgInv, GgTries
  <1> QED  BY <1>1, <1>7, <1>8, <1>9 DEF GgInv, GG!NothingIsLeftUntried, GG!StreamsAreMerged

LEMMA GgAnswerKeeps ==
  ASSUME GG!AnimeGGAssumption, GgInv, GG!Answer
  PROVE  GgInv'
  <1>1. /\ ggPc = "answer" /\ ggSession = {}
        /\ UNCHANGED <<ggTarget, ggPage, ggLeft, ggSources, ggSession, ggTried, ggFound>>
        /\ IF ggSources = {} THEN GG!Goto("none")
           ELSE ggPc' = "done" /\ ggAnswer' = GG!Preferred(ggSources)
    BY DEF GG!Answer, GgInv, GgTyped
  <1>2. GG!Wanted' = GG!Wanted /\ GG!Selected' = GG!Selected /\ GgWanted' = GgWanted
        /\ (GgSound(ggSession)' <=> GgSound(ggSession))
        /\ (GgSound(ggSources)' <=> GgSound(ggSources))
    BY <1>1, GgStays
  <1>3. GgHeld' /\ GgTries'
    BY <1>1 DEF GgInv, GgHeld, GgTries, GgCovered, GG!SameKey, GG!Priority, GG!Goto
  <1>4. GgTyped'  BY <1>1, <1>2 DEF GgInv, GgTyped, GG!Goto
  <1>5. GG!NothingIsLeftUntried'
    <2>1. CASE ggPc' = "none"
      <3>1. ggSources = {}  BY <1>1, <2>1
      <3>2. GgWanted \cup GG!Selected \cup {"browser"} \subseteq ggTried
        BY <1>1, <3>1 DEF GgInv, GgTries
      <3> QED  BY <1>1, <1>2, <2>1, <3>2 DEF GG!NothingIsLeftUntried, GgWanted
    <2>2. CASE ggPc' = "done"  BY <2>2 DEF GG!NothingIsLeftUntried
    <2> QED  BY <1>1, <2>1, <2>2 DEF GG!Goto
  <1>6. GG!StreamsAreMerged'
    <2>1. CASE ggPc' = "none"  BY <2>1 DEF GG!StreamsAreMerged
    <2>2. CASE ggPc' = "done" /\ ggAnswer' = GG!Preferred(ggSources)
      <3>1. GgSound(ggSources)  BY DEF GgInv, GgTyped
      <3>2. ggAnswer' \subseteq ggSources  BY <2>2 DEF GG!Preferred
      <3>3. \A s, t \in ggAnswer' : GG!SameKey(s, t) => s = t
        BY <3>1, <3>2 DEF GgSound, GgUnique
      <3>4. ggTarget # "any" => \A s \in ggAnswer' : s.audio = ggTarget
        BY <3>1, <3>2 DEF GgSound
      <3>5. ASSUME NEW f \in ggFound
            PROVE  \/ \E t \in ggAnswer' : GG!SameKey(f, t) /\ GG!Priority(t) >= GG!Priority(f)
                   \/ f.url \in Gated /\ \E t \in ggAnswer' : GG!Backed(t)
        <4>1. PICK t \in ggSources : GG!SameKey(f, t) /\ GG!Priority(t) >= GG!Priority(f)
          BY <1>1 DEF GgInv, GgHeld, GgCovered
        <4>2. CASE t \in ggAnswer'  BY <4>1, <4>2
        <4>3. CASE t \notin ggAnswer'
          <5>1. GG!Unbacked(t) /\ \E s \in ggSources : GG!Backed(s)
            BY <2>2, <4>3 DEF GG!Preferred
          <5>2. \A s : GG!Backed(s) => ~GG!Unbacked(s)  BY DEF GG!Backed, GG!Unbacked
          <5>3. \E s \in ggAnswer' : GG!Backed(s)  BY <2>2, <5>1, <5>2 DEF GG!Preferred
          <5>4. f.url \in Gated  BY <4>1, <5>1 DEF GG!Unbacked, GG!SameKey
          <5> QED  BY <5>3, <5>4
        <4> QED  BY <4>2, <4>3
      <3> QED  BY <1>1, <3>3, <3>4, <3>5
               DEF GG!StreamsAreMerged, GG!SameKey, GG!Priority, GG!Backed
    <2> QED  BY <1>1, <2>1, <2>2 DEF GG!Goto
  <1> QED  BY <1>3, <1>4, <1>5, <1>6 DEF GgInv

LEMMA GgInvNext == GG!AnimeGGAssumption /\ GgInv /\ [GG!Next]_(GG!vars) => GgInv'
  <1> SUFFICES ASSUME GG!AnimeGGAssumption, GgInv, [GG!Next]_(GG!vars)  PROVE GgInv'
    OBVIOUS
  <1>1. CASE UNCHANGED GG!vars
    <2>1. UNCHANGED <<ggTarget, ggPage, ggPc, ggLeft, ggSources, ggSession, ggTried, ggFound,
                      ggAnswer>>
      BY <1>1 DEF GG!vars
    <2>2. GG!Wanted' = GG!Wanted /\ GG!Selected' = GG!Selected /\ GgWanted' = GgWanted
          /\ (GgSound(ggSession)' <=> GgSound(ggSession))
          /\ (GgSound(ggSources)' <=> GgSound(ggSources))
      BY <2>1, GgStays
    <2>3. GgTyped' /\ GgTries'  BY <2>1, <2>2 DEF GgInv, GgTyped, GgTries
    <2>4. GgHeld'  BY <2>1 DEF GgInv, GgHeld, GgCovered, GG!SameKey, GG!Priority
    <2>5. GG!NothingIsLeftUntried'  BY <2>1, <2>2 DEF GgInv, GG!NothingIsLeftUntried
    <2>6. GG!StreamsAreMerged'
      BY <2>1 DEF GgInv, GG!StreamsAreMerged, GG!SameKey, GG!Priority, GG!Backed
    <2> QED  BY <2>3, <2>4, <2>5, <2>6 DEF GgInv
  <1> QED
    BY <1>1, GgFetchKeeps, GgAskKeeps, GgCheckKeeps, GgEmbedKeeps, GgOpenKeeps,
       GgCaptureKeeps, GgEndSessionKeeps, GgAnswerKeeps
    DEF GG!Next

LEMMA GgMerges ==
  GG!AnimeGGAssumption =>
    (GG!Spec => []GG!NothingIsLeftUntried /\ []GG!StreamsAreMerged)
  <1> SUFFICES ASSUME GG!AnimeGGAssumption
        PROVE GG!Spec => []GG!NothingIsLeftUntried /\ []GG!StreamsAreMerged
    OBVIOUS
  <1>1. GgInv => GG!NothingIsLeftUntried /\ GG!StreamsAreMerged  BY DEF GgInv
  <1> QED  BY <1>1, GgInvInit, GgInvNext, PTL DEF GG!Spec

----------------------------------------------------------------------------
(* MangaMatch: which manga of a source is the one of an entry. *)
MmTyped ==
  /\ mmEntry \in [MatchCalls -> MatchEntries]
  /\ mmAt \in [MatchCalls -> Nat \ {0}] /\ variant \in [MatchCalls -> Nat \ {0}]
  /\ hits \in [MatchCalls -> Seq(MatchItems)]
  /\ heard \in [MatchCalls -> Seq(Seq(MatchItems) \cup {MM!Lost})]
  /\ accepted \in [MatchCalls -> SUBSET Nat]
  /\ best \in [MatchCalls -> [item : MatchItems \cup {Absent}, confidence : Nat]]
  /\ DOMAIN mmPc = MatchCalls /\ DOMAIN failedVariant = MatchCalls
  /\ DOMAIN mmLeft = MatchCalls /\ DOMAIN judged = MatchCalls

\* What is kept was found; and what is kept as nothing was asked for.
MmKept ==
  /\ DOMAIN table = MatchItems /\ DOMAIN matches = MatchEntries
  /\ searches \in [TitleForms -> Seq(MatchItems) \cup {Absent}]
  /\ \A j \in MatchItems : table[j] # Absent =>
       /\ table[j].entry \in MatchEntries /\ table[j].confidence \in Nat
       /\ <<table[j].entry, j>> \in proofs
  /\ \A q \in TitleForms : searches[q] = <<>> => q \in silent
  /\ \A e \in MatchEntries : matches[e] # Absent /\ matches[e].status = "ready"
                               => <<e, matches[e].item>> \in proofs

MmNames(c)   == MM!SearchNames(mmEntry[c])
MmWorth(c, n) ==
  MM!Prioritized(MM!Needles(mmEntry[c], MmNames(c)[n]), heard[c][n])
MmUnderway(c) == mmPc[c] \in {"table", "meta", "look", "vary", "asked", "judge"}

\* The answers that were heard are those for the names before the one in hand.
MmHeard(c) ==
  /\ mmPc[c] \in {"table", "meta"} => mmAt[c] = 1
  /\ mmPc[c] \in {"table", "meta", "look", "vary", "asked"} => Len(heard[c]) = mmAt[c] - 1
  /\ mmPc[c] = "look" => mmAt[c] - 1 <= Len(MmNames(c))
  /\ mmPc[c] \in {"vary", "asked", "judge"} => mmAt[c] \in DOMAIN MmNames(c)
  /\ mmPc[c] = "asked" => variant[c] \in DOMAIN MM!Variants(MM!Query(c))
  /\ mmPc[c] \in {"vary", "asked"} /\ variant[c] > 1 =>
       failedVariant[c] \/ MM!Query(c) \in silent
  /\ mmPc[c] = "judge" => /\ Len(heard[c]) = mmAt[c] /\ heard[c][mmAt[c]] = hits[c]
                          /\ mmLeft[c] \subseteq MM!Prioritized(MM!Wanted(c), hits[c])

\* As long as there is no match, each hit worth a look is in hand or was turned down.
MmTurnedDown(c) ==
  MmUnderway(c) /\ best[c] = MM!NoMatch =>
    /\ accepted[c] = {}
    /\ \A n \in DOMAIN heard[c] : heard[c][n] # MM!Lost =>
         \A p \in MmWorth(c, n) :
           <<n, p>> \in judged[c] \/ (mmPc[c] = "judge" /\ n = mmAt[c] /\ p \in mmLeft[c])

MmHighest(c) == \A k \in accepted[c] : k <= best[c].confidence
MmTrusted(c) ==
  \E n \in DOMAIN heard[c] :
    MM!Trusted(best[c].item, MM!Needles(mmEntry[c], MmNames(c)[n]))
MmBest(c) ==
  /\ best[c] # MM!NoMatch => <<mmEntry[c], best[c].item>> \in proofs
  /\ MmUnderway(c) => MmHighest(c)
  /\ mmPc[c] = "finish" => best[c] # MM!NoMatch
  /\ mmPc[c] \in {"finish", "done"} => MmHighest(c) \/ MmTrusted(c)

MmDone(c) ==
  mmPc[c] = "done" /\ best[c] = MM!NoMatch =>
    /\ Len(heard[c]) = Len(MmNames(c)) /\ accepted[c] = {}
    /\ \A n \in DOMAIN heard[c] : heard[c][n] # MM!Lost =>
         \A p \in MmWorth(c, n) : <<n, p>> \in judged[c]

MmCall(c) == MmHeard(c) /\ MmTurnedDown(c) /\ MmBest(c) /\ MmDone(c)
MmInv == MmTyped /\ MmKept /\ \A c \in MatchCalls : MmCall(c)

----------------------------------------------------------------------------
MmGrades == {0, 66, 74, 76, 86, 98, 100}

LEMMA MmGrade ==
  ASSUME NEW x, NEW y, NEW words
  PROVE  MM!Grade(x, y, words) \in MmGrades
  BY DEF MM!Grade, MmGrades

LEMMA MmMaxGrade ==
  ASSUME NEW S, S \subseteq MmGrades, 0 \in S
  PROVE  MM!Max(S) \in Nat
  <1>1. \E k \in S : \A n \in S : k >= n  BY DEF MmGrades
  <1>2. MM!Max(S) = CHOOSE k \in S : \A n \in S : k >= n  BY DEF MM!Max
  <1>3. MM!Max(S) \in S  BY <1>1, <1>2
  <1>4. \A k \in S : k \in Nat  BY DEF MmGrades
  <1> QED  BY <1>3, <1>4

\* What is likely enough has a confidence of at least 78.
LEMMA MmMatches ==
  ASSUME NEW j, NEW needles, NEW r \in MM!Matches(j, needles)
  PROVE  r[1] \in MatchEntries /\ r[2] \in Nat
  <1>1. PICK e \in MatchEntries :
          r = <<e, MM!EntryScore(EntryNames[e], MM!Queries(j, needles), <<j, e>> \in SameYear)>>
    BY DEF MM!Matches
  <1> DEFINE G == {MM!Grade(EntryNames[e][k], MM!Queries(j, needles)[n], MM!Queries(j, needles)[n]) :
                     k \in DOMAIN EntryNames[e], n \in DOMAIN MM!Queries(j, needles)}
  <1>2. {0} \cup G \subseteq MmGrades  BY MmGrade DEF MmGrades
  <1>3. MM!Max({0} \cup G) \in Nat  BY <1>2, MmMaxGrade
  <1>4. MM!EntryScore(EntryNames[e], MM!Queries(j, needles), <<j, e>> \in SameYear)
          = MM!Max({0} \cup G) + (IF <<j, e>> \in SameYear THEN 6 ELSE 0)
    BY DEF MM!EntryScore
  <1> HIDE DEF G
  <1> QED  BY <1>1, <1>3, <1>4

\* Of a call that does nothing, all stays.
MmSame(c) ==
  /\ mmPc'[c] = mmPc[c] /\ mmEntry'[c] = mmEntry[c] /\ mmAt'[c] = mmAt[c]
  /\ variant'[c] = variant[c] /\ failedVariant'[c] = failedVariant[c]
  /\ hits'[c] = hits[c] /\ mmLeft'[c] = mmLeft[c] /\ best'[c] = best[c]
  /\ heard'[c] = heard[c] /\ judged'[c] = judged[c] /\ accepted'[c] = accepted[c]

LEMMA MmSameKeeps ==
  ASSUME NEW c \in MatchCalls, MmSame(c), MmCall(c), silent \subseteq silent', proofs \subseteq proofs'
  PROVE  MmCall(c)'
  <1>1. MmNames(c)' = MmNames(c) /\ MM!Query(c)' = MM!Query(c) /\ MM!Wanted(c)' = MM!Wanted(c)
        /\ (MmUnderway(c)' <=> MmUnderway(c))
    BY DEF MmSame, MmNames, MM!Query, MM!Wanted, MmUnderway
  <1>2. \A n : MmWorth(c, n)' = MmWorth(c, n)  BY <1>1 DEF MmSame, MmWorth
  <1>3. MmHeard(c)'  BY <1>1 DEF MmCall, MmHeard, MmSame
  <1>4. MmTurnedDown(c)'  BY <1>1, <1>2 DEF MmCall, MmTurnedDown, MmSame
  <1>5. MmBest(c)'  BY <1>1 DEF MmCall, MmBest, MmHighest, MmTrusted, MmSame
  <1>6. MmDone(c)'  BY <1>1, <1>2 DEF MmCall, MmDone, MmSame
  <1> QED  BY <1>3, <1>4, <1>5, <1>6 DEF MmCall

LEMMA MmNamed ==
  ASSUME MM!MangaMatchAssumption, MmTyped, NEW c \in MatchCalls
  PROVE  /\ MmNames(c) \in Seq(TitleForms) /\ Len(MmNames(c)) \in Nat
         /\ DOMAIN MmNames(c) = 1 .. Len(MmNames(c))
         /\ mmAt[c] \in DOMAIN MmNames(c) => MM!Query(c) \in TitleForms
         /\ mmAt[c] \in Nat \ {0} /\ Len(heard[c]) \in Nat
         /\ DOMAIN heard[c] = 1 .. Len(heard[c])
  BY DEF MM!MangaMatchAssumption, MmTyped, MmNames, MM!Query

LEMMA MmVariants ==
  ASSUME MM!MangaMatchAssumption, NEW q \in TitleForms
  PROVE  /\ MM!Variants(q) \in Seq(TitleForms) /\ Len(MM!Variants(q)) \in Nat \ {0}
         /\ DOMAIN MM!Variants(q) = 1 .. Len(MM!Variants(q)) /\ MM!Variants(q)[1] = q
  <1>1. MM!Variants(q) \in Seq(TitleForms) /\ MM!Variants(q) # <<>> /\ MM!Variants(q)[1] = q
    BY DEF MM!MangaMatchAssumption
  <1> QED  BY <1>1, EmptySeq, LenProperties

----------------------------------------------------------------------------
(* What an answer, an outage and a variant do, whichever call they belong to. *)

LEMMA MmHears ==
  ASSUME MM!MangaMatchAssumption, MmInv, NEW c \in MatchCalls, NEW found \in Seq(MatchItems),
         mmPc[c] \in {"look", "vary", "asked"}, mmAt[c] \in DOMAIN MmNames(c),
         MM!Hear(c, found), UNCHANGED <<mmEntry, best, judged, accepted, proofs>>,
         silent \subseteq silent'
  PROVE  MmTyped' /\ \A d \in MatchCalls : MmCall(d)'
  <1> USE DEF MmInv
  <1>1. /\ heard' = [heard EXCEPT ![c] = Append(@, found)]
        /\ hits' = [hits EXCEPT ![c] = found]
        /\ mmLeft' = [mmLeft EXCEPT ![c] = MM!Prioritized(MM!Wanted(c), found)]
        /\ mmPc' = [mmPc EXCEPT ![c] = "judge"]
        /\ UNCHANGED <<mmAt, variant, failedVariant>>
    BY DEF MM!Hear, MM!Goto
  <1>2. heard[c] \in Seq(Seq(MatchItems) \cup {MM!Lost}) /\ found \in Seq(MatchItems) \cup {MM!Lost}
    BY DEF MmTyped
  <1>3. /\ heard'[c] = Append(heard[c], found) /\ heard'[c] \in Seq(Seq(MatchItems) \cup {MM!Lost})
        /\ Len(heard'[c]) = Len(heard[c]) + 1 /\ heard'[c][Len(heard[c]) + 1] = found
        /\ \A n \in 1 .. Len(heard[c]) : heard'[c][n] = heard[c][n]
    BY <1>1, <1>2, AppendProperties DEF MmTyped
  <1>4. MmTyped'
    <2>1. heard' \in [MatchCalls -> Seq(Seq(MatchItems) \cup {MM!Lost})]
      BY <1>1, <1>3 DEF MmTyped
    <2> QED  BY <1>1, <2>1 DEF MmTyped
  <1>5. ASSUME NEW d \in MatchCalls, d # c  PROVE MmSame(d)
    BY <1>1, <1>5 DEF MmTyped, MmSame
  <1>6. MmCall(c) /\ Len(heard[c]) = mmAt[c] - 1  BY DEF MmCall, MmHeard
  <1>7. MmNames(c)' = MmNames(c) /\ MM!Wanted(c)' = MM!Wanted(c) /\ mmPc'[c] = "judge"
        /\ hits'[c] = found /\ mmLeft'[c] = MM!Prioritized(MM!Wanted(c), found)
        /\ mmAt'[c] = mmAt[c]
    BY <1>1 DEF MmTyped, MmNames, MM!Wanted, MM!Query
  <1>8. MmHeard(c)'
    BY <1>3, <1>6, <1>7, MmNamed DEF MmHeard
  <1>9. MmTurnedDown(c)'
    <2> SUFFICES ASSUME best[c] = MM!NoMatch
                 PROVE /\ accepted[c] = {}
                       /\ \A n \in DOMAIN heard'[c] : heard'[c][n] # MM!Lost =>
                            \A p \in MmWorth(c, n)' : <<n, p>> \in judged[c] \/ (n = mmAt[c] /\ p \in mmLeft'[c])
      BY <1>7 DEF MmTurnedDown
    <2>1. MmTurnedDown(c) /\ MmUnderway(c)  BY <1>6 DEF MmCall, MmUnderway
    <2>2. ASSUME NEW n \in DOMAIN heard'[c], heard'[c][n] # MM!Lost, NEW p \in MmWorth(c, n)'
          PROVE  <<n, p>> \in judged[c] \/ (n = mmAt[c] /\ p \in mmLeft'[c])
      <3>1. n \in 1 .. Len(heard[c]) + 1
        BY <1>3, <2>2, LenProperties
      <3>2. CASE n = Len(heard[c]) + 1
        <4>1. n = mmAt[c] /\ heard'[c][n] = found  BY <1>3, <1>6, <3>2, MmNamed
        <4>2. p \in MM!Prioritized(MM!Needles(mmEntry[c], MmNames(c)[mmAt[c]]), found)
          BY <1>7, <2>2, <4>1 DEF MmWorth
        <4> QED  BY <1>7, <4>1, <4>2 DEF MM!Wanted, MM!Query, MmNames
      <3>3. CASE n \in 1 .. Len(heard[c])
        <4>1. heard'[c][n] = heard[c][n] /\ n \in DOMAIN heard[c]  BY <1>3, <3>3, MmNamed
        <4>2. MmWorth(c, n)' = MmWorth(c, n)  BY <1>7, <4>1 DEF MmWorth
        <4> QED  BY <2>1, <2>2, <4>1, <4>2 DEF MmTurnedDown
      <3>4. Len(heard[c]) \in Nat  BY MmNamed
      <3> QED  BY <3>1, <3>2, <3>3, <3>4
    <2> QED  BY <2>1, <2>2 DEF MmTurnedDown
  <1>10. MmBest(c)'
    BY <1>6, <1>7 DEF MmCall, MmBest, MmHighest, MmUnderway
  <1>11. MmDone(c)'  BY <1>7 DEF MmDone
  <1>12. MmCall(c)'  BY <1>8, <1>9, <1>10, <1>11 DEF MmCall
  <1>13. \A d \in MatchCalls \ {c} : MmCall(d)'
    BY <1>5, MmSameKeeps
  <1> QED  BY <1>4, <1>12, <1>13

LEMMA MmGivesUp ==
  ASSUME MM!MangaMatchAssumption, MmInv, NEW c \in MatchCalls,
         mmPc[c] \in {"vary", "asked"}, mmAt[c] \in DOMAIN MmNames(c), MM!GiveUp(c),
         UNCHANGED <<mmEntry, best, judged, accepted, silent, proofs>>
  PROVE  MmTyped' /\ \A d \in MatchCalls : MmCall(d)'
  <1> USE DEF MmInv
  <1>1. /\ heard' = [heard EXCEPT ![c] = Append(@, MM!Lost)]
        /\ mmAt' = [mmAt EXCEPT ![c] = @ + 1] /\ mmPc' = [mmPc EXCEPT ![c] = "look"]
        /\ UNCHANGED <<variant, failedVariant, hits, mmLeft>>
    BY DEF MM!GiveUp, MM!Goto
  <1>2. heard[c] \in Seq(Seq(MatchItems) \cup {MM!Lost}) /\ MM!Lost \in Seq(MatchItems) \cup {MM!Lost}
    BY DEF MmTyped
  <1>3. /\ heard'[c] = Append(heard[c], MM!Lost)
        /\ heard'[c] \in Seq(Seq(MatchItems) \cup {MM!Lost})
        /\ Len(heard'[c]) = Len(heard[c]) + 1 /\ heard'[c][Len(heard[c]) + 1] = MM!Lost
        /\ \A n \in 1 .. Len(heard[c]) : heard'[c][n] = heard[c][n]
    BY <1>1, <1>2, AppendProperties DEF MmTyped
  <1>4. MmTyped'
    <2>1. heard' \in [MatchCalls -> Seq(Seq(MatchItems) \cup {MM!Lost})]
      BY <1>1, <1>3 DEF MmTyped
    <2>2. mmAt' \in [MatchCalls -> Nat \ {0}]  BY <1>1 DEF MmTyped
    <2> QED  BY <1>1, <2>1, <2>2 DEF MmTyped
  <1>5. ASSUME NEW d \in MatchCalls, d # c  PROVE MmSame(d)
    BY <1>1, <1>5 DEF MmTyped, MmSame
  <1>6. MmCall(c) /\ Len(heard[c]) = mmAt[c] - 1  BY DEF MmCall, MmHeard
  <1>7. MmNames(c)' = MmNames(c) /\ mmPc'[c] = "look" /\ mmAt'[c] = mmAt[c] + 1
    BY <1>1 DEF MmTyped, MmNames
  <1>8. MmHeard(c)'
    BY <1>3, <1>6, <1>7, MmNamed DEF MmHeard
  <1>9. MmTurnedDown(c)'
    <2> SUFFICES ASSUME best[c] = MM!NoMatch
                 PROVE /\ accepted[c] = {}
                       /\ \A n \in DOMAIN heard'[c] : heard'[c][n] # MM!Lost =>
                            \A p \in MmWorth(c, n)' : <<n, p>> \in judged[c]
      BY <1>7 DEF MmTurnedDown
    <2>1. MmTurnedDown(c) /\ MmUnderway(c)  BY <1>6 DEF MmCall, MmUnderway
    <2>2. ASSUME NEW n \in DOMAIN heard'[c], heard'[c][n] # MM!Lost, NEW p \in MmWorth(c, n)'
          PROVE  <<n, p>> \in judged[c]
      <3>1. n \in 1 .. Len(heard[c]) + 1  BY <1>3, <2>2, LenProperties
      <3>2. Len(heard[c]) \in Nat  BY MmNamed
      <3>3. n \in 1 .. Len(heard[c])  BY <1>3, <2>2, <3>1, <3>2
      <3>4. heard'[c][n] = heard[c][n] /\ n \in DOMAIN heard[c]  BY <1>3, <3>3, MmNamed
      <3>5. MmWorth(c, n)' = MmWorth(c, n)  BY <1>1, <1>7, <3>4 DEF MmWorth
      <3> QED  BY <2>1, <2>2, <3>4, <3>5 DEF MmTurnedDown
    <2> QED  BY <2>1, <2>2 DEF MmTurnedDown
  <1>10. MmBest(c)'  BY <1>6, <1>7 DEF MmCall, MmBest, MmHighest, MmUnderway
  <1>11. MmDone(c)'  BY <1>7 DEF MmDone
  <1>12. MmCall(c)'  BY <1>8, <1>9, <1>10, <1>11 DEF MmCall
  <1>13. \A d \in MatchCalls \ {c} : MmCall(d)'  BY <1>5, MmSameKeeps
  <1> QED  BY <1>4, <1>12, <1>13

LEMMA MmVaries ==
  ASSUME MM!MangaMatchAssumption, MmInv, NEW c \in MatchCalls, NEW broken \in BOOLEAN,
         mmPc[c] \in {"vary", "asked"}, MM!NextVariant(c, broken),
         variant[c] = 1 => broken \/ MM!Query(c) \in silent',
         UNCHANGED <<mmEntry, best, judged, accepted, proofs>>, silent \subseteq silent'
  PROVE  MmTyped' /\ \A d \in MatchCalls : MmCall(d)'
  <1> USE DEF MmInv
  <1>1. /\ variant' = [variant EXCEPT ![c] = @ + 1]
        /\ failedVariant' = [failedVariant EXCEPT ![c] = @ \/ broken]
        /\ mmPc' = [mmPc EXCEPT ![c] = "vary"] /\ UNCHANGED <<mmAt, hits, mmLeft, heard>>
    BY DEF MM!NextVariant, MM!Goto
  <1>2. MmTyped'
    <2>1. variant' \in [MatchCalls -> Nat \ {0}]  BY <1>1 DEF MmTyped
    <2>2. DOMAIN failedVariant' = MatchCalls /\ DOMAIN mmPc' = MatchCalls  BY <1>1 DEF MmTyped
    <2> QED  BY <1>1, <2>1, <2>2 DEF MmTyped
  <1>3. ASSUME NEW d \in MatchCalls, d # c  PROVE MmSame(d)
    BY <1>1, <1>3 DEF MmTyped, MmSame
  <1>4. MmCall(c)  OBVIOUS
  <1>5. MmNames(c)' = MmNames(c) /\ MM!Query(c)' = MM!Query(c) /\ mmPc'[c] = "vary"
    BY <1>1 DEF MmTyped, MmNames, MM!Query
  <1>6. (failedVariant'[c] <=> failedVariant[c] \/ broken) /\ variant'[c] = variant[c] + 1
    BY <1>1 DEF MmTyped
  <1>7. failedVariant'[c] \/ MM!Query(c) \in silent'
    <2>1. CASE variant[c] = 1  BY <1>6, <2>1
    <2>2. CASE variant[c] # 1
      <3>1. variant[c] > 1  BY <2>2 DEF MmTyped
      <3> QED  BY <1>4, <1>6, <3>1 DEF MmCall, MmHeard
    <2> QED  BY <2>1, <2>2
  <1>8. MmHeard(c)'
    <2>1. Len(heard[c]) = mmAt[c] - 1 /\ mmAt[c] \in DOMAIN MmNames(c)
      BY <1>4 DEF MmCall, MmHeard
    <2> QED  BY <1>1, <1>5, <1>7, <2>1 DEF MmHeard
  <1>9. \A n : MmWorth(c, n)' = MmWorth(c, n)  BY <1>1, <1>5 DEF MmWorth
  <1>10. MmTurnedDown(c)'
    BY <1>1, <1>4, <1>5, <1>9 DEF MmCall, MmTurnedDown, MmUnderway
  <1>11. MmBest(c)'  BY <1>4, <1>5 DEF MmCall, MmBest, MmHighest, MmUnderway
  <1>12. MmDone(c)'  BY <1>5 DEF MmDone
  <1>13. MmCall(c)'  BY <1>8, <1>10, <1>11, <1>12 DEF MmCall
  <1>14. \A d \in MatchCalls \ {c} : MmCall(d)'  BY <1>3, MmSameKeeps
  <1> QED  BY <1>2, <1>13, <1>14

\* Some that is kept is forgotten, or what is kept stays.
LEMMA MmKeptStays ==
  ASSUME MmKept, UNCHANGED <<table, searches, matches, proofs>>, silent \subseteq silent'
  PROVE  MmKept'
  BY DEF MmKept

----------------------------------------------------------------------------
(* The steps of a call. *)

LEMMA MmLookKeeps ==
  ASSUME MM!MangaMatchAssumption, MmInv, NEW c \in MatchCalls, MM!Look(c)
  PROVE  MmInv'
  <1>1. /\ mmPc[c] = "look" /\ mmAt[c] <= Len(MmNames(c))
        /\ UNCHANGED <<table, searches, matches, mmEntry, best, judged, accepted, silent, proofs>>
    BY DEF MM!Look, MmNames
  <1>2. mmAt[c] \in DOMAIN MmNames(c) /\ MM!Query(c) \in TitleForms  BY <1>1, MmNamed DEF MmInv
  <1>3. MmKept'  BY <1>1, MmKeptStays DEF MmInv
  <1>4. CASE searches[MM!Query(c)] # Absent
    <2>1. MM!Hear(c, searches[MM!Query(c)])  BY <1>4 DEF MM!Look
    <2>2. searches[MM!Query(c)] \in Seq(MatchItems)  BY <1>2, <1>4 DEF MmInv, MmKept
    <2> HIDE DEF MmInv
    <2>3. MmTyped' /\ \A d \in MatchCalls : MmCall(d)'  BY <1>1, <1>2, <2>1, <2>2, MmHears
    <2> QED  BY <1>3, <2>3 DEF MmInv
  <1>5. CASE searches[MM!Query(c)] = Absent
    <2>1. /\ mmPc' = [mmPc EXCEPT ![c] = "vary"] /\ variant' = [variant EXCEPT ![c] = 1]
          /\ failedVariant' = [failedVariant EXCEPT ![c] = FALSE]
          /\ UNCHANGED <<mmAt, hits, mmLeft, heard>>
      BY <1>5 DEF MM!Look, MM!Goto
    <2>2. MmTyped'
      <3>1. variant' \in [MatchCalls -> Nat \ {0}]  BY <2>1 DEF MmInv, MmTyped
      <3>2. DOMAIN failedVariant' = MatchCalls /\ DOMAIN mmPc' = MatchCalls
        BY <2>1 DEF MmInv, MmTyped
      <3> QED  BY <1>1, <2>1, <3>1, <3>2 DEF MmInv, MmTyped
    <2>3. ASSUME NEW d \in MatchCalls, d # c  PROVE MmSame(d)
      BY <1>1, <2>1, <2>3 DEF MmInv, MmTyped, MmSame
    <2>4. MmNames(c)' = MmNames(c) /\ mmPc'[c] = "vary" /\ variant'[c] = 1
      BY <1>1, <2>1 DEF MmInv, MmTyped, MmNames
    <2>5. MmCall(c)  BY DEF MmInv
    <2>6. MmHeard(c)'  BY <1>1, <1>2, <2>1, <2>4, <2>5 DEF MmCall, MmHeard
    <2>7. \A n : MmWorth(c, n)' = MmWorth(c, n)  BY <1>1, <2>1, <2>4 DEF MmWorth
    <2>8. MmTurnedDown(c)'
      BY <1>1, <2>1, <2>4, <2>5, <2>7 DEF MmCall, MmTurnedDown, MmUnderway
    <2>9. MmBest(c)' /\ MmDone(c)'
      BY <1>1, <2>4, <2>5 DEF MmCall, MmBest, MmHighest, MmUnderway, MmDone
    <2>10. MmCall(c)'  BY <2>6, <2>8, <2>9 DEF MmCall
    <2>11. \A d \in MatchCalls \ {c} : MmCall(d)'  BY <1>1, <2>3, MmSameKeeps DEF MmInv
    <2> QED  BY <1>3, <2>2, <2>10, <2>11 DEF MmInv
  <1> QED  BY <1>4, <1>5

LEMMA MmTryKeeps ==
  ASSUME MM!MangaMatchAssumption, MmInv, NEW c \in MatchCalls, MM!TryVariant(c)
  PROVE  MmInv'
  <1> DEFINE v == MM!Variants(MM!Query(c))[variant[c]]
  <1>1. /\ mmPc[c] = "vary" /\ variant[c] <= Len(MM!Variants(MM!Query(c)))
        /\ UNCHANGED <<table, matches, mmEntry, best, judged, accepted, silent, proofs>>
    BY DEF MM!TryVariant
  <1>2. MmTyped /\ MmKept /\ MmCall(c)  BY DEF MmInv
  <1>3. mmAt[c] \in DOMAIN MmNames(c) /\ MM!Query(c) \in TitleForms
    BY <1>1, <1>2, MmNamed DEF MmCall, MmHeard
  <1>4. variant[c] \in DOMAIN MM!Variants(MM!Query(c)) /\ v \in TitleForms
        /\ (variant[c] = 1 => v = MM!Query(c))
    <2>1. variant[c] \in Nat \ {0}  BY <1>2 DEF MmTyped
    <2>2. /\ MM!Variants(MM!Query(c)) \in Seq(TitleForms)
          /\ Len(MM!Variants(MM!Query(c))) \in Nat \ {0}
          /\ DOMAIN MM!Variants(MM!Query(c)) = 1 .. Len(MM!Variants(MM!Query(c)))
          /\ MM!Variants(MM!Query(c))[1] = MM!Query(c)
      BY <1>3, MmVariants
    <2> QED  BY <1>1, <2>1, <2>2
  <1>5. searches[v] = Absent \/ searches[v] \in Seq(MatchItems)  BY <1>2, <1>4 DEF MmKept
  <1>6. CASE searches[v] = Absent
    <2>1. /\ mmPc' = [mmPc EXCEPT ![c] = "asked"]
          /\ UNCHANGED <<searches, mmAt, variant, failedVariant, hits, mmLeft, heard>>
      <3>1. Absent # <<>>  BY EmptySeq DEF MM!MangaMatchAssumption
      <3> QED  BY <1>6, <3>1 DEF MM!TryVariant, MM!Goto
    <2>2. MmTyped'  BY <1>1, <1>2, <2>1 DEF MmTyped
    <2>3. MmKept'  BY <1>1, <1>2, <2>1, MmKeptStays
    <2>4. ASSUME NEW d \in MatchCalls, d # c  PROVE MmSame(d)
      BY <1>1, <1>2, <2>1, <2>4 DEF MmTyped, MmSame
    <2>5. MmNames(c)' = MmNames(c) /\ MM!Query(c)' = MM!Query(c) /\ mmPc'[c] = "asked"
      BY <1>1, <1>2, <2>1 DEF MmTyped, MmNames, MM!Query
    <2>6. MmHeard(c)'  BY <1>1, <1>2, <1>4, <2>1, <2>5 DEF MmCall, MmHeard
    <2>7. \A n : MmWorth(c, n)' = MmWorth(c, n)  BY <1>1, <2>1, <2>5 DEF MmWorth
    <2>8. MmTurnedDown(c)'
      BY <1>1, <1>2, <2>1, <2>5, <2>7 DEF MmCall, MmTurnedDown, MmUnderway
    <2>9. MmBest(c)' /\ MmDone(c)'
      BY <1>1, <1>2, <2>5 DEF MmCall, MmBest, MmHighest, MmUnderway, MmDone
    <2>10. MmCall(c)'  BY <2>6, <2>8, <2>9 DEF MmCall
    <2>11. \A d \in MatchCalls \ {c} : MmCall(d)'  BY <1>1, <2>4, MmSameKeeps DEF MmInv
    <2> QED  BY <2>2, <2>3, <2>10, <2>11 DEF MmInv
  <1>7. CASE searches[v] # Absent /\ searches[v] = <<>>
    <2>1. MM!NextVariant(c, FALSE) /\ UNCHANGED searches  BY <1>7 DEF MM!TryVariant
    <2>2. variant[c] = 1 => FALSE \/ MM!Query(c) \in silent'
      BY <1>1, <1>2, <1>4, <1>7 DEF MmKept
    <2>3. FALSE \in BOOLEAN  OBVIOUS
    <2>4. MmTyped' /\ \A d \in MatchCalls : MmCall(d)'
      BY <1>1, <2>1, <2>2, <2>3, MmVaries
    <2>5. MmKept'  BY <1>1, <1>2, <2>1, MmKeptStays
    <2> QED  BY <2>4, <2>5 DEF MmInv
  <1>8. CASE searches[v] # Absent /\ searches[v] # <<>>
    <2>1. MM!Hear(c, searches[v]) /\ searches' = [searches EXCEPT ![MM!Query(c)] = searches[v]]
      BY <1>8 DEF MM!TryVariant
    <2>2. searches[v] \in Seq(MatchItems)  BY <1>5, <1>8
    <2>3. MmTyped' /\ \A d \in MatchCalls : MmCall(d)'  BY <1>1, <1>3, <2>1, <2>2, MmHears
    <2>4. MmKept'
      <3> HIDE DEF v
      <3> QED  BY <1>1, <1>2, <1>3, <1>8, <2>1, <2>2 DEF MmKept
    <2> QED  BY <2>3, <2>4 DEF MmInv
  <1> QED  BY <1>6, <1>7, <1>8

LEMMA MmAnsweredKeeps ==
  ASSUME MM!MangaMatchAssumption, MmInv, NEW c \in MatchCalls, MM!Answered(c)
  PROVE  MmInv'
  <1> DEFINE v == MM!Variants(MM!Query(c))[variant[c]]
  <1>1. /\ mmPc[c] = "asked"
        /\ UNCHANGED <<table, matches, mmEntry, best, judged, accepted, proofs>>
    BY DEF MM!Answered
  <1>2. MmTyped /\ MmKept /\ MmCall(c)  BY DEF MmInv
  <1>3. mmAt[c] \in DOMAIN MmNames(c) /\ MM!Query(c) \in TitleForms
    BY <1>1, <1>2, MmNamed DEF MmCall, MmHeard
  <1>4. v \in TitleForms /\ (variant[c] = 1 => v = MM!Query(c))
    BY <1>1, <1>2, <1>3, MmVariants DEF MmCall, MmHeard
  <1>5. PICK found \in Finds[v] :
          IF found = <<>>
            THEN /\ searches' = [searches EXCEPT ![v] = <<>>] /\ silent' = silent \cup {v}
                 /\ MM!NextVariant(c, FALSE)
            ELSE /\ searches' = [searches EXCEPT ![v] = found, ![MM!Query(c)] = found]
                 /\ MM!Hear(c, found) /\ UNCHANGED silent
    BY DEF MM!Answered
  <1>6. found \in Seq(MatchItems)  BY <1>4, <1>5 DEF MM!MangaMatchAssumption
  <1>7. CASE found = <<>>
    <2>1. /\ searches' = [searches EXCEPT ![v] = <<>>] /\ silent' = silent \cup {v}
          /\ MM!NextVariant(c, FALSE)
      BY <1>5, <1>7
    <2>2. variant[c] = 1 => FALSE \/ MM!Query(c) \in silent'  BY <1>4, <2>1
    <2>3. FALSE \in BOOLEAN /\ silent \subseteq silent'  BY <2>1
    <2>4. MmTyped' /\ \A d \in MatchCalls : MmCall(d)'
      BY <1>1, <2>1, <2>2, <2>3, MmVaries
    <2>5. MmKept'
      <3> HIDE DEF v
      <3> QED  BY <1>1, <1>2, <1>4, <1>6, <1>7, <2>1 DEF MmKept
    <2> QED  BY <2>4, <2>5 DEF MmInv
  <1>8. CASE found # <<>>
    <2>1. /\ searches' = [searches EXCEPT ![v] = found, ![MM!Query(c)] = found]
          /\ MM!Hear(c, found) /\ UNCHANGED silent
      BY <1>5, <1>8
    <2>2. MmTyped' /\ \A d \in MatchCalls : MmCall(d)'  BY <1>1, <1>3, <1>6, <2>1, MmHears
    <2>3. MmKept'
      <3> HIDE DEF v
      <3> QED  BY <1>1, <1>2, <1>3, <1>4, <1>6, <1>8, <2>1 DEF MmKept
    <2> QED  BY <2>2, <2>3 DEF MmInv
  <1> QED  BY <1>7, <1>8

LEMMA MmBrokenKeeps ==
  ASSUME MM!MangaMatchAssumption, MmInv, NEW c \in MatchCalls, MM!Broken(c)
  PROVE  MmInv'
  <1>1. /\ mmPc[c] = "asked"
        /\ UNCHANGED <<table, searches, matches, mmEntry, best, judged, accepted, silent, proofs>>
        /\ IF variant[c] = 1 THEN MM!GiveUp(c) ELSE MM!NextVariant(c, TRUE)
    BY DEF MM!Broken
  <1>2. MmTyped /\ MmKept /\ MmCall(c)  BY DEF MmInv
  <1>3. mmAt[c] \in DOMAIN MmNames(c)  BY <1>1, <1>2 DEF MmCall, MmHeard
  <1>4. MmKept'  BY <1>1, <1>2, MmKeptStays
  <1>5. MmTyped' /\ \A d \in MatchCalls : MmCall(d)'
    <2>1. CASE variant[c] = 1
      <3>1. MM!GiveUp(c)  BY <1>1, <2>1
      <3> QED  BY <1>1, <1>3, <3>1, MmGivesUp
    <2>2. CASE variant[c] # 1
      <3>1. MM!NextVariant(c, TRUE)  BY <1>1, <2>2
      <3>2. TRUE \in BOOLEAN  OBVIOUS
      <3> QED  BY <1>1, <2>2, <3>1, <3>2, MmVaries
    <2> QED  BY <2>1, <2>2
  <1> QED  BY <1>4, <1>5 DEF MmInv

LEMMA MmEndKeeps ==
  ASSUME MM!MangaMatchAssumption, MmInv, NEW c \in MatchCalls, MM!EndVariants(c)
  PROVE  MmInv'
  <1>1. /\ mmPc[c] = "vary" /\ variant[c] > Len(MM!Variants(MM!Query(c)))
        /\ UNCHANGED <<table, matches, mmEntry, best, judged, accepted, silent, proofs>>
        /\ IF failedVariant[c] THEN MM!GiveUp(c) /\ UNCHANGED searches
           ELSE searches' = [searches EXCEPT ![MM!Query(c)] = <<>>] /\ MM!Hear(c, <<>>)
    BY DEF MM!EndVariants
  <1>2. MmTyped /\ MmKept /\ MmCall(c)  BY DEF MmInv
  <1>3. mmAt[c] \in DOMAIN MmNames(c) /\ MM!Query(c) \in TitleForms
    BY <1>1, <1>2, MmNamed DEF MmCall, MmHeard
  <1>4. CASE failedVariant[c]
    <2>1. MM!GiveUp(c) /\ UNCHANGED searches  BY <1>1, <1>4
    <2>2. MmTyped' /\ \A d \in MatchCalls : MmCall(d)'  BY <1>1, <1>3, <2>1, MmGivesUp
    <2>3. MmKept'  BY <1>1, <1>2, <2>1, MmKeptStays
    <2> QED  BY <2>2, <2>3 DEF MmInv
  <1>5. CASE ~failedVariant[c]
    <2>1. searches' = [searches EXCEPT ![MM!Query(c)] = <<>>] /\ MM!Hear(c, <<>>)
      BY <1>1, <1>5
    <2>2. variant[c] > 1  BY <1>1, <1>2, <1>3, MmVariants DEF MmTyped
    <2>3. MM!Query(c) \in silent  BY <1>1, <1>2, <1>5, <2>2 DEF MmCall, MmHeard
    <2>4. <<>> \in Seq(MatchItems)  OBVIOUS
    <2>5. MmTyped' /\ \A d \in MatchCalls : MmCall(d)'  BY <1>1, <1>3, <2>1, <2>4, MmHears
    <2>6. MmKept'  BY <1>1, <1>2, <1>3, <2>1, <2>3, <2>4 DEF MmKept
    <2> QED  BY <2>5, <2>6 DEF MmInv
  <1> QED  BY <1>4, <1>5

LEMMA MmMoves ==
  ASSUME MM!MangaMatchAssumption, MmInv, NEW c \in MatchCalls, NEW to,
         \/ mmPc[c] = "table" /\ to \in {"meta", "told"}
         \/ mmPc[c] = "meta" /\ to \in {"look", "idle", "told"},
         MM!Goto(c, to), UNCHANGED <<mmEntry, MM!searching, silent, proofs>>
  PROVE  MmTyped' /\ \A d \in MatchCalls : MmCall(d)'
  <1>1. /\ mmPc' = [mmPc EXCEPT ![c] = to]
        /\ UNCHANGED <<mmEntry, mmAt, variant, failedVariant, hits, mmLeft, best, heard,
                       judged, accepted, silent, proofs>>
    BY DEF MM!Goto, MM!searching
  <1>2. MmTyped /\ MmCall(c)  BY DEF MmInv
  <1>3. MmTyped'  BY <1>1, <1>2 DEF MmTyped
  <1>4. ASSUME NEW d \in MatchCalls, d # c  PROVE MmSame(d)
    BY <1>1, <1>2, <1>4 DEF MmTyped, MmSame
  <1>5. MmNames(c)' = MmNames(c) /\ mmPc'[c] = to  BY <1>1, <1>2 DEF MmTyped, MmNames
  <1>6. mmAt[c] = 1 /\ Len(heard[c]) = mmAt[c] - 1  BY <1>2 DEF MmCall, MmHeard
  <1>7. MmHeard(c)'
    <2>1. to \in {"meta", "told", "look", "idle"}  OBVIOUS
    <2>2. mmAt[c] - 1 <= Len(MmNames(c))  BY <1>2, <1>6, MmNamed
    <2> QED  BY <1>1, <1>5, <1>6, <2>1, <2>2 DEF MmHeard
  <1>8. \A n : MmWorth(c, n)' = MmWorth(c, n)  BY <1>1, <1>5 DEF MmWorth
  <1>9. MmUnderway(c)  BY DEF MmUnderway
  <1>10. MmTurnedDown(c)'
    BY <1>1, <1>2, <1>8, <1>9 DEF MmCall, MmTurnedDown
  <1>11. MmBest(c)' /\ MmDone(c)'
    <2>1. to \notin {"finish", "done"}  OBVIOUS
    <2> QED  BY <1>1, <1>2, <1>5, <1>9, <2>1 DEF MmCall, MmBest, MmHighest, MmDone
  <1>12. MmCall(c)'  BY <1>7, <1>10, <1>11 DEF MmCall
  <1>13. \A d \in MatchCalls \ {c} : MmCall(d)'  BY <1>1, <1>4, MmSameKeeps DEF MmInv
  <1> QED  BY <1>3, <1>12, <1>13

\* A match may be kept of what was found, and any that is not ready.
LEMMA MmKeepsMatch ==
  ASSUME MmInv, NEW c \in MatchCalls, NEW status, NEW item, MM!Keep(c, status, item),
         status = "ready" => <<mmEntry[c], item>> \in proofs,
         UNCHANGED <<table, searches, proofs, silent>>
  PROVE  MmKept'
  <1>1. MmKept /\ matches' = [matches EXCEPT ![mmEntry[c]] = [status |-> status, item |-> item]]
    BY DEF MmInv, MM!Keep
  <1> QED  BY <1>1 DEF MmKept

LEMMA MmReadKeeps ==
  ASSUME MM!MangaMatchAssumption, MmInv, NEW c \in MatchCalls,
         MM!ReadTable(c) \/ MM!ReadFails(c)
  PROVE  MmInv'
  <1>1. /\ mmPc[c] = "table"
        /\ UNCHANGED <<table, searches, mmEntry, MM!searching, silent, proofs>>
    BY DEF MM!ReadTable, MM!ReadFails
  <1>2. CASE MM!Goto(c, "meta") /\ UNCHANGED matches
    <2>1. MmKept'  BY <1>1, <1>2, MmKeptStays DEF MmInv
    <2>2. MmTyped' /\ \A d \in MatchCalls : MmCall(d)'
      <3>1. "meta" \in {"meta", "told"}  OBVIOUS
      <3> QED  BY <1>1, <1>2, <3>1, MmMoves
    <2> QED  BY <2>1, <2>2 DEF MmInv
  <1>3. CASE \E j \in MM!Pool(mmEntry[c]) : MM!Keep(c, "ready", j) /\ MM!Goto(c, "told")
    <2>1. PICK j \in MM!Pool(mmEntry[c]) : MM!Keep(c, "ready", j) /\ MM!Goto(c, "told")
      BY <1>3
    <2>2. j \in MatchItems /\ table[j] # Absent /\ table[j].entry = mmEntry[c]
      BY DEF MM!Pool, MM!Fresh, MM!Usable
    <2>3. <<mmEntry[c], j>> \in proofs  BY <2>2 DEF MmInv, MmKept
    <2>4. MmKept'  BY <1>1, <2>1, <2>3, MmKeepsMatch
    <2>5. MmTyped' /\ \A d \in MatchCalls : MmCall(d)'
      <3>1. "told" \in {"meta", "told"}  OBVIOUS
      <3> QED  BY <1>1, <2>1, <3>1, MmMoves
    <2> QED  BY <2>4, <2>5 DEF MmInv
  <1>4. \/ MM!Goto(c, "meta") /\ UNCHANGED matches
        \/ \E j \in MM!Pool(mmEntry[c]) : MM!Keep(c, "ready", j) /\ MM!Goto(c, "told")
    BY DEF MM!ReadTable, MM!ReadFails
  <1> QED  BY <1>2, <1>3, <1>4

LEMMA MmMetaKeeps ==
  ASSUME MM!MangaMatchAssumption, MmInv, NEW c \in MatchCalls, MM!LoadMeta(c)
  PROVE  MmInv'
  <1>1. /\ mmPc[c] = "meta"
        /\ UNCHANGED <<table, searches, mmEntry, MM!searching, silent, proofs>>
        /\ \/ MM!Goto(c, "look") /\ UNCHANGED matches
           \/ MM!Goto(c, "idle") /\ UNCHANGED matches
           \/ MM!Goto(c, "told") /\ MM!Keep(c, "unresolved", Absent)
    BY DEF MM!LoadMeta
  <1>2. PICK to \in {"look", "idle", "told"} :
          MM!Goto(c, to) /\ (UNCHANGED matches \/ MM!Keep(c, "unresolved", Absent))
    BY <1>1
  <1>3. MmTyped' /\ \A d \in MatchCalls : MmCall(d)'  BY <1>1, <1>2, MmMoves
  <1>4. MmKept'
    <2>1. CASE UNCHANGED matches  BY <1>1, <2>1, MmKeptStays DEF MmInv
    <2>2. CASE MM!Keep(c, "unresolved", Absent)
      <3>1. "unresolved" # "ready"  OBVIOUS
      <3> QED  BY <1>1, <2>2, <3>1, MmKeepsMatch
    <2> QED  BY <1>2, <2>1, <2>2
  <1> QED  BY <1>3, <1>4 DEF MmInv

LEMMA MmAskKeeps ==
  ASSUME MM!MangaMatchAssumption, MmInv, NEW c \in MatchCalls, NEW e \in MatchEntries,
         MM!Ask(c, e)
  PROVE  MmInv'
  <1> DEFINE to == IF matches[e] = Absent THEN "table" ELSE "told"
  <1>1. /\ mmEntry' = [mmEntry EXCEPT ![c] = e] /\ mmPc' = [mmPc EXCEPT ![c] = to]
        /\ mmAt' = [mmAt EXCEPT ![c] = 1] /\ best' = [best EXCEPT ![c] = MM!NoMatch]
        /\ heard' = [heard EXCEPT ![c] = <<>>] /\ judged' = [judged EXCEPT ![c] = {}]
        /\ accepted' = [accepted EXCEPT ![c] = {}]
        /\ variant' = [variant EXCEPT ![c] = 1]
        /\ failedVariant' = [failedVariant EXCEPT ![c] = FALSE]
        /\ hits' = [hits EXCEPT ![c] = <<>>] /\ mmLeft' = [mmLeft EXCEPT ![c] = {}]
        /\ UNCHANGED <<table, searches, matches, silent, proofs>>
    BY DEF MM!Ask, MM!Goto
  <1>2. to \in {"table", "told"}  OBVIOUS
  <1> HIDE DEF to
  <1>3. MmTyped /\ MmKept  BY DEF MmInv
  <1>4. MmTyped'
    <2>1. <<>> \in Seq(Seq(MatchItems) \cup {MM!Lost}) /\ <<>> \in Seq(MatchItems)  OBVIOUS
    <2>2. MM!NoMatch \in [item : MatchItems \cup {Absent}, confidence : Nat]  BY DEF MM!NoMatch
    <2>3. /\ mmEntry' \in [MatchCalls -> MatchEntries]
          /\ mmAt' \in [MatchCalls -> Nat \ {0}] /\ variant' \in [MatchCalls -> Nat \ {0}]
      BY <1>1, <1>3 DEF MmTyped
    <2>4. /\ hits' \in [MatchCalls -> Seq(MatchItems)]
          /\ heard' \in [MatchCalls -> Seq(Seq(MatchItems) \cup {MM!Lost})]
      BY <1>1, <1>3, <2>1 DEF MmTyped
    <2>5. /\ accepted' \in [MatchCalls -> SUBSET Nat]
          /\ best' \in [MatchCalls -> [item : MatchItems \cup {Absent}, confidence : Nat]]
      BY <1>1, <1>3, <2>2 DEF MmTyped
    <2>6. /\ DOMAIN mmPc' = MatchCalls /\ DOMAIN failedVariant' = MatchCalls
          /\ DOMAIN mmLeft' = MatchCalls /\ DOMAIN judged' = MatchCalls
      BY <1>1, <1>3 DEF MmTyped
    <2> QED  BY <2>3, <2>4, <2>5, <2>6 DEF MmTyped
  <1>5. ASSUME NEW d \in MatchCalls, d # c  PROVE MmSame(d)
    BY <1>1, <1>3, <1>5 DEF MmTyped, MmSame
  <1>6. /\ mmPc'[c] = to /\ mmAt'[c] = 1 /\ best'[c] = MM!NoMatch /\ heard'[c] = <<>>
        /\ accepted'[c] = {}
    BY <1>1, <1>3 DEF MmTyped
  <1>7. Len(<<>>) = 0 /\ \A n : n \notin DOMAIN <<>>  OBVIOUS
  <1>8. MmHeard(c)'  BY <1>2, <1>6, <1>7 DEF MmHeard
  <1>9. MmTurnedDown(c)' /\ MmDone(c)'
    <2>1. \A n \in DOMAIN heard'[c] : FALSE  BY <1>6, <1>7
    <2> QED  BY <1>2, <1>6, <2>1 DEF MmTurnedDown, MmDone
  <1>10. MmBest(c)'  BY <1>2, <1>6 DEF MmBest, MmHighest
  <1>11. MmCall(c)'  BY <1>8, <1>9, <1>10 DEF MmCall
  <1>12. \A d \in MatchCalls \ {c} : MmCall(d)'  BY <1>1, <1>5, MmSameKeeps DEF MmInv
  <1>13. MmKept'  BY <1>1, <1>3, MmKeptStays
  <1> QED  BY <1>4, <1>11, <1>12, <1>13 DEF MmInv

\* What holds of a call that judges.
LEMMA MmJudging ==
  ASSUME MM!MangaMatchAssumption, MmInv, NEW c \in MatchCalls, mmPc[c] = "judge",
         NEW p \in mmLeft[c]
  PROVE  /\ hits[c][p] \in MatchItems /\ mmAt[c] \in DOMAIN heard[c]
         /\ mmAt[c] \in DOMAIN MmNames(c) /\ Len(heard[c]) = mmAt[c]
         /\ heard[c][mmAt[c]] = hits[c]
         /\ mmLeft[c] \subseteq MM!Prioritized(MM!Wanted(c), hits[c])
  <1>1. MmTyped /\ MmHeard(c)  BY DEF MmInv, MmCall
  <1>2. p \in DOMAIN hits[c]  BY <1>1 DEF MmHeard, MM!Prioritized
  <1>3. hits[c] \in Seq(MatchItems)  BY <1>1 DEF MmTyped
  <1>4. hits[c][p] \in MatchItems  BY <1>2, <1>3
  <1>5. Len(heard[c]) = mmAt[c] /\ mmAt[c] \in DOMAIN MmNames(c)  BY <1>1 DEF MmHeard
  <1>6. mmAt[c] \in DOMAIN heard[c]  BY <1>1, <1>5, MmNamed
  <1> QED  BY <1>1, <1>4, <1>5, <1>6 DEF MmHeard

\* A hit is turned down.
LEMMA MmTurnsDown ==
  ASSUME MM!MangaMatchAssumption, MmInv, NEW c \in MatchCalls, mmPc[c] = "judge",
         NEW p \in mmLeft[c], MM!TurnDown(c, p),
         UNCHANGED <<mmEntry, mmAt, variant, failedVariant, hits, heard>>,
         silent \subseteq silent', proofs \subseteq proofs'
  PROVE  MmTyped' /\ \A d \in MatchCalls : MmCall(d)'
  <1>1. /\ mmLeft' = [mmLeft EXCEPT ![c] = @ \ {p}]
        /\ judged' = [judged EXCEPT ![c] = @ \cup {<<mmAt[c], p>>}]
        /\ UNCHANGED <<mmPc, best, accepted>>
    BY DEF MM!TurnDown, MM!Pass
  <1>2. MmTyped /\ MmCall(c)  BY DEF MmInv
  <1>3. MmTyped'  BY <1>1, <1>2 DEF MmTyped
  <1>4. ASSUME NEW d \in MatchCalls, d # c  PROVE MmSame(d)
    BY <1>1, <1>2, <1>4 DEF MmTyped, MmSame
  <1>5. /\ MmNames(c)' = MmNames(c) /\ MM!Wanted(c)' = MM!Wanted(c)
        /\ mmLeft'[c] = mmLeft[c] \ {p} /\ judged'[c] = judged[c] \cup {<<mmAt[c], p>>}
    BY <1>1, <1>2 DEF MmTyped, MmNames, MM!Wanted, MM!Query
  <1>6. MmHeard(c)'  BY <1>1, <1>2, <1>5 DEF MmCall, MmHeard
  <1>7. \A n : MmWorth(c, n)' = MmWorth(c, n)  BY <1>1, <1>5 DEF MmWorth
  <1>8. MmTurnedDown(c)'
    <2>1. MmTurnedDown(c) /\ MmUnderway(c)  BY <1>2 DEF MmCall, MmUnderway
    <2> QED  BY <1>1, <1>5, <1>7, <2>1 DEF MmTurnedDown
  <1>9. MmBest(c)'
    <2>1. MmBest(c) /\ MmUnderway(c)  BY <1>2 DEF MmCall, MmUnderway
    <2> QED  BY <1>1, <2>1 DEF MmBest, MmHighest
  <1>10. MmDone(c)'  BY <1>1 DEF MmDone
  <1>11. MmCall(c)'  BY <1>6, <1>8, <1>9, <1>10 DEF MmCall
  <1>12. \A d \in MatchCalls \ {c} : MmCall(d)'  BY <1>4, MmSameKeeps DEF MmInv
  <1> QED  BY <1>3, <1>11, <1>12

\* A hit is chosen: it has the title that is wanted, or no accepted one has more
\* confidence.
LEMMA MmChooses ==
  ASSUME MM!MangaMatchAssumption, MmInv, NEW c \in MatchCalls, mmPc[c] = "judge",
         NEW p \in mmLeft[c], NEW confidence \in Nat, confidence >= 78,
         MM!Chosen(c, hits[c][p], confidence), <<mmEntry[c], hits[c][p]>> \in proofs',
         \/ UNCHANGED mmPc /\ mmLeft' = [mmLeft EXCEPT ![c] = @ \ {p}]
         \/ mmPc' = [mmPc EXCEPT ![c] = "finish"] /\ UNCHANGED mmLeft,
         accepted' \in [MatchCalls -> SUBSET Nat],
         \A d \in MatchCalls \ {c} : accepted'[d] = accepted[d],
         \/ \A k \in accepted'[c] : k <= confidence
         \/ /\ MM!Trusted(hits[c][p], MM!Wanted(c))
            /\ mmPc' = [mmPc EXCEPT ![c] = "finish"],
         UNCHANGED <<mmEntry, mmAt, variant, failedVariant, hits, heard, judged>>,
         silent \subseteq silent', proofs \subseteq proofs'
  PROVE  MmTyped' /\ \A d \in MatchCalls : MmCall(d)'
  <1> DEFINE match == [item |-> hits[c][p], confidence |-> confidence]
  <1>1. best' = [best EXCEPT ![c] = match]  BY DEF MM!Chosen
  <1>2. MmTyped /\ MmCall(c)  BY DEF MmInv
  <1>3. hits[c][p] \in MatchItems /\ mmAt[c] \in DOMAIN heard[c]  BY MmJudging
  <1>4. /\ match \in [item : MatchItems \cup {Absent}, confidence : Nat]
        /\ match.item = hits[c][p] /\ match.confidence = confidence
    BY <1>3
  <1>5. match # MM!NoMatch
    <2>1. MM!NoMatch.confidence = 0  BY DEF MM!NoMatch
    <2> QED  BY <1>4, <2>1
  <1> HIDE DEF match
  <1>6. MmTyped'
    <2>1. best' \in [MatchCalls -> [item : MatchItems \cup {Absent}, confidence : Nat]]
      BY <1>1, <1>2, <1>4 DEF MmTyped
    <2>2. DOMAIN mmPc' = MatchCalls /\ DOMAIN mmLeft' = MatchCalls  BY <1>2 DEF MmTyped
    <2> QED  BY <1>2, <2>1, <2>2 DEF MmTyped
  <1>7. ASSUME NEW d \in MatchCalls, d # c  PROVE MmSame(d)
    BY <1>1, <1>2, <1>7 DEF MmTyped, MmSame
  <1>8. /\ MmNames(c)' = MmNames(c) /\ MM!Wanted(c)' = MM!Wanted(c) /\ best'[c] = match
        /\ mmPc'[c] \in {"judge", "finish"} /\ mmLeft'[c] \subseteq mmLeft[c]
    BY <1>1, <1>2 DEF MmTyped, MmNames, MM!Wanted, MM!Query
  <1>9. MmHeard(c)'  BY <1>2, <1>8 DEF MmCall, MmHeard
  <1>10. MmTurnedDown(c)' /\ MmDone(c)'  BY <1>5, <1>8 DEF MmTurnedDown, MmDone
  <1>11. MmBest(c)'
    <2>1. <<mmEntry'[c], best'[c].item>> \in proofs'  BY <1>4, <1>8
    <2>2. CASE \A k \in accepted'[c] : k <= confidence
      <3>1. MmHighest(c)'  BY <1>4, <1>8, <2>2 DEF MmHighest
      <3> QED  BY <1>5, <1>8, <2>1, <3>1 DEF MmBest
    <2>3. CASE MM!Trusted(hits[c][p], MM!Wanted(c)) /\ mmPc' = [mmPc EXCEPT ![c] = "finish"]
      <3>1. mmPc'[c] = "finish"  BY <1>2, <2>3 DEF MmTyped
      <3>2. MM!Trusted(match.item, MM!Needles(mmEntry[c], MmNames(c)[mmAt[c]]))
        BY <1>4, <2>3 DEF MM!Wanted, MM!Query, MmNames
      <3>3. MmTrusted(c)'  BY <1>3, <1>8, <3>2 DEF MmTrusted
      <3> QED  BY <1>5, <1>8, <2>1, <3>1, <3>3 DEF MmBest, MmUnderway
    <2> QED  BY <2>2, <2>3
  <1>12. MmCall(c)'  BY <1>9, <1>10, <1>11 DEF MmCall
  <1>13. \A d \in MatchCalls \ {c} : MmCall(d)'  BY <1>7, MmSameKeeps DEF MmInv
  <1> QED  BY <1>6, <1>12, <1>13

\* A hit that is accepted is passed over if the best has as much confidence.
LEMMA MmPasses ==
  ASSUME MM!MangaMatchAssumption, MmInv, NEW c \in MatchCalls, mmPc[c] = "judge",
         NEW p \in mmLeft[c], NEW confidence \in Nat, confidence >= 78,
         confidence <= best[c].confidence, MM!Pass(c, p),
         accepted' = [accepted EXCEPT ![c] = @ \cup {confidence}],
         UNCHANGED <<best, mmEntry, mmAt, variant, failedVariant, hits, heard, judged>>,
         silent \subseteq silent', proofs \subseteq proofs'
  PROVE  MmTyped' /\ \A d \in MatchCalls : MmCall(d)'
  <1>1. mmLeft' = [mmLeft EXCEPT ![c] = @ \ {p}] /\ UNCHANGED mmPc  BY DEF MM!Pass
  <1>2. MmTyped /\ MmCall(c)  BY DEF MmInv
  <1>3. accepted' \in [MatchCalls -> SUBSET Nat] /\ accepted'[c] = accepted[c] \cup {confidence}
        /\ \A d \in MatchCalls \ {c} : accepted'[d] = accepted[d]
    BY <1>2 DEF MmTyped
  <1>4. MmTyped'  BY <1>1, <1>2, <1>3 DEF MmTyped
  <1>5. ASSUME NEW d \in MatchCalls, d # c  PROVE MmSame(d)
    BY <1>1, <1>2, <1>3, <1>5 DEF MmTyped, MmSame
  <1>6. /\ MmNames(c)' = MmNames(c) /\ MM!Wanted(c)' = MM!Wanted(c)
        /\ mmLeft'[c] \subseteq mmLeft[c]
    BY <1>1, <1>2 DEF MmTyped, MmNames, MM!Wanted, MM!Query
  <1>7. best[c] # MM!NoMatch
    <2>1. MM!NoMatch.confidence = 0  BY DEF MM!NoMatch
    <2>2. best[c].confidence \in Nat  BY <1>2 DEF MmTyped
    <2> QED  BY <2>1, <2>2
  <1>8. MmHeard(c)'  BY <1>1, <1>2, <1>6 DEF MmCall, MmHeard
  <1>9. MmTurnedDown(c)' /\ MmDone(c)'  BY <1>1, <1>7 DEF MmTurnedDown, MmDone
  <1>10. MmBest(c)'
    <2>1. MmBest(c) /\ MmUnderway(c)  BY <1>2 DEF MmCall, MmUnderway
    <2> QED  BY <1>1, <1>3, <2>1 DEF MmBest, MmHighest
  <1>11. MmCall(c)'  BY <1>8, <1>9, <1>10 DEF MmCall
  <1>12. \A d \in MatchCalls \ {c} : MmCall(d)'  BY <1>5, MmSameKeeps DEF MmInv
  <1> QED  BY <1>4, <1>11, <1>12

LEMMA MmTrustKeeps ==
  ASSUME MM!MangaMatchAssumption, MmInv, NEW c \in MatchCalls, mmPc[c] = "judge",
         NEW p \in mmLeft[c], MM!Trust(c, hits[c][p]),
         UNCHANGED <<searches, matches, mmEntry, mmAt, variant, failedVariant, hits, heard, silent>>
  PROVE  MmInv'
  <1>1. /\ MM!Trusted(hits[c][p], MM!Wanted(c)) /\ MM!Chosen(c, hits[c][p], 100)
        /\ proofs' = proofs \cup {<<mmEntry[c], hits[c][p]>>}
        /\ mmPc' = [mmPc EXCEPT ![c] = "finish"]
        /\ UNCHANGED <<table, mmLeft, judged, accepted>>
    BY DEF MM!Trust, MM!Proven, MM!Goto
  <1>2. accepted' \in [MatchCalls -> SUBSET Nat]
        /\ \A d \in MatchCalls \ {c} : accepted'[d] = accepted[d]
    BY <1>1 DEF MmInv, MmTyped
  <1>3. 100 \in Nat /\ 100 >= 78  OBVIOUS
  <1>4. MmTyped' /\ \A d \in MatchCalls : MmCall(d)'  BY <1>1, <1>2, <1>3, MmChooses
  <1>5. MmKept'  BY <1>1 DEF MmInv, MmKept
  <1> QED  BY <1>4, <1>5 DEF MmInv

LEMMA MmUnresolvedKeeps ==
  ASSUME MM!MangaMatchAssumption, MmInv, NEW c \in MatchCalls, mmPc[c] = "judge",
         NEW p \in mmLeft[c], MM!Unresolved(c, p),
         UNCHANGED <<searches, matches, mmEntry, mmAt, variant, failedVariant, hits, heard, silent>>
  PROVE  MmInv'
  <1>1. MM!TurnDown(c, p) /\ UNCHANGED <<table, proofs>>  BY DEF MM!Unresolved
  <1>2. MmTyped' /\ \A d \in MatchCalls : MmCall(d)'  BY <1>1, MmTurnsDown
  <1>3. MmKept'  BY <1>1, MmKeptStays DEF MmInv
  <1> QED  BY <1>2, <1>3 DEF MmInv

\* Where a verdict comes from, and what is written of it.
LEMMA MmVerdict ==
  ASSUME MM!MangaMatchAssumption, MmInv, NEW j \in MatchItems, NEW needles,
         NEW verdict \in MM!Known(j) \cup MM!Matches(j, needles)
  PROVE  verdict[1] \in MatchEntries /\ verdict[2] \in Nat
  <1>1. CASE verdict \in MM!Known(j)
    <2>1. table[j] # Absent /\ verdict = <<table[j].entry, table[j].confidence>>
      BY <1>1 DEF MM!Known
    <2> QED  BY <2>1 DEF MmInv, MmKept
  <1>2. CASE verdict \in MM!Matches(j, needles)  BY <1>2, MmMatches
  <1> QED  BY <1>1, <1>2

LEMMA MmWrites ==
  ASSUME MmInv, NEW j \in MatchItems, NEW needles, NEW verdict, verdict[1] \in MatchEntries,
         verdict[2] \in Nat, proofs' = proofs \cup {<<verdict[1], j>>},
         UNCHANGED table \/ table' = [table EXCEPT ![j] = MM!Written(j, verdict, needles)],
         UNCHANGED <<searches, matches, silent>>
  PROVE  MmKept'
  <1>1. MmKept  BY DEF MmInv
  <1>2. CASE UNCHANGED table  BY <1>1, <1>2 DEF MmKept
  <1>3. CASE table' = [table EXCEPT ![j] = MM!Written(j, verdict, needles)]
    <2>1. DOMAIN table' = MatchItems  BY <1>1, <1>3 DEF MmKept
    <2>2. ASSUME NEW k \in MatchItems, table'[k] # Absent
          PROVE  /\ table'[k].entry \in MatchEntries /\ table'[k].confidence \in Nat
                 /\ <<table'[k].entry, k>> \in proofs'
      <3>1. CASE k # j \/ MM!Written(j, verdict, needles) = table[j]
        <4>1. table'[k] = table[k]  BY <1>1, <1>3, <3>1 DEF MmKept
        <4> QED  BY <1>1, <2>2, <4>1 DEF MmKept
      <3>2. CASE k = j /\ MM!Written(j, verdict, needles) # table[j]
        <4>1. table'[k] = MM!Written(j, verdict, needles)  BY <1>1, <1>3, <3>2 DEF MmKept
        <4>2. MM!Written(j, verdict, needles) =
                [entry |-> verdict[1],
                 matched |-> MM!BestName(EntryNames[verdict[1]], MM!Queries(j, needles)),
                 confidence |-> verdict[2], current |-> TRUE]
          BY <3>2 DEF MM!Written
        <4>3. table'[k].entry = verdict[1] /\ table'[k].confidence = verdict[2]
          BY <4>1, <4>2
        <4> QED  BY <3>2, <4>3
      <3> QED  BY <3>1, <3>2
    <2> QED  BY <1>1, <2>1, <2>2 DEF MmKept
  <1> QED  BY <1>2, <1>3

LEMMA MmResolvedKeeps ==
  ASSUME MM!MangaMatchAssumption, MmInv, NEW c \in MatchCalls, mmPc[c] = "judge",
         NEW p \in mmLeft[c], MM!Resolved(c, p, hits[c][p]),
         UNCHANGED <<searches, matches, mmEntry, mmAt, variant, failedVariant, hits, heard, silent>>
  PROVE  MmInv'
  <1> DEFINE j == hits[c][p]
  <1>1. j \in MatchItems  BY MmJudging
  <1>2. PICK verdict \in MM!Known(j) \cup MM!Matches(j, MM!Wanted(c)) :
          /\ MM!Proven(verdict[1], j)
          /\ UNCHANGED table \/ table' = [table EXCEPT ![j] = MM!Written(j, verdict, MM!Wanted(c))]
          /\ IF MM!Accepts(c, verdict) THEN MM!Weigh(c, p, verdict[2]) ELSE MM!TurnDown(c, p)
    BY DEF MM!Resolved
  <1>3. proofs' = proofs \cup {<<verdict[1], j>>}  BY <1>2 DEF MM!Proven
  <1> HIDE DEF j
  <1>4. verdict[1] \in MatchEntries /\ verdict[2] \in Nat  BY <1>1, <1>2, MmVerdict
  <1>5. MmKept'  BY <1>1, <1>2, <1>3, <1>4, MmWrites
  <1>6. MmTyped /\ MmCall(c)  BY DEF MmInv
  <1>7. MmTyped' /\ \A d \in MatchCalls : MmCall(d)'
    <2>1. CASE ~MM!Accepts(c, verdict)
      <3>1. MM!TurnDown(c, p)  BY <1>2, <2>1
      <3>2. proofs \subseteq proofs'  BY <1>3
      <3> QED  BY <3>1, <3>2, MmTurnsDown
    <2>2. CASE MM!Accepts(c, verdict)
      <3>1. MM!Weigh(c, p, verdict[2])  BY <1>2, <2>2
      <3>2. verdict[1] = mmEntry[c] /\ verdict[2] >= 78
        BY <2>2 DEF MM!Accepts, MM!Confident
      <3>3. /\ accepted' = [accepted EXCEPT ![c] = @ \cup {verdict[2]}] /\ UNCHANGED judged
        BY <3>1 DEF MM!Weigh
      <3>4. /\ accepted' \in [MatchCalls -> SUBSET Nat]
            /\ accepted'[c] = accepted[c] \cup {verdict[2]}
            /\ \A d \in MatchCalls \ {c} : accepted'[d] = accepted[d]
        BY <1>4, <1>6, <3>3 DEF MmTyped
      <3>5. best[c].confidence \in Nat  BY <1>6 DEF MmTyped
      <3>6. \A k \in accepted[c] : k <= best[c].confidence /\ k \in Nat
        BY <1>6 DEF MmCall, MmBest, MmHighest, MmUnderway, MmTyped
      <3>7. proofs \subseteq proofs'  BY <1>3
      <3>8. CASE MM!Prefer(hits[c][p], verdict[2], best[c], MM!Wanted(c))
        <4>1. MM!Chosen(c, hits[c][p], verdict[2])
              /\ (\/ mmPc' = [mmPc EXCEPT ![c] = "finish"] /\ UNCHANGED mmLeft
                  \/ mmLeft' = [mmLeft EXCEPT ![c] = @ \ {p}] /\ UNCHANGED mmPc)
          BY <3>1, <3>8 DEF MM!Weigh, MM!Pass, MM!Goto
        <4>2. verdict[2] > best[c].confidence \/ verdict[2] = best[c].confidence
          BY <3>8 DEF MM!Prefer
        <4>3. \A k \in accepted'[c] : k <= verdict[2]
          BY <1>4, <3>4, <3>5, <3>6, <4>2
        <4>4. <<mmEntry[c], hits[c][p]>> \in proofs'  BY <1>3, <3>2 DEF j
        <4> QED  BY <1>4, <3>2, <3>3, <3>4, <3>7, <4>1, <4>3, <4>4, MmChooses
      <3>9. CASE ~MM!Prefer(hits[c][p], verdict[2], best[c], MM!Wanted(c))
        <4>1. MM!Pass(c, p) /\ UNCHANGED best  BY <3>1, <3>9 DEF MM!Weigh
        <4>2. ~(verdict[2] > best[c].confidence)  BY <3>9 DEF MM!Prefer
        <4>3. verdict[2] <= best[c].confidence  BY <1>4, <3>5, <4>2
        <4> QED  BY <1>4, <3>2, <3>3, <3>7, <4>1, <4>3, MmPasses
      <3> QED  BY <3>8, <3>9
    <2> QED  BY <2>1, <2>2
  <1> QED  BY <1>5, <1>7 DEF MmInv

LEMMA MmJudgeKeeps ==
  ASSUME MM!MangaMatchAssumption, MmInv, NEW c \in MatchCalls, MM!Judge(c)
  PROVE  MmInv'
  <1>1. /\ mmPc[c] = "judge"
        /\ UNCHANGED <<searches, matches, mmEntry, mmAt, variant, failedVariant, hits, heard,
                       silent>>
    BY DEF MM!Judge
  <1>2. PICK p \in mmLeft[c] :
          \/ MM!Trust(c, hits[c][p]) \/ MM!Unresolved(c, p) \/ MM!Resolved(c, p, hits[c][p])
    BY DEF MM!Judge
  <1>3. CASE MM!Trust(c, hits[c][p])  BY <1>1, <1>3, MmTrustKeeps
  <1>4. CASE MM!Unresolved(c, p)  BY <1>1, <1>4, MmUnresolvedKeeps
  <1>5. CASE MM!Resolved(c, p, hits[c][p])  BY <1>1, <1>5, MmResolvedKeeps
  <1> QED  BY <1>2, <1>3, <1>4, <1>5

LEMMA MmNextNameKeeps ==
  ASSUME MM!MangaMatchAssumption, MmInv, NEW c \in MatchCalls, MM!NextName(c)
  PROVE  MmInv'
  <1>1. /\ mmPc[c] = "judge" /\ mmLeft[c] = {} /\ mmAt' = [mmAt EXCEPT ![c] = @ + 1]
        /\ mmPc' = [mmPc EXCEPT ![c] = "look"]
        /\ UNCHANGED <<table, searches, matches, mmEntry, variant, failedVariant, hits, mmLeft,
                       best, heard, judged, accepted, silent, proofs>>
    BY DEF MM!NextName, MM!Goto
  <1>2. MmTyped /\ MmKept /\ MmCall(c)  BY DEF MmInv
  <1>3. MmKept'  BY <1>1, <1>2, MmKeptStays
  <1>4. MmTyped'
    <2>1. mmAt' \in [MatchCalls -> Nat \ {0}]  BY <1>1, <1>2 DEF MmTyped
    <2> QED  BY <1>1, <1>2, <2>1 DEF MmTyped
  <1>5. ASSUME NEW d \in MatchCalls, d # c  PROVE MmSame(d)
    BY <1>1, <1>2, <1>5 DEF MmTyped, MmSame
  <1>6. MmNames(c)' = MmNames(c) /\ mmPc'[c] = "look" /\ mmAt'[c] = mmAt[c] + 1
    BY <1>1, <1>2 DEF MmTyped, MmNames
  <1>7. MmHeard(c)'
    <2>1. Len(heard[c]) = mmAt[c] /\ mmAt[c] \in DOMAIN MmNames(c)
      BY <1>1, <1>2 DEF MmCall, MmHeard
    <2>2. mmAt[c] <= Len(MmNames(c)) /\ mmAt[c] \in Nat  BY <1>2, <2>1, MmNamed
    <2>3. mmAt'[c] - 1 = mmAt[c]  BY <1>6, <2>2
    <2> QED  BY <1>1, <1>6, <2>1, <2>2, <2>3 DEF MmHeard
  <1>8. \A n : MmWorth(c, n)' = MmWorth(c, n)  BY <1>1, <1>6 DEF MmWorth
  <1>9. MmTurnedDown(c)'
    BY <1>1, <1>2, <1>6, <1>8 DEF MmCall, MmTurnedDown, MmUnderway
  <1>10. MmBest(c)' /\ MmDone(c)'
    BY <1>1, <1>2, <1>6 DEF MmCall, MmBest, MmHighest, MmUnderway, MmDone
  <1>11. MmCall(c)'  BY <1>7, <1>9, <1>10 DEF MmCall
  <1>12. \A d \in MatchCalls \ {c} : MmCall(d)'  BY <1>1, <1>5, MmSameKeeps DEF MmInv
  <1> QED  BY <1>3, <1>4, <1>11, <1>12 DEF MmInv

LEMMA MmFinishKeeps ==
  ASSUME MM!MangaMatchAssumption, MmInv, NEW c \in MatchCalls, MM!Finish(c)
  PROVE  MmInv'
  <1> DEFINE status == IF best[c] = MM!NoMatch THEN "not_found" ELSE "ready"
  <1>1. /\ mmPc[c] = "finish" \/ (mmPc[c] = "look" /\ mmAt[c] > Len(MmNames(c)))
        /\ MM!Keep(c, status, best[c].item) /\ mmPc' = [mmPc EXCEPT ![c] = "done"]
        /\ UNCHANGED <<table, searches, mmEntry, mmAt, variant, failedVariant, hits, mmLeft,
                       best, heard, judged, accepted, silent, proofs>>
    <2>1. mmPc[c] = "finish" \/ (mmPc[c] = "look" /\ mmAt[c] > Len(MmNames(c)))
      BY DEF MM!Finish, MmNames
    <2>2. MM!Keep(c, status, best[c].item) /\ mmPc' = [mmPc EXCEPT ![c] = "done"]
      BY DEF MM!Finish, MM!Goto
    <2>3. UNCHANGED <<table, searches, mmEntry, silent, proofs>> /\ UNCHANGED MM!searching
      BY DEF MM!Finish
    <2> HIDE DEF status
    <2> QED  BY <2>1, <2>2, <2>3 DEF MM!searching
  <1>2. MmTyped /\ MmKept /\ MmCall(c)  BY DEF MmInv
  <1>3. MmKept'
    <2>1. status = "ready" => <<mmEntry[c], best[c].item>> \in proofs
      BY <1>2 DEF MmCall, MmBest
    <2> HIDE DEF status
    <2> QED  BY <1>1, <2>1, MmKeepsMatch
  <1>4. MmTyped'  BY <1>1, <1>2 DEF MmTyped
  <1>5. ASSUME NEW d \in MatchCalls, d # c  PROVE MmSame(d)
    BY <1>1, <1>2, <1>5 DEF MmTyped, MmSame
  <1>6. MmNames(c)' = MmNames(c) /\ mmPc'[c] = "done"
    BY <1>1, <1>2 DEF MmTyped, MmNames
  <1>7. MmHeard(c)' /\ MmTurnedDown(c)'  BY <1>6 DEF MmHeard, MmTurnedDown, MmUnderway
  <1>8. \A n : MmWorth(c, n)' = MmWorth(c, n)  BY <1>1, <1>6 DEF MmWorth
  <1>9. MmBest(c)'
    <2>1. MmBest(c) /\ (MmHighest(c) \/ MmTrusted(c))
      BY <1>1, <1>2 DEF MmCall, MmBest, MmUnderway
    <2>2. (MmHighest(c)' <=> MmHighest(c)) /\ (MmTrusted(c)' <=> MmTrusted(c))
      BY <1>1, <1>6 DEF MmHighest, MmTrusted
    <2> QED  BY <1>1, <1>6, <2>1, <2>2 DEF MmBest, MmUnderway
  <1>10. MmDone(c)'
    <2> SUFFICES ASSUME best[c] = MM!NoMatch  PROVE MmDone(c)'
      BY <1>1 DEF MmDone
    <2>1. mmPc[c] = "look" /\ mmAt[c] > Len(MmNames(c))
      BY <1>1, <1>2 DEF MmCall, MmBest
    <2>2. Len(heard[c]) = mmAt[c] - 1 /\ mmAt[c] - 1 <= Len(MmNames(c))
      BY <1>2, <2>1 DEF MmCall, MmHeard
    <2>3. Len(heard[c]) = Len(MmNames(c))  BY <1>2, <2>1, <2>2, MmNamed
    <2>4. MmTurnedDown(c) /\ MmUnderway(c)  BY <1>2, <2>1 DEF MmCall, MmUnderway
    <2> QED  BY <1>1, <1>6, <1>8, <2>1, <2>3, <2>4 DEF MmTurnedDown, MmDone
  <1>11. MmCall(c)'  BY <1>7, <1>9, <1>10 DEF MmCall
  <1>12. \A d \in MatchCalls \ {c} : MmCall(d)'  BY <1>1, <1>5, MmSameKeeps DEF MmInv
  <1> QED  BY <1>3, <1>4, <1>11, <1>12 DEF MmInv

LEMMA MmSilentKeeps ==
  ASSUME MM!MangaMatchAssumption, MmInv, MM!Forget \/ UNCHANGED MM!vars
  PROVE  MmInv'
  <1>1. UNCHANGED <<table, mmPc, mmEntry, mmAt, variant, failedVariant, hits, mmLeft, best,
                    heard, judged, accepted, silent, proofs>>
    BY DEF MM!Forget, MM!vars, MM!searching
  <1>2. MmTyped /\ MmKept  BY DEF MmInv
  <1>3. MmTyped'  BY <1>1, <1>2 DEF MmTyped
  <1>4. \A d \in MatchCalls : MmSame(d)  BY <1>1 DEF MmSame
  <1>5. \A d \in MatchCalls : MmCall(d)'  BY <1>1, <1>4, MmSameKeeps DEF MmInv
  <1>6. MmKept'
    <2>1. CASE UNCHANGED <<searches, matches>>  BY <1>1, <1>2, <2>1, MmKeptStays
    <2>2. CASE \E q \in TitleForms : searches' = [searches EXCEPT ![q] = Absent]
                 /\ UNCHANGED matches
      <3>1. Absent # <<>>  BY EmptySeq DEF MM!MangaMatchAssumption
      <3>2. searches' \in [TitleForms -> Seq(MatchItems) \cup {Absent}]
        BY <1>2, <2>2 DEF MmKept
      <3>3. \A q \in TitleForms : searches'[q] = <<>> => searches[q] = <<>>
        BY <1>2, <2>2, <3>1 DEF MmKept
      <3> QED  BY <1>1, <1>2, <2>2, <3>2, <3>3 DEF MmKept
    <2>3. CASE \E e \in MatchEntries : matches' = [matches EXCEPT ![e] = Absent]
                 /\ UNCHANGED searches
      BY <1>1, <1>2, <2>3 DEF MmKept
    <2> QED  BY <2>1, <2>2, <2>3 DEF MM!Forget, MM!vars
  <1> QED  BY <1>3, <1>5, <1>6 DEF MmInv

LEMMA MmInvInit == MM!MangaMatchAssumption /\ MM!Init => MmInv
  <1> SUFFICES ASSUME MM!MangaMatchAssumption, MM!Init  PROVE MmInv
    OBVIOUS
  <1>1. <<>> \in Seq(Seq(MatchItems) \cup {MM!Lost}) /\ <<>> \in Seq(MatchItems)
        /\ Len(<<>>) = 0
    OBVIOUS
  <1>2. MmTyped
    <2>1. MM!NoMatch \in [item : MatchItems \cup {Absent}, confidence : Nat]  BY DEF MM!NoMatch
    <2>2. /\ mmEntry \in [MatchCalls -> MatchEntries]
          /\ mmAt \in [MatchCalls -> Nat \ {0}] /\ variant \in [MatchCalls -> Nat \ {0}]
      BY DEF MM!Init
    <2>3. /\ hits \in [MatchCalls -> Seq(MatchItems)]
          /\ heard \in [MatchCalls -> Seq(Seq(MatchItems) \cup {MM!Lost})]
      BY <1>1 DEF MM!Init
    <2>4. /\ accepted \in [MatchCalls -> SUBSET Nat]
          /\ best \in [MatchCalls -> [item : MatchItems \cup {Absent}, confidence : Nat]]
      BY <2>1 DEF MM!Init
    <2>5. /\ DOMAIN mmPc = MatchCalls /\ DOMAIN failedVariant = MatchCalls
          /\ DOMAIN mmLeft = MatchCalls /\ DOMAIN judged = MatchCalls
      BY DEF MM!Init
    <2> QED  BY <2>2, <2>3, <2>4, <2>5 DEF MmTyped
  <1>3. MmKept
    <2>1. table \in [MatchItems -> MM!Rows \cup {Absent}]
      BY DEF MM!Init, MM!MangaMatchAssumption
    <2>2. \A r \in MM!Rows : r.entry \in MatchEntries /\ r.confidence \in Nat  BY DEF MM!Rows
    <2>3. proofs = {q \in MatchEntries \X MatchItems :
                      table[q[2]] # Absent /\ table[q[2]].entry = q[1]}
      BY DEF MM!Init
    <2>4. ASSUME NEW j \in MatchItems, table[j] # Absent
          PROVE  /\ table[j].entry \in MatchEntries /\ table[j].confidence \in Nat
                 /\ <<table[j].entry, j>> \in proofs
      <3>1. table[j] \in MM!Rows  BY <2>1, <2>4
      <3>2. table[j].entry \in MatchEntries /\ table[j].confidence \in Nat  BY <2>2, <3>1
      <3> QED  BY <2>3, <2>4, <3>2
    <2>5. DOMAIN table = MatchItems  BY <2>1
    <2>6. /\ searches = [q \in TitleForms |-> Absent] /\ matches = [e \in MatchEntries |-> Absent]
          /\ Absent # <<>>
      BY <1>1 DEF MM!Init, MM!MangaMatchAssumption
    <2> QED  BY <2>4, <2>5, <2>6 DEF MmKept
  <1>4. ASSUME NEW c \in MatchCalls  PROVE MmCall(c)
    <2>1. mmPc[c] = "idle" /\ best[c] = MM!NoMatch  BY DEF MM!Init
    <2> QED
      BY <2>1 DEF MmCall, MmHeard, MmTurnedDown, MmUnderway, MmBest, MmDone
  <1> QED  BY <1>2, <1>3, <1>4 DEF MmInv

LEMMA MmInvNext == MM!MangaMatchAssumption /\ MmInv /\ [MM!Next]_(MM!vars) => MmInv'
  <1> SUFFICES ASSUME MM!MangaMatchAssumption, MmInv, [MM!Next]_(MM!vars)  PROVE MmInv'
    OBVIOUS
  <1>1. CASE MM!Forget \/ UNCHANGED MM!vars  BY <1>1, MmSilentKeeps
  <1>2. ASSUME NEW c \in MatchCalls,
               \/ \E e \in MatchEntries : MM!Ask(c, e)
               \/ MM!ReadTable(c) \/ MM!ReadFails(c) \/ MM!LoadMeta(c) \/ MM!Look(c)
               \/ MM!TryVariant(c) \/ MM!Answered(c) \/ MM!Broken(c) \/ MM!EndVariants(c)
               \/ MM!Judge(c) \/ MM!NextName(c) \/ MM!Finish(c)
        PROVE  MmInv'
    BY <1>2, MmAskKeeps, MmReadKeeps, MmMetaKeeps, MmLookKeeps, MmTryKeeps, MmAnsweredKeeps,
       MmBrokenKeeps, MmEndKeeps, MmJudgeKeeps, MmNextNameKeeps, MmFinishKeeps
  <1> QED  BY <1>1, <1>2 DEF MM!Next

LEMMA MmFinds ==
  MM!MangaMatchAssumption =>
    (MM!Spec => []MM!NothingIsLeftUntried /\ []MM!BestMatchIsKept)
  <1> SUFFICES ASSUME MM!MangaMatchAssumption
        PROVE MM!Spec => []MM!NothingIsLeftUntried /\ []MM!BestMatchIsKept
    OBVIOUS
  <1>1. MmInv => MM!NothingIsLeftUntried
    BY DEF MmInv, MmKept, MmCall, MmDone, MmWorth, MmNames, MM!NothingIsLeftUntried
  <1>2. MmInv => MM!BestMatchIsKept
    <2> SUFFICES ASSUME MmInv  PROVE MM!BestMatchIsKept
      OBVIOUS
    <2>1. ASSUME NEW c \in MatchCalls, mmPc[c] = "done"  PROVE MmHighest(c) \/ MmTrusted(c)
      BY <2>1 DEF MmInv, MmCall, MmBest
    <2> QED  BY <2>1 DEF MmInv, MmKept, MmHighest, MmTrusted, MmNames, MM!BestMatchIsKept
  <1> QED  BY <1>1, <1>2, MmInvInit, MmInvNext, PTL DEF MM!Spec

----------------------------------------------------------------------------
(* MetadataReads: what is chosen among the items of a list. *)
LEMMA MrSize == \A S : MR!Cardinality(S) = Cardinality(S)
  BY DEF MR!Cardinality, Cardinality

LEMMA MrLeast ==
  ASSUME NEW S \in SUBSET Nat, S # {}
  PROVE  \E m \in S : \A n \in S : m <= n
  <1> DEFINE Less == {p \in Nat \X Nat : p[1] < p[2]}
  <1>1. IsWellFoundedOn(Less, Nat)  BY NatLessThanWellFounded, Zenon DEF OpToRel
  <1> HIDE DEF Less
  <1>2. PICK m \in S : \A n \in S : ~ (<<n, m>> \in Less)  BY <1>1, WFMin, Zenon
  <1>3. \A n, k \in Nat : n < k => <<n, k>> \in Less  BY DEF Less
  <1>4. \A n \in S : n \in Nat /\ m \in Nat /\ ~ (n < m)  BY <1>2, <1>3
  <1> QED  BY <1>4

\* What is listed is finite.
LEMMA MrFinite ==
  ASSUME NEW s \in Seq(Media)
  PROVE  /\ IsFiniteSet(DOMAIN s) /\ IsFiniteSet(MR!Union(s))
         /\ MR!Union(s) \subseteq Media /\ MR!Listed(s) \subseteq Media
  <1> DEFINE f == [i \in DOMAIN s |-> s[i]]
  <1>1. DOMAIN s = 1 .. Len(s) /\ Len(s) \in Nat /\ \A i \in DOMAIN s : s[i] \in Media
    OBVIOUS
  <1>2. IsFiniteSet(DOMAIN s)  BY <1>1, FS_Interval
  <1>3. f \in Surjection(DOMAIN s, MR!Listed(s))  BY DEF Surjection, MR!Listed
  <1>4. IsFiniteSet(MR!Listed(s))  BY <1>2, <1>3, FS_Surjection
  <1>5. MR!Union(s) \in SUBSET MR!Listed(s)  BY DEF MR!Union
  <1>6. MR!Listed(s) \subseteq Media  BY <1>1 DEF MR!Listed
  <1> QED  BY <1>2, <1>4, <1>5, <1>6, FS_Subset

\* Those ahead of an item are fewer than those ahead of a later one.
LEMMA MrAhead ==
  ASSUME MR!MetadataReadsAssumption, NEW s \in Seq(Media),
         NEW x \in MR!Union(s), NEW y \in MR!Union(s), MediaRank[x] < MediaRank[y]
  PROVE  Cardinality(MR!Ahead(s, x)) < Cardinality(MR!Ahead(s, y))
  <1>1. /\ IsFiniteSet(MR!Union(s)) /\ MR!Union(s) \subseteq Media
        /\ \A z \in Media : MediaRank[z] \in Nat
    BY MrFinite DEF MR!MetadataReadsAssumption
  <1>2. MR!Ahead(s, x) \in SUBSET MR!Ahead(s, y)
    BY <1>1 DEF MR!Ahead
  <1>3. x \in MR!Ahead(s, y) /\ x \notin MR!Ahead(s, x)
    BY <1>1 DEF MR!Ahead
  <1>4. MR!Ahead(s, y) \in SUBSET MR!Union(s)  BY DEF MR!Ahead
  <1>5. IsFiniteSet(MR!Ahead(s, y))  BY <1>1, <1>4, FS_Subset
  <1>6. /\ IsFiniteSet(MR!Ahead(s, x))
        /\ Cardinality(MR!Ahead(s, x)) <= Cardinality(MR!Ahead(s, y))
        /\ Cardinality(MR!Ahead(s, x)) # Cardinality(MR!Ahead(s, y))
    BY <1>2, <1>3, <1>5, FS_Subset
  <1>7. Cardinality(MR!Ahead(s, x)) \in Nat /\ Cardinality(MR!Ahead(s, y)) \in Nat
    BY <1>5, <1>6, FS_CardinalityType
  <1> QED  BY <1>6, <1>7

\* A page holds the first of what is listed, and no more than it may.
LEMMA MrBest ==
  ASSUME MR!MetadataReadsAssumption, NEW s \in Seq(Media)
  PROVE  /\ MR!BestOf(s) \subseteq MR!Union(s) /\ Cardinality(MR!BestOf(s)) <= PerPage
         /\ \A x \in MR!BestOf(s), y \in MR!Union(s) \ MR!BestOf(s) :
              MediaRank[x] < MediaRank[y]
  <1> DEFINE before == [x \in MR!BestOf(s) |-> Cardinality(MR!Ahead(s, x))]
  <1>1. MR!BestOf(s) = {x \in MR!Union(s) : Cardinality(MR!Ahead(s, x)) < PerPage}
    BY MrSize DEF MR!BestOf
  <1>2. /\ PerPage \in Nat \ {0} /\ \A x \in Media : MediaRank[x] \in Nat
        /\ \A x, y \in Media : MediaRank[x] = MediaRank[y] => x = y
    BY DEF MR!MetadataReadsAssumption
  <1>3. /\ IsFiniteSet(MR!Union(s)) /\ MR!Union(s) \subseteq Media
        /\ \A x \in MR!Union(s) : Cardinality(MR!Ahead(s, x)) \in Nat
    <2>1. IsFiniteSet(MR!Union(s)) /\ MR!Union(s) \subseteq Media  BY MrFinite
    <2>2. ASSUME NEW x \in MR!Union(s)  PROVE Cardinality(MR!Ahead(s, x)) \in Nat
      <3>1. MR!Ahead(s, x) \in SUBSET MR!Union(s)  BY DEF MR!Ahead
      <3> QED  BY <2>1, <3>1, FS_Subset, FS_CardinalityType
    <2> QED  BY <2>1, <2>2
  <1>4. \A x, y \in MR!Union(s) :
          MediaRank[x] < MediaRank[y] => Cardinality(MR!Ahead(s, x)) < Cardinality(MR!Ahead(s, y))
    BY MrAhead
  <1>5. \A x, y \in MR!Union(s) : Cardinality(MR!Ahead(s, x)) = Cardinality(MR!Ahead(s, y)) => x = y
    <2> SUFFICES ASSUME NEW x \in MR!Union(s), NEW y \in MR!Union(s), x # y
          PROVE Cardinality(MR!Ahead(s, x)) # Cardinality(MR!Ahead(s, y))
      OBVIOUS
    <2>1. MediaRank[x] < MediaRank[y] \/ MediaRank[y] < MediaRank[x]  BY <1>2, <1>3
    <2> QED  BY <2>1, <1>3, <1>4
  <1>6. before \in Injection(MR!BestOf(s), 0 .. (PerPage - 1))
    <2>1. \A x \in MR!BestOf(s) : before[x] \in 0 .. (PerPage - 1)  BY <1>1, <1>2, <1>3
    <2> QED  BY <2>1, <1>1, <1>5 DEF Injection, IsInjective
  <1>7. IsFiniteSet(0 .. (PerPage - 1)) /\ Cardinality(0 .. (PerPage - 1)) = PerPage
    BY <1>2, FS_Interval
  <1>8. Cardinality(MR!BestOf(s)) <= PerPage  BY <1>6, <1>7, FS_Injection
  <1>9. ASSUME NEW x \in MR!BestOf(s), NEW y \in MR!Union(s) \ MR!BestOf(s)
        PROVE  MediaRank[x] < MediaRank[y]
    <2>1. x # y /\ x \in MR!Union(s) /\ Cardinality(MR!Ahead(s, x)) < PerPage
          /\ ~(Cardinality(MR!Ahead(s, y)) < PerPage)
      BY <1>1
    <2>2. MediaRank[x] < MediaRank[y] \/ MediaRank[y] < MediaRank[x]  BY <1>2, <1>3, <2>1
    <2> QED  BY <2>1, <2>2, <1>2, <1>3, <1>4
  <1> QED  BY <1>1, <1>8, <1>9

\* There is a best of what is listed, if anything is.
LEMMA MrSomeBest ==
  ASSUME MR!MetadataReadsAssumption, NEW s \in Seq(Media), DOMAIN s # {}
  PROVE  \E i \in DOMAIN s : MR!IsBest(s, i)
  <1> DEFINE over(j, i) == MediaGrade[s[j]] > MediaGrade[s[i]] \/ (MediaGrade[s[j]] = MediaGrade[s[i]] /\ j < i)
             overs(i) == {j \in DOMAIN s : over(j, i)}
             counts == {Cardinality(overs(i)) : i \in DOMAIN s}
  <1>1. /\ DOMAIN s \subseteq Nat /\ IsFiniteSet(DOMAIN s)
        /\ \A i \in DOMAIN s : s[i] \in Media
    BY MrFinite
  <1>2. \A i \in DOMAIN s : MediaGrade[s[i]] \in Int
    BY <1>1 DEF MR!MetadataReadsAssumption
  <1>3. \A i \in DOMAIN s : IsFiniteSet(overs(i)) /\ Cardinality(overs(i)) \in Nat
    <2> TAKE i \in DOMAIN s
    <2>1. overs(i) \in SUBSET DOMAIN s  OBVIOUS
    <2> QED  BY <2>1, <1>1, FS_Subset, FS_CardinalityType
  <1>4. counts \in SUBSET Nat /\ counts # {}  BY <1>3
  <1>5. PICK m \in counts : \A n \in counts : m <= n  BY <1>4, MrLeast
  <1>6. PICK i \in DOMAIN s : m = Cardinality(overs(i))  BY <1>5
  <1>7. ASSUME NEW j \in overs(i)  PROVE FALSE
    <2>1. j \in DOMAIN s /\ over(j, i)  OBVIOUS
    <2>2. overs(j) \in SUBSET overs(i) /\ j \notin overs(j)
      BY <2>1, <1>1, <1>2
    <2>3. /\ Cardinality(overs(j)) <= Cardinality(overs(i))
          /\ Cardinality(overs(j)) # Cardinality(overs(i))
      BY <2>2, <1>3, FS_Subset
    <2>4. Cardinality(overs(i)) <= Cardinality(overs(j))  BY <2>1, <1>5, <1>6
    <2>5. Cardinality(overs(i)) \in Nat /\ Cardinality(overs(j)) \in Nat  BY <2>1, <1>3
    <2> HIDE DEF overs
    <2> QED  BY <2>3, <2>4, <2>5
  <1>8. MR!IsBest(s, i)
    <2> SUFFICES ASSUME NEW j \in DOMAIN s
          PROVE /\ MediaGrade[s[j]] <= MediaGrade[s[i]]
                /\ j < i => MediaGrade[s[j]] < MediaGrade[s[i]]
      BY DEF MR!IsBest
    <2>1. ~over(j, i)  BY <1>7
    <2> QED  BY <2>1, <1>2
  <1> QED  BY <1>8

\* What is chosen for a folder; and when there is nothing to choose, nothing fits.
LEMMA MrChosen ==
  ASSUME MR!MetadataReadsAssumption, NEW s \in Seq(Media)
  PROVE  /\ \A x \in MR!Chosen(s) : /\ x \in MR!Listed(s) /\ MR!Fits(x)
                                    /\ \A y \in MR!Listed(s) : MediaGrade[y] <= MediaGrade[x]
         /\ MR!Chosen(s) = {} => \A x \in MR!Listed(s) : MediaGrade[x] < 55
  <1>1. \A i \in DOMAIN s : s[i] \in Media /\ MediaGrade[s[i]] \in Int
    BY DEF MR!MetadataReadsAssumption
  <1>2. \A x \in MR!Chosen(s) : /\ x \in MR!Listed(s) /\ MR!Fits(x)
                                /\ \A y \in MR!Listed(s) : MediaGrade[y] <= MediaGrade[x]
    BY DEF MR!Chosen, MR!Listed, MR!IsBest
  <1>3. ASSUME MR!Chosen(s) = {}, NEW x \in MR!Listed(s)  PROVE MediaGrade[x] < 55
    <2>1. PICK k \in DOMAIN s : x = s[k]  BY DEF MR!Listed
    <2>2. PICK i \in DOMAIN s : MR!IsBest(s, i)  BY <2>1, MrSomeBest
    <2>3. ~MR!Fits(s[i])  BY <1>3, <2>2 DEF MR!Chosen
    <2>4. MediaGrade[s[i]] < 55  BY <2>3, <1>1 DEF MR!Fits
    <2>5. MediaGrade[x] <= MediaGrade[s[i]]  BY <2>1, <2>2 DEF MR!IsBest
    <2> QED  BY <2>1, <2>4, <2>5, <1>1
  <1> QED  BY <1>2, <1>3

\* No character is left out before a main one, unless all that are shown are main.
LEMMA MrMainFirst ==
  ASSUME NEW cast \in Seq([who : People, main : BOOLEAN]), CastLimit \in Nat,
         NEW p \in MR!Firsts(cast) \ MR!Limited(cast), cast[p].main,
         NEW q \in MR!Limited(cast)
  PROVE  cast[q].main
  <1> SUFFICES ASSUME ~cast[q].main  PROVE FALSE
    OBVIOUS
  <1> DEFINE before(k) == {r \in MR!Firsts(cast) : MR!Sooner(cast, r, k)}
  <1>1. DOMAIN cast = 1 .. Len(cast) /\ Len(cast) \in Nat
    OBVIOUS
  <1>2. IsFiniteSet(MR!Firsts(cast))
    <2>1. MR!Firsts(cast) \in SUBSET (1 .. Len(cast))  BY <1>1 DEF MR!Firsts
    <2>2. IsFiniteSet(1 .. Len(cast))  BY <1>1, FS_Interval
    <2> QED  BY <2>1, <2>2, FS_Subset
  <1>3. MR!Limited(cast) = {k \in MR!Firsts(cast) : Cardinality(before(k)) < CastLimit}
    BY MrSize DEF MR!Limited
  <1>4. before(p) \in SUBSET before(q)  BY DEF MR!Sooner
  <1>5. before(q) \in SUBSET MR!Firsts(cast)  OBVIOUS
  <1>6. IsFiniteSet(before(q))  BY <1>2, <1>5, FS_Subset
  <1>7. /\ Cardinality(before(p)) <= Cardinality(before(q))
        /\ Cardinality(before(p)) \in Nat /\ Cardinality(before(q)) \in Nat
    BY <1>4, <1>6, FS_Subset, FS_CardinalityType
  <1>8. Cardinality(before(q)) < CastLimit /\ ~(Cardinality(before(p)) < CastLimit)
    BY <1>3
  <1> HIDE DEF before
  <1> QED  BY <1>7, <1>8

----------------------------------------------------------------------------
(* MetadataReads: a read, step by step. *)
MrSaid == [says : SUBSET Fields, cast : Casts]
MrAdds == [says : SUBSET Fields, cast : Casts \cup {<<>>}]
MrFills == IF reader = "anime" THEN AnimeFills ELSE MangaFills

MrTyped ==
  /\ reader \in MR!Readers /\ mrWish \in Labellings /\ when \in Quarters
  /\ listed \in Seq(Media) /\ more \in BOOLEAN
  /\ mrLeft \subseteq MR!Requests /\ DOMAIN replies = MR!Requests \ mrLeft
  /\ \A i \in DOMAIN replies : replies[i] \in MediaPages
  /\ MR!Listed(listed) = MR!Offered
  /\ ~more => \A i \in DOMAIN replies : ~replies[i].more
MrPlaces ==
  /\ reader \in {"search", "home"} => mrPc \in {"begin", "anilist", "jikan", "done", "failed"}
  /\ reader = "anime" =>
       mrPc \in {"begin", "full", "characters", "recommendations", "done", "failed"}
  /\ reader = "manga" => mrPc \in {"begin", "full", "characters", "done", "failed"}
  /\ reader \in {"anime page", "manga page", "match"} => mrPc \in {"begin", "done", "failed"}
MrHeard ==
  \/ lost \cap {"jikan", "unreadable"} # {}
  \/ "anilist" \in lost /\ "degraded" \notin lost
MrHome ==
  /\ reader \in {"search", "home"} =>
       /\ mrPc \in {"begin", "anilist"} => lost = {}
       /\ mrPc = "failed" => MrHeard
  /\ reader = "home" /\ mrPc = "done" =>
       \/ mrAnswer = [s \in MR!Sections |-> MR!Shelf("anilist", s, when)]
       \/ /\ mrAnswer = [s \in MR!Sections |-> MR!Shelf("jikan", s, MR!Normalized(when))]
          /\ fetched = MR!Requested
MrEntry ==
  reader \in {"anime", "manga"} =>
    /\ mrPc = "begin" => base = Absent /\ lost = {} /\ extra = MR!Unsaid
    /\ mrPc = "failed" => base = Absent
    /\ mrPc \in {"full", "characters", "recommendations"} =>
         base \in MrSaid /\ lost = {} /\ extra \in MrAdds
    /\ mrPc = "done" =>
         /\ base \in MrSaid /\ extra \in MrAdds
         /\ \/ /\ mrAnswer = MR!Entry(base, "anilist")
               /\ "jikan" \in lost \/ extra = MR!Unsaid
            \/ "jikan" \notin lost /\ mrAnswer = MR!Merged(base, extra, MrFills)
MrPages ==
  /\ reader \in {"anime page", "manga page", "match"} /\ mrPc = "done" => mrLeft = {}
  /\ reader \in {"anime page", "manga page"} /\ mrPc = "done"
       /\ Cardinality(MR!Requests) > 1 => mrAnswer = MR!Page(listed, more)
  /\ reader = "match" /\ mrPc = "begin" /\ mrLeft = {} => MR!Requests = {}
  /\ reader = "match" /\ mrPc = "done" =>
       IF mrAnswer = Absent THEN \A x \in MR!Listed(listed) : MediaGrade[x] < 55
       ELSE mrAnswer \in MR!Chosen(listed)
MrInv == MrTyped /\ MrPlaces /\ MrHome /\ MrEntry /\ MrPages

LEMMA MrInvInit == MR!MetadataReadsAssumption /\ MR!Init => MrInv
  <1> SUFFICES ASSUME MR!MetadataReadsAssumption, MR!Init  PROVE MrInv
    OBVIOUS
  <1>1. MrTyped
    <2>1. MR!Listed(listed) = MR!Offered /\ DOMAIN replies = {}
      BY DEF MR!Init, MR!Listed, MR!Offered
    <2>2. mrLeft = MR!Requests /\ reader \in MR!Readers /\ mrWish \in Labellings
          /\ when \in Quarters /\ listed = <<>> /\ more = FALSE
      BY DEF MR!Init
    <2>3. /\ listed \in Seq(Media)
          /\ more \in BOOLEAN
      <3>1. <<>> \in Seq(Media)  OBVIOUS
      <3> QED  BY <2>2, <3>1, Zenon
    <2>4. mrLeft \subseteq MR!Requests /\ DOMAIN replies = MR!Requests \ mrLeft
      BY <2>1, <2>2
    <2>5. \A i \in DOMAIN replies : replies[i] \in MediaPages /\ ~replies[i].more
      BY <2>1
    <2> QED  BY <2>1, <2>2, <2>3, <2>4, <2>5 DEF MrTyped
  <1>2. MrPlaces  BY DEF MR!Init, MrPlaces
  <1>3. MrHome /\ MrEntry /\ MrPages
    BY DEF MR!Init, MrHome, MrEntry, MrPages
  <1> QED  BY <1>1, <1>2, <1>3 DEF MrInv

\* What is asked for stays the same.
LEMMA MrTypedStays ==
  ASSUME MrTyped, UNCHANGED <<reader, mrWish, when, mrLeft, listed, more, replies>>
  PROVE  MrTyped' /\ MR!Requests' = MR!Requests
  <1>1. MR!Requests' = MR!Requests /\ MR!Offered' = MR!Offered
    BY DEF MR!Requests, MR!Offered
  <1> QED  BY <1>1 DEF MrTyped

LEMMA MrPagesStay ==
  ASSUME MrPages, MR!Requests' = MR!Requests,
         UNCHANGED <<reader, mrPc, mrLeft, listed, more, mrAnswer>>
  PROVE  MrPages'
  BY DEF MrPages

LEMMA MrTurnKeeps == MrInv /\ (MR!Turn \/ UNCHANGED MR!vars) => MrInv'
  <1> SUFFICES ASSUME MrInv, MR!Turn \/ UNCHANGED MR!vars  PROVE MrInv'
    OBVIOUS
  <1>1. UNCHANGED <<reader, mrWish, when, mrPc, mrLeft, listed, more, replies, fetched, base,
                    extra, mrAnswer, lost>>
    BY DEF MR!Turn, MR!vars, MR!collected, MR!entries
  <1>2. MrTyped' /\ MR!Requests' = MR!Requests  BY <1>1, MrTypedStays DEF MrInv
  <1>3. MrPages'  BY <1>1, <1>2, MrPagesStay DEF MrInv
  <1>4. MrPlaces' /\ MrHome' /\ MrEntry'
    BY <1>1 DEF MrInv, MrPlaces, MrHome, MrHeard, MrEntry, MrFills
  <1> QED  BY <1>2, <1>3, <1>4 DEF MrInv

LEMMA MrSearchKeeps ==
  ASSUME MrInv, MR!SearchAniList \/ MR!SearchAnimeViaJikan
  PROVE  MrInv'
  <1>1. reader = "search" /\ reader' = reader
        /\ UNCHANGED <<mrWish, when, mrLeft, listed, more, replies>>
    BY DEF MR!SearchAniList, MR!SearchAnimeViaJikan, MR!given, MR!collected
  <1>2. /\ mrPc' \in {"begin", "anilist", "jikan", "done", "failed"}
        /\ mrPc' \in {"begin", "anilist"} => lost' = {}
        /\ mrPc' = "failed" => MrHeard'
    BY <1>1 DEF MrInv, MrHome, MrHeard, MR!SearchAniList, MR!SearchAnimeViaJikan, MR!Ask,
                MR!Refused, MR!Goto, MR!Return, MR!Lose, MR!Noted
  <1>3. MrTyped'  BY <1>1, MrTypedStays DEF MrInv
  <1> QED  BY <1>1, <1>2, <1>3 DEF MrInv, MrPlaces, MrHome, MrEntry, MrPages

LEMMA MrHomeKeeps ==
  ASSUME MrInv, MR!GetAniListAnimeCatalogHome \/ MR!GetAnimeCatalogHomeViaJikan
  PROVE  MrInv'
  <1>1. reader = "home" /\ reader' = reader
        /\ UNCHANGED <<mrWish, when, mrLeft, listed, more, replies>>
    BY DEF MR!GetAniListAnimeCatalogHome, MR!GetAnimeCatalogHomeViaJikan, MR!given, MR!collected
  <1>2. /\ mrPc' \in {"begin", "anilist", "jikan", "done", "failed"}
        /\ mrPc' \in {"begin", "anilist"} => lost' = {}
        /\ mrPc' = "failed" => MrHeard'
        /\ mrPc' = "done" =>
             \/ mrAnswer' = [s \in MR!Sections |-> MR!Shelf("anilist", s, when)]
             \/ /\ mrAnswer' = [s \in MR!Sections |-> MR!Shelf("jikan", s, MR!Normalized(when))]
                /\ fetched' = MR!Requested
    <2>1. CASE MR!GetAniListAnimeCatalogHome
      BY <1>1, <2>1 DEF MrInv, MrHome, MrHeard, MR!GetAniListAnimeCatalogHome, MR!Ask,
                        MR!Refused, MR!Goto, MR!Return, MR!Lose, MR!Noted
    <2>2. CASE MR!GetAnimeCatalogHomeViaJikan
      BY <2>2 DEF MrHeard, MR!GetAnimeCatalogHomeViaJikan, MR!FetchShelf, MR!Goto, MR!Return,
                  MR!Lose, MR!Noted
    <2> QED  BY <2>1, <2>2
  <1>3. MrTyped'  BY <1>1, MrTypedStays DEF MrInv
  <1> QED  BY <1>1, <1>2, <1>3 DEF MrInv, MrPlaces, MrHome, MrEntry, MrPages

LEMMA MrReadKeeps ==
  ASSUME MR!MetadataReadsAssumption, MrInv, MR!GetAnimeByID \/ MR!GetAniListMangaByID
  PROVE  MrInv'
  <1>1. /\ reader \in {"anime", "manga"} /\ mrPc = "begin"
        /\ UNCHANGED <<reader, mrWish, when, mrLeft, listed, more, replies>>
    BY DEF MR!GetAnimeByID, MR!GetAniListMangaByID, MR!given, MR!collected
  <1>2. base = Absent /\ lost = {} /\ extra = MR!Unsaid  BY <1>1 DEF MrInv, MrEntry
  <1>3. MrTyped'  BY <1>1, MrTypedStays DEF MrInv
  <1>4. MR!Unsaid \in MrAdds  BY DEF MR!Unsaid, MrAdds
  <1>5. CASE MR!Read
    <2>1. PICK e \in MrSaid :
            /\ base' = e /\ extra' = extra
            /\ MR!Goto("full") \/ MR!Return(MR!Entry(e, "anilist"))
      BY <1>5 DEF MR!Read, MrSaid
    <2> QED
      BY <1>1, <1>2, <1>3, <1>4, <2>1
      DEF MrInv, MrPlaces, MrHome, MrEntry, MrPages, MR!Goto, MR!Return
  <1>6. CASE (MR!Lose("anilist") \/ MR!Lose("missing")) /\ UNCHANGED MR!entries
    BY <1>1, <1>2, <1>3, <1>6
    DEF MrInv, MrPlaces, MrHome, MrEntry, MrPages, MR!Lose, MR!Noted, MR!entries
  <1> QED  BY <1>5, <1>6 DEF MR!GetAnimeByID, MR!GetAniListMangaByID

LEMMA MrEnrichmentKeeps == MrInv /\ MR!GetAnimeEnrichmentByID => MrInv'
  <1> SUFFICES ASSUME MrInv, MR!GetAnimeEnrichmentByID  PROVE MrInv'
    OBVIOUS
  <1>1. reader = "enrichment" /\ UNCHANGED <<reader, mrWish, when, mrLeft, listed, more, replies>>
    BY DEF MR!GetAnimeEnrichmentByID, MR!given, MR!collected
  <1>2. MrTyped'  BY <1>1, MrTypedStays DEF MrInv
  <1> QED  BY <1>1, <1>2 DEF MrInv, MrPlaces, MrHome, MrEntry, MrPages

\* Whoever has an entry of AniList gets it when Jikan fails.
LEMMA MrWithoutJikan ==
  ASSUME MR!MetadataReadsAssumption, MrInv, reader \in {"anime", "manga"},
         mrPc \in {"full", "characters", "recommendations"}, MR!WithoutJikan,
         UNCHANGED <<reader, base>>
  PROVE  MrPlaces' /\ MrEntry'
  <1>1. base \in MrSaid /\ lost = {} /\ extra \in MrAdds  BY DEF MrInv, MrEntry
  <1>2. base # Absent  BY <1>1 DEF MR!MetadataReadsAssumption, MrSaid
  <1>3. /\ mrPc' = "done" /\ mrAnswer' = MR!Entry(base, "anilist")
        /\ lost' = MR!Noted("jikan") /\ extra' = extra
    BY <1>2 DEF MR!WithoutJikan
  <1>4. "jikan" \in lost'  BY <1>3 DEF MR!Noted
  <1> QED  BY <1>1, <1>3, <1>4 DEF MrPlaces, MrEntry

LEMMA MrJikanKeeps ==
  ASSUME MR!MetadataReadsAssumption, MrInv,
         \/ MR!GetAnimeDetailViaJikan \/ MR!GetMangaDetailViaJikan
         \/ MR!GetAnimeCharactersViaJikan \/ MR!GetMangaCharactersViaJikan
         \/ MR!GetAnimeRecommendationsViaJikan
  PROVE  MrInv'
  <1>1. /\ UNCHANGED <<reader, mrWish, when, mrLeft, listed, more, replies, base>>
        /\ mrPc \in {"full", "characters", "recommendations"}
    BY DEF MR!GetAnimeDetailViaJikan, MR!GetMangaDetailViaJikan, MR!GetAnimeCharactersViaJikan,
           MR!GetMangaCharactersViaJikan, MR!GetAnimeRecommendationsViaJikan, MR!given,
           MR!collected
  <1>2. MrTyped'  BY <1>1, MrTypedStays DEF MrInv
  <1>3. reader \notin {"search", "home", "anime page", "manga page", "match"}
    BY <1>1 DEF MrInv, MrPlaces
  <1>4. MrHome' /\ MrPages'  BY <1>1, <1>3 DEF MrHome, MrPages
  <1>5. CASE reader \notin {"anime", "manga"}
    BY <1>1, <1>2, <1>3, <1>4, <1>5 DEF MrInv, MrPlaces, MrEntry
  <1>6. CASE reader \in {"anime", "manga"}
    <2>1. base \in MrSaid /\ lost = {} /\ extra \in MrAdds
      BY <1>1, <1>6 DEF MrInv, MrEntry
    <2>2. CASE MR!WithoutJikan
      BY <1>1, <1>2, <1>4, <1>6, <2>2, MrWithoutJikan DEF MrInv
    <2>3. ASSUME NEW says \in SUBSET Fields, mrPc = "full",
                 extra' = [extra EXCEPT !.says = says], MR!Goto("characters")
          PROVE  MrPlaces' /\ MrEntry'
      <3>1. extra' \in MrAdds  BY <2>1, <2>3 DEF MrAdds
      <3> QED  BY <1>1, <1>6, <2>1, <2>3, <3>1 DEF MrPlaces, MrEntry, MR!Goto
    <2>4. ASSUME NEW cast \in Casts, reader = "anime", mrPc = "characters",
                 extra' = [extra EXCEPT !.cast = cast], MR!Goto("recommendations")
          PROVE  MrPlaces' /\ MrEntry'
      <3>1. extra' \in MrAdds  BY <2>1, <2>4 DEF MrAdds
      <3> QED  BY <1>1, <1>6, <2>1, <2>4, <3>1 DEF MrPlaces, MrEntry, MR!Goto
    <2>5. ASSUME NEW cast \in Casts, reader = "manga", mrPc = "characters",
                 extra' = [extra EXCEPT !.cast = cast],
                 MR!Return(MR!applyJikanMangaEnrichment(base, extra'))
          PROVE  MrPlaces' /\ MrEntry'
      <3>1. extra' \in MrAdds  BY <2>1, <2>5 DEF MrAdds
      <3>2. /\ mrPc' = "done" /\ lost' = {}
            /\ mrAnswer' = MR!Merged(base', extra', MangaFills)
        BY <1>1, <2>1, <2>5 DEF MR!Return, MR!applyJikanMangaEnrichment
      <3> QED  BY <1>1, <2>1, <2>5, <3>1, <3>2 DEF MrPlaces, MrEntry, MrFills
    <2>6. ASSUME reader = "anime", mrPc = "recommendations", extra' = extra,
                 MR!Return(MR!applyJikanAnimeEnrichment(base, extra))
          PROVE  MrPlaces' /\ MrEntry'
      <3>1. /\ mrPc' = "done" /\ lost' = {}
            /\ mrAnswer' = MR!Merged(base', extra', AnimeFills)
        BY <1>1, <2>1, <2>6 DEF MR!Return, MR!applyJikanAnimeEnrichment
      <3> QED  BY <1>1, <2>1, <2>6, <3>1 DEF MrPlaces, MrEntry, MrFills
    <2>7. mrPc = "recommendations" => reader = "anime"
      BY <1>6 DEF MrInv, MrPlaces
    <2>8. MR!WithoutJikan \/ (MrPlaces' /\ MrEntry')
      <3>1. CASE MR!GetAnimeDetailViaJikan \/ MR!GetMangaDetailViaJikan
        BY <3>1, <2>3 DEF MR!GetAnimeDetailViaJikan, MR!GetMangaDetailViaJikan, MR!Detail
      <3>2. CASE MR!GetAnimeCharactersViaJikan
        BY <3>2, <1>6, <2>4 DEF MR!GetAnimeCharactersViaJikan
      <3>3. CASE MR!GetMangaCharactersViaJikan
        BY <3>3, <2>5 DEF MR!GetMangaCharactersViaJikan
      <3>4. CASE MR!GetAnimeRecommendationsViaJikan
        BY <3>4, <2>6, <2>7 DEF MR!GetAnimeRecommendationsViaJikan
      <3> QED  BY <3>1, <3>2, <3>3, <3>4
    <2> QED  BY <1>2, <1>4, <2>2, <2>8 DEF MrInv
  <1> QED  BY <1>5, <1>6

\* What one more name has led to.
LEMMA MrCollects ==
  ASSUME MR!MetadataReadsAssumption, MrTyped, NEW i \in mrLeft, NEW p \in MediaPages,
         MR!Collect(i, p), UNCHANGED MR!given
  PROVE  MrTyped' /\ MR!Requests' = MR!Requests
  <1>1. /\ mrLeft' = mrLeft \ {i} /\ listed' = listed \o p.media /\ more' = (more \/ p.more)
        /\ replies' = [j \in DOMAIN replies \cup {i} |-> IF j = i THEN p ELSE replies[j]]
        /\ UNCHANGED <<reader, mrWish, when>>
    BY DEF MR!Collect, MR!given
  <1>2. MR!Requests' = MR!Requests  BY <1>1 DEF MR!Requests
  <1>3. p.media \in Seq(Media) /\ p.more \in BOOLEAN
    BY DEF MR!MetadataReadsAssumption
  <1>4. listed \in Seq(Media) /\ more \in BOOLEAN /\ i \in MR!Requests /\ i \notin DOMAIN replies
    BY DEF MrTyped
  <1>5. listed' \in Seq(Media) /\ more' \in BOOLEAN  BY <1>1, <1>3, <1>4
  <1>6. DOMAIN replies' = MR!Requests' \ mrLeft' /\ mrLeft' \subseteq MR!Requests'
    BY <1>1, <1>2, <1>4 DEF MrTyped
  <1>7. \A j \in DOMAIN replies' : replies'[j] \in MediaPages
    BY <1>1, <1>4 DEF MrTyped
  <1>8. MR!Listed(listed)' = MR!Listed(listed) \cup MR!Listed(p.media)
    <2>1. MR!Listed(listed') = MR!Listed(listed) \cup MR!Listed(p.media)
      <3>1. /\ DOMAIN listed = 1 .. Len(listed) /\ DOMAIN p.media = 1 .. Len(p.media)
            /\ DOMAIN listed' = 1 .. (Len(listed) + Len(p.media))
            /\ Len(listed) \in Nat /\ Len(p.media) \in Nat
        BY <1>1, <1>3, <1>4
      <3>2. \A k \in DOMAIN listed : k \in DOMAIN listed' /\ listed'[k] = listed[k]
        BY <1>1, <1>3, <1>4, <3>1
      <3>3. \A k \in DOMAIN p.media : /\ Len(listed) + k \in DOMAIN listed'
                                      /\ listed'[Len(listed) + k] = p.media[k]
        BY <1>1, <1>3, <1>4, <3>1
      <3>4. \A k \in DOMAIN listed' : k \in DOMAIN listed \/ k - Len(listed) \in DOMAIN p.media
        BY <3>1
      <3>5. \A k \in DOMAIN listed' :
              \/ k \in DOMAIN listed /\ listed'[k] = listed[k]
              \/ k - Len(listed) \in DOMAIN p.media /\ listed'[k] = p.media[k - Len(listed)]
        BY <3>1, <3>2, <3>3, <3>4
      <3>6. MR!Listed(listed') \subseteq MR!Listed(listed) \cup MR!Listed(p.media)
        BY <3>5 DEF MR!Listed
      <3>7. /\ MR!Listed(listed) \subseteq MR!Listed(listed')
            /\ MR!Listed(p.media) \subseteq MR!Listed(listed')
        BY <3>2, <3>3 DEF MR!Listed
      <3> QED  BY <3>6, <3>7
    <2> QED  BY <2>1 DEF MR!Listed
  <1>9. MR!Offered' = MR!Offered \cup MR!Listed(p.media)
    <2>1. DOMAIN replies' = DOMAIN replies \cup {i} /\ replies'[i] = p
          /\ \A j \in DOMAIN replies : replies'[j] = replies[j]
      BY <1>1, <1>4
    <2> QED  BY <2>1 DEF MR!Offered, MR!Listed
  <1>10. MR!Listed(listed)' = MR!Offered'  BY <1>8, <1>9 DEF MrTyped
  <1>11. ~more' => \A j \in DOMAIN replies' : ~replies'[j].more
    BY <1>1, <1>3, <1>4 DEF MrTyped
  <1>12. UNCHANGED <<reader, mrWish, when>>  BY <1>1
  <1> QED  BY <1>2, <1>5, <1>6, <1>7, <1>10, <1>11, <1>12 DEF MrTyped

LEMMA MrOne ==
  ASSUME NEW S, NEW x, S = {x}
  PROVE  ~(Cardinality(S) > 1)
  <1>1. Cardinality(S) = 1  BY FS_Singleton
  <1>2. \A n \in Nat : n = 1 => ~(n > 1)  OBVIOUS
  <1> QED  BY <1>1, <1>2, Zenon

LEMMA MrDiscoverKeeps ==
  ASSUME MR!MetadataReadsAssumption, MrInv, MR!DiscoverAnime \/ MR!DiscoverManga
  PROVE  MrInv'
  <1>1. PICK r \in {"anime page", "manga page"} : MR!Discover(r)
    BY DEF MR!DiscoverAnime, MR!DiscoverManga
  <1>2. reader \in {"anime page", "manga page"} /\ reader' = reader /\ UNCHANGED MR!given
    BY <1>1 DEF MR!Discover, MR!given
  <1>3. CASE MR!Lose("anilist") /\ UNCHANGED MR!collected
    <2>1. MrTyped' /\ mrPc' = "failed"
      BY <1>2, <1>3, MrTypedStays DEF MrInv, MR!Lose, MR!collected, MR!given
    <2> QED  BY <1>2, <2>1 DEF MrInv, MrPlaces, MrHome, MrEntry, MrPages
  <1>4. ASSUME NEW i \in mrLeft, NEW p \in MediaPages, MR!Collect(i, p),
               CASE mrLeft' # {} -> MR!Goto("begin")
                 [] MR!Requests = {i} ->
                      MR!Return([shown |-> MR!Listed(p.media), next |-> p.more])
                 [] OTHER -> MR!Return(MR!Page(listed', more'))
        PROVE  MrInv'
    <2>1. MrTyped' /\ MR!Requests' = MR!Requests  BY <1>2, <1>4, MrCollects DEF MrInv
    <2>2. \/ mrLeft' # {} /\ MR!Goto("begin")
          \/ mrLeft' = {} /\ MR!Requests = {i}
               /\ MR!Return([shown |-> MR!Listed(p.media), next |-> p.more])
          \/ mrLeft' = {} /\ MR!Return(MR!Page(listed', more'))
      <3>1. MR!Requests = {i} => mrLeft' = {}
        BY <1>4 DEF MrInv, MrTyped, MR!Collect
      <3> QED  BY <1>4, <3>1, Zenon
    <2>3. /\ mrPc' \in {"begin", "done"} /\ (mrPc' = "done" => mrLeft' = {})
          /\ MR!Requests # {i} /\ mrPc' = "done" => mrAnswer' = MR!Page(listed', more')
      BY <2>2 DEF MR!Goto, MR!Return
    <2>4. MR!Requests = {i} => ~(Cardinality(MR!Requests) > 1)  BY MrOne
    <2>5. MrPages'
      <3>1. MR!Page(listed, more)' = MR!Page(listed', more')
        BY DEF MR!Page, MR!BestOf, MR!Union, MR!Ahead, MR!Listed
      <3> QED  BY <1>2, <2>1, <2>3, <2>4, <3>1 DEF MrPages
    <2> QED  BY <1>2, <2>1, <2>3, <2>5 DEF MrInv, MrPlaces, MrHome, MrEntry
  <1> QED  BY <1>1, <1>3, <1>4 DEF MR!Discover

LEMMA MrMatchKeeps == MR!MetadataReadsAssumption /\ MrInv /\ MR!MatchAnime => MrInv'
  <1> SUFFICES ASSUME MR!MetadataReadsAssumption, MrInv, MR!MatchAnime  PROVE MrInv'
    OBVIOUS
  <1>1. reader = "match" /\ mrPc = "begin" /\ reader' = reader /\ UNCHANGED MR!given
    BY DEF MR!MatchAnime, MR!given
  <1>2. CASE mrLeft # {} /\ MR!Lose("anilist") /\ UNCHANGED MR!collected
    <2>1. MrTyped' /\ mrPc' = "failed"
      BY <1>1, <1>2, MrTypedStays DEF MrInv, MR!Lose, MR!collected, MR!given
    <2> QED  BY <1>1, <2>1 DEF MrInv, MrPlaces, MrHome, MrEntry, MrPages
  <1>3. CASE mrLeft = {} /\ MR!Return(Absent) /\ UNCHANGED MR!collected
    <2>1. MrTyped' /\ mrPc' = "done" /\ mrAnswer' = Absent /\ mrLeft' = {}
      BY <1>1, <1>3, MrTypedStays DEF MrInv, MR!Return, MR!collected, MR!given
    <2>2. DOMAIN replies = {}  BY <1>1, <1>3 DEF MrInv, MrPages, MrTyped
    <2>3. MR!Listed(listed) = {}  BY <2>2 DEF MrInv, MrTyped, MR!Offered
    <2>4. MR!Listed(listed)' = {}  BY <1>3, <2>3 DEF MR!collected, MR!Listed
    <2> QED  BY <1>1, <2>1, <2>4 DEF MrInv, MrPlaces, MrHome, MrEntry, MrPages
  <1>4. ASSUME NEW i \in mrLeft, NEW p \in MediaPages, MR!Collect(i, p),
               IF mrLeft' # {} THEN MR!Goto("begin") ELSE MR!Choose(listed')
        PROVE  MrInv'
    <2>1. MrTyped'  BY <1>1, <1>4, MrCollects DEF MrInv
    <2>2. mrPc' \in {"begin", "done"} /\ (mrPc' = "done" <=> mrLeft' = {})
      BY <1>4 DEF MR!Goto, MR!Choose, MR!Return
    <2>3. listed' \in Seq(Media)  BY <2>1 DEF MrTyped
    <2>4. mrPc' = "done" => \/ mrAnswer' \in MR!Chosen(listed')
                            \/ MR!Chosen(listed') = {} /\ mrAnswer' = Absent
      BY <1>4 DEF MR!Goto, MR!Choose, MR!Return
    <2>5. Absent \notin MR!Chosen(listed')
      <3>1. MR!Chosen(listed') \subseteq Media
        BY <2>3, MrChosen, MrFinite
      <3> QED  BY <3>1 DEF MR!MetadataReadsAssumption
    <2>6. MR!Chosen(listed)' = MR!Chosen(listed') /\ MR!Listed(listed)' = MR!Listed(listed')
      BY DEF MR!Chosen, MR!IsBest, MR!Listed
    <2>7. MR!Chosen(listed') = {} => \A x \in MR!Listed(listed') : MediaGrade[x] < 55
      BY <2>3, MrChosen
    <2>8. MrPages'
      BY <1>1, <2>2, <2>4, <2>5, <2>6, <2>7 DEF MrPages
    <2> QED  BY <1>1, <2>1, <2>2, <2>8 DEF MrInv, MrPlaces, MrHome, MrEntry
  <1> QED  BY <1>2, <1>3, <1>4 DEF MR!MatchAnime

LEMMA MrInvNext == MR!MetadataReadsAssumption /\ MrInv /\ [MR!Next]_(MR!vars) => MrInv'
  <1> SUFFICES ASSUME MR!MetadataReadsAssumption, MrInv, [MR!Next]_(MR!vars)  PROVE MrInv'
    OBVIOUS
  <1>1. CASE MR!Turn \/ UNCHANGED MR!vars  BY <1>1, MrTurnKeeps
  <1>2. CASE MR!SearchAniList \/ MR!SearchAnimeViaJikan  BY <1>2, MrSearchKeeps
  <1>3. CASE MR!GetAniListAnimeCatalogHome \/ MR!GetAnimeCatalogHomeViaJikan
    BY <1>3, MrHomeKeeps
  <1>4. CASE MR!GetAnimeByID \/ MR!GetAniListMangaByID  BY <1>4, MrReadKeeps
  <1>5. CASE MR!GetAnimeEnrichmentByID  BY <1>5, MrEnrichmentKeeps
  <1>6. CASE \/ MR!GetAnimeDetailViaJikan \/ MR!GetMangaDetailViaJikan
             \/ MR!GetAnimeCharactersViaJikan \/ MR!GetMangaCharactersViaJikan
             \/ MR!GetAnimeRecommendationsViaJikan
    BY <1>6, MrJikanKeeps
  <1>7. CASE MR!DiscoverAnime \/ MR!DiscoverManga  BY <1>7, MrDiscoverKeeps
  <1>8. CASE MR!MatchAnime  BY <1>8, MrMatchKeeps
  <1> QED  BY <1>1, <1>2, <1>3, <1>4, <1>5, <1>6, <1>7, <1>8 DEF MR!Next

\* A home whose seasons follow one another.
MrHomeOf(service, q) == [s \in MR!Sections |-> MR!Shelf(service, s, q)]
MrWhole(home) ==
  /\ 4 * home["lastSeason"].quarter.year + home["lastSeason"].quarter.season
       = (4 * home["newlyTrending"].quarter.year + home["newlyTrending"].quarter.season) - 1
  /\ 4 * home["seasonalPopular"].quarter.year + home["seasonalPopular"].quarter.season
       = 4 * home["newlyTrending"].quarter.year + home["newlyTrending"].quarter.season

LEMMA MrSections ==
  {"featured", "newlyTrending", "seasonalPopular", "lastSeason"} \subseteq MR!Sections
  <1>1. /\ {1, 2, 5} \subseteq DOMAIN MR!Order /\ MR!Order[1] = "featured"
        /\ MR!Order[2] = "newlyTrending" /\ MR!Order[5] = "lastSeason"
    BY DEF MR!Order
  <1> QED  BY <1>1 DEF MR!Sections, MR!Requested, MR!Fixed

LEMMA MrSeasons ==
  ASSUME NEW q \in [season : 0 .. 3, year : Nat], NEW service
  PROVE  MrWhole(MrHomeOf(service, q))
  <1> DEFINE home == MrHomeOf(service, q)
  <1>1. /\ home["newlyTrending"].quarter = q /\ home["seasonalPopular"].quarter = q
        /\ home["lastSeason"].quarter = MR!Shift(q, -1)
    BY MrSections DEF MR!Shelf, MrHomeOf
  <1>2. /\ MR!Shift(q, -1).season = (q.season + (-1)) % 4
        /\ MR!Shift(q, -1).year = q.year + ((q.season + (-1)) \div 4)
    BY DEF MR!Shift
  <1>3. \A n \in 0 .. 3 : /\ 4 * ((n + (-1)) \div 4) + ((n + (-1)) % 4) = n - 1
                          /\ (n + (-1)) \div 4 \in Int /\ (n + (-1)) % 4 \in Int
    OBVIOUS
  <1>4. q.season \in 0 .. 3 /\ q.year \in Nat  OBVIOUS
  <1>5. 4 * MR!Shift(q, -1).year + MR!Shift(q, -1).season = (4 * q.year + q.season) - 1
    BY <1>2, <1>3, <1>4
  <1> HIDE DEF home
  <1> QED  BY <1>1, <1>5 DEF MrWhole, home

LEMMA MrHomeIsWhole == MR!MetadataReadsAssumption /\ MrInv => MR!HomeIsWhole
  <1> SUFFICES ASSUME MR!MetadataReadsAssumption, MrInv, reader = "home", mrPc = "done"
        PROVE  MR!HomeIsWhole
    BY DEF MR!HomeIsWhole
  <1>1. when \in [season : 0 .. 3, year : Nat] /\ ThisYear \in Nat
    BY DEF MrInv, MrTyped, MR!MetadataReadsAssumption
  <1>2. MR!Normalized(when) \in [season : 0 .. 3, year : Nat]
    BY <1>1 DEF MR!Normalized
  <1>3. \/ mrAnswer = MrHomeOf("anilist", when)
        \/ mrAnswer = MrHomeOf("jikan", MR!Normalized(when))
    BY DEF MrInv, MrHome, MrHomeOf
  <1>4. MrWhole(mrAnswer)  BY <1>1, <1>2, <1>3, MrSeasons
  <1> QED  BY <1>4 DEF MrWhole, MR!HomeIsWhole

LEMMA MrEntryIsKept == MR!MetadataReadsAssumption /\ MrInv => MR!EntryIsKept
  <1> SUFFICES ASSUME MR!MetadataReadsAssumption, MrInv, reader \in {"anime", "manga"},
                      mrPc = "done"
        PROVE  MR!EntryIsKept
    BY DEF MR!EntryIsKept
  <1> DEFINE cast == IF "jikan" \in lost \/ MR!Shown(extra.cast) = {} THEN base.cast
                     ELSE extra.cast
  <1>1. /\ base \in MrSaid /\ extra \in MrAdds
        /\ \/ /\ mrAnswer = MR!Entry(base, "anilist")
              /\ "jikan" \in lost \/ extra = MR!Unsaid
           \/ "jikan" \notin lost /\ mrAnswer = MR!Merged(base, extra, MrFills)
    BY DEF MrInv, MrEntry
  <1>2. /\ base.says \subseteq Fields /\ base.cast \in Casts
        /\ extra.says \subseteq Fields /\ extra.cast \in Casts \cup {<<>>}
    BY <1>1 DEF MrSaid, MrAdds
  <1>3. Absent # "anilist" /\ Absent # "jikan" /\ CastLimit \in Nat
        /\ Casts \subseteq Seq([who : People, main : BOOLEAN])
    BY DEF MR!MetadataReadsAssumption
  <1>4. MR!Shown(<<>>) = {}  BY DEF MR!Shown, MR!Limited, MR!Firsts
  <1>5. /\ \A f \in base.says : mrAnswer.says[f] = "anilist"
        /\ \A f \in Fields \ base.says :
             mrAnswer.says[f] = "jikan" <=> "jikan" \notin lost /\ f \in extra.says \cap MrFills
        /\ mrAnswer.cast = MR!Shown(cast)
    <2>1. CASE mrAnswer = MR!Entry(base, "anilist") /\ "jikan" \in lost
      BY <1>2, <1>3, <2>1 DEF MR!Entry
    <2>2. CASE mrAnswer = MR!Entry(base, "anilist") /\ extra = MR!Unsaid
      BY <1>2, <1>3, <1>4, <2>2 DEF MR!Entry, MR!Unsaid
    <2>3. CASE "jikan" \notin lost /\ mrAnswer = MR!Merged(base, extra, MrFills)
      BY <1>2, <1>3, <2>3 DEF MR!Merged
    <2> QED  BY <1>1, <2>1, <2>2, <2>3
  <1>6. cast \in Seq([who : People, main : BOOLEAN])  BY <1>2, <1>3, <1>4
  <1> HIDE DEF cast
  <1>7. \A p \in MR!Firsts(cast) \ MR!Limited(cast) :
          cast[p].main => \A q \in MR!Limited(cast) : cast[q].main
    BY <1>3, <1>6, MrMainFirst
  <1>8. MrFills = IF reader = "anime" THEN AnimeFills ELSE MangaFills  BY DEF MrFills
  <1> QED  BY <1>5, <1>7, <1>8 DEF MR!EntryIsKept, cast

LEMMA MrPageIsBest == MR!MetadataReadsAssumption /\ MrInv => MR!PageIsBest
  <1> SUFFICES ASSUME MR!MetadataReadsAssumption, MrInv,
                      reader \in {"anime page", "manga page"}, mrPc = "done",
                      MR!Cardinality(MR!Requests) > 1
        PROVE  LET all == MR!Offered \ Anonymous
               IN  /\ mrAnswer.shown \subseteq all
                   /\ MR!Cardinality(mrAnswer.shown) <= PerPage
                   /\ \A x \in mrAnswer.shown, y \in all \ mrAnswer.shown :
                        MediaRank[x] < MediaRank[y]
                   /\ ~mrAnswer.next => /\ mrAnswer.shown = all
                                        /\ \A i \in MR!Requests : ~replies[i].more
    BY DEF MR!PageIsBest
  <1>1. /\ listed \in Seq(Media) /\ mrLeft = {} /\ DOMAIN replies = MR!Requests
        /\ MR!Union(listed) = MR!Offered \ Anonymous
        /\ ~more => \A i \in MR!Requests : ~replies[i].more
    BY DEF MrInv, MrTyped, MrPages, MR!Union
  <1>2. /\ mrAnswer.shown = MR!BestOf(listed)
        /\ ~mrAnswer.next => ~more /\ MR!BestOf(listed) = MR!Union(listed)
    <2>1. mrAnswer = MR!Page(listed, more)  BY MrSize DEF MrInv, MrPages
    <2> QED  BY <2>1 DEF MR!Page
  <1> QED  BY <1>1, <1>2, MrBest, MrSize

LEMMA MrReads ==
  MR!MetadataReadsAssumption => (MR!Spec => []MR!NothingIsLeftUntried /\ []MR!ReadsAreRight)
  <1> SUFFICES ASSUME MR!MetadataReadsAssumption
        PROVE MR!Spec => []MR!NothingIsLeftUntried /\ []MR!ReadsAreRight
    OBVIOUS
  <1>1. MrInv => MR!NothingIsLeftUntried
    <2> SUFFICES ASSUME MrInv  PROVE MR!NothingIsLeftUntried
      OBVIOUS
    <2>1. reader = "home" /\ mrPc = "done" /\ mrAnswer["featured"].from = "jikan"
            => fetched = MR!Requested
      <3> SUFFICES ASSUME reader = "home", mrPc = "done",
                          mrAnswer = [s \in MR!Sections |-> MR!Shelf("anilist", s, when)]
            PROVE  mrAnswer["featured"].from # "jikan"
        BY DEF MrInv, MrHome
      <3>1. 1 \in DOMAIN MR!Order /\ MR!Order[1] = "featured"  BY DEF MR!Order
      <3>2. "featured" \in MR!Sections
        BY <3>1 DEF MR!Sections, MR!Requested, MR!Fixed
      <3> QED  BY <3>2 DEF MR!Shelf
    <2>2. reader \in {"anime page", "manga page", "match"} /\ mrPc = "done"
            => DOMAIN replies = MR!Requests
      BY DEF MrInv, MrTyped, MrPages
    <2>3. mrPc = "failed" =>
            /\ reader \in {"search", "home"} => MrHeard
            /\ reader \in {"anime", "manga"} => base = Absent
      BY DEF MrInv, MrHome, MrEntry
    <2> QED  BY <2>1, <2>2, <2>3 DEF MR!NothingIsLeftUntried, MrHeard
  <1>2. MrInv => MR!MatchIsBest
    <2> SUFFICES ASSUME MrInv, reader = "match", mrPc = "done"
          PROVE IF mrAnswer = Absent THEN \A x \in MR!Offered : MediaGrade[x] < 55
                ELSE /\ mrAnswer \in MR!Offered /\ MR!Fits(mrAnswer)
                     /\ \A x \in MR!Offered : MediaGrade[x] <= MediaGrade[mrAnswer]
      BY DEF MR!MatchIsBest
    <2>1. MR!Listed(listed) = MR!Offered /\ listed \in Seq(Media)  BY DEF MrInv, MrTyped
    <2>2. IF mrAnswer = Absent THEN \A x \in MR!Listed(listed) : MediaGrade[x] < 55
          ELSE mrAnswer \in MR!Chosen(listed)
      BY DEF MrInv, MrPages
    <2> QED  BY <2>1, <2>2, MrChosen
  <1>3. MrInv => MR!ReadsAreRight
    BY <1>2, MrHomeIsWhole, MrEntryIsKept, MrPageIsBest DEF MR!ReadsAreRight
  <1> QED  BY <1>1, <1>3, MrInvInit, MrInvNext, PTL DEF MR!Spec

----------------------------------------------------------------------------
(* The sources together, the match and the reads. *)

\* AnimeFLV, AnimeKai, AnimeNinja, JKAnime, AnimeGG: no embed, session, server, frame,
\* edition or candidate is left untried where a call fails.  MangaMatch: no manga is
\* said to be missing as long as one of its names was not searched for.  MetadataReads:
\* a read fails only when nobody is left to ask, and is whole when it does not.
THEOREM NothingIsLeftUntriedHolds ==
  ASSUME FLV!AnimeFLVAssumption, Kai!AnimeKaiAssumption, Nin!AnimeNinjaAssumption,
         JK!JKAnimeAssumption, GG!AnimeGGAssumption, MM!MangaMatchAssumption,
         MR!MetadataReadsAssumption
  PROVE  FLV!Spec /\ Kai!Spec /\ Nin!Spec /\ JK!Spec /\ GG!Spec /\ MM!Spec /\ MR!Spec
           => []NothingIsLeftUntried
  <1>1. /\ FLV!Spec => []FLV!NoEmbedIsSkipped
        /\ Kai!Spec => []Kai!NothingIsLeftUntried
        /\ Nin!Spec => []Nin!NothingIsLeftUntried
        /\ JK!Spec => []JK!NothingIsLeftUntried
        /\ GG!Spec => []GG!NothingIsLeftUntried /\ []GG!StreamsAreMerged
        /\ MM!Spec => []MM!NothingIsLeftUntried /\ []MM!BestMatchIsKept
        /\ MR!Spec => []MR!NothingIsLeftUntried /\ []MR!ReadsAreRight
    BY FlvSkipsNone, KaiTriesAll, NinTriesAll, JkTriesAll, GgMerges, MmFinds, MrReads
  <1>2. FLV!NoEmbedIsSkipped /\ Kai!NothingIsLeftUntried /\ Nin!NothingIsLeftUntried
          /\ JK!NothingIsLeftUntried /\ GG!NothingIsLeftUntried
          /\ MM!NothingIsLeftUntried /\ MR!NothingIsLeftUntried => NothingIsLeftUntried
    BY DEF NothingIsLeftUntried
  <1> QED  BY <1>1, <1>2, PTL

\* AnimeAV1, JKAnime: a stream of each audio is kept; the planned number of
\* episodes is the last resort; no download link is lost or misplaced; AnimeGG: what
\* was found is offered, once, at least as good; MangaMatch: the match that is kept for
\* an entry was found to be that entry, and is the best of those that were accepted;
\* MetadataReads: an entry, a home, a page and a match are the best of what was answered.
THEOREM ChoicesAreRightHolds ==
  ASSUME JK!JKAnimeAssumption, GG!AnimeGGAssumption, MM!MangaMatchAssumption,
         MR!MetadataReadsAssumption
  PROVE  AV1!Spec /\ JK!Spec /\ GG!Spec /\ MM!Spec /\ MR!Spec => []ChoicesAreRight
  <1>1. /\ AV1!Spec => []AV1!BothVariantsKept
        /\ JK!Spec => [](JK!PlannedIsLastResort /\ JK!LinksAreRanked)
        /\ GG!Spec => []GG!NothingIsLeftUntried /\ []GG!StreamsAreMerged
        /\ MM!Spec => []MM!NothingIsLeftUntried /\ []MM!BestMatchIsKept
        /\ MR!Spec => []MR!NothingIsLeftUntried /\ []MR!ReadsAreRight
    BY AvKeepsBoth, JkChooses, GgMerges, MmFinds, MrReads
  <1>2. AV1!BothVariantsKept /\ (JK!PlannedIsLastResort /\ JK!LinksAreRanked)
          /\ GG!StreamsAreMerged /\ MM!BestMatchIsKept /\ MR!ReadsAreRight => ChoicesAreRight
    BY DEF ChoicesAreRight
  <1> QED  BY <1>1, <1>2, PTL
=============================================================================
