----------------------------- MODULE MangaMatch -----------------------------
(***************************************************************************)
(* Which manga of a source is the one of an AniList entry:                 *)
(* ResolveMangaSourceForAniList of manga_identity.go, for one source.      *)
(* Calls share the table of mappings, the answers of searches and the      *)
(* matches that were found.  How a mapping is looked up and written beside *)
(* other lookups is MangaIdentity's; here it is one step.                  *)
(***************************************************************************)
EXTENDS MangaTitles

CONSTANTS
  Calls, Entries, Items,
  Title,       \* Title[i]: of a manga of the source
  Own,         \* Own[i]: the title and the slug, as queries
  NamesOf,     \* NamesOf[e]: the titles of an entry in the order they are tried
  SameYear,    \* <<i, e>>: of one year
  Finds,       \* Finds[q]: what the source may answer
  Tables,      \* tables of mappings that the program may start with
  MaxAsks,     \* bound: calls in all
  None

Confident == 78
Rows == [entry : Entries, matched : Titles, confidence : Nat, current : BOOLEAN]

\* fastResolveCandidates; verificationNeedles
SearchNames(e) == Capped(Candidates(NamesOf[e]))
Needles(e, q)  == Append(Candidates(<<q>> \o NamesOf[e]), q)

\* The last two follow from the definitions, by induction over the titles.
MangaMatchAssumption ==
  /\ TitlesAssumption
  /\ Title \in [Items -> Titles] /\ Own \in [Items -> Seq(Titles)]
  /\ NamesOf \in [Entries -> Seq(Titles)]
  /\ Finds \in [Titles -> SUBSET Seq(Items)]
  /\ Tables \subseteq [Items -> Rows \cup {None}]
  /\ None \notin Seq(Items)
  /\ \A e \in Entries : SearchNames(e) \in Seq(Titles)
  /\ \A q \in Titles : /\ Variants(q) \in Seq(Titles) /\ Variants(q) # <<>>
                       /\ Variants(q)[1] = q

VARIABLES
  table,     \* table[i]: online_manga_source_map
  searches,  \* searches[q]: the answer that is kept, or None
  matches,   \* matches[e]: the match that is kept, or None
  pc, entry,
  at,        \* the name that is searched for
  variant, failed, \* the variant of the name; whether one could not be asked
  hits, left,\* the answer, and the places in it that are still to be judged
  best,
  asks,
  heard,     \* history: heard[c][n]: the answer for a name, or Lost
  judged,    \* history: <<n, p>>: hits that were turned down
  accepted,  \* history: the confidences of hits that were accepted
  silent,    \* history: queries that the source answered with nothing
  proofs     \* history: <<e, i>>: what was found to belong together

vars == <<table, searches, matches, pc, entry, at, variant, failed, hits, left, best, asks,
          heard, judged, accepted, silent, proofs>>

Lost    == "lost"
NoMatch == [item |-> None, confidence |-> 0]

Init ==
  /\ table \in Tables
  /\ searches = [q \in Titles |-> None] /\ matches = [e \in Entries |-> None]
  /\ pc = [c \in Calls |-> "idle"] /\ entry \in [Calls -> Entries]
  /\ at = [c \in Calls |-> 1] /\ variant = [c \in Calls |-> 1]
  /\ failed = [c \in Calls |-> FALSE]
  /\ hits = [c \in Calls |-> <<>>] /\ left = [c \in Calls |-> {}]
  /\ best = [c \in Calls |-> NoMatch] /\ asks = 0
  /\ heard = [c \in Calls |-> <<>>] /\ judged = [c \in Calls |-> {}]
  /\ accepted = [c \in Calls |-> {}] /\ silent = {}
  /\ proofs = {p \in Entries \X Items :
                 table[p[2]] # None /\ table[p[2]].entry = p[1]}

Goto(c, p) == pc' = [pc EXCEPT ![c] = p]

Query(c)      == SearchNames(entry[c])[at[c]]
Wanted(c)     == Needles(entry[c], Query(c))

searching == <<at, variant, failed, hits, left, best, heard, judged, accepted>>

\* A call begins afresh, or is told the match that is kept.
Ask(c, e) ==
  /\ pc[c] \in {"idle", "done", "told"} /\ asks < MaxAsks
  /\ asks' = asks + 1 /\ entry' = [entry EXCEPT ![c] = e]
  /\ Goto(c, IF matches[e] = None THEN "table" ELSE "told")
  /\ at' = [at EXCEPT ![c] = 1] /\ best' = [best EXCEPT ![c] = NoMatch]
  /\ heard' = [heard EXCEPT ![c] = <<>>] /\ judged' = [judged EXCEPT ![c] = {}]
  /\ accepted' = [accepted EXCEPT ![c] = {}]
  /\ variant' = [variant EXCEPT ![c] = 1] /\ failed' = [failed EXCEPT ![c] = FALSE]
  /\ hits' = [hits EXCEPT ![c] = <<>>] /\ left' = [left EXCEPT ![c] = {}]
  /\ UNCHANGED <<table, searches, matches, silent, proofs>>

Keep(c, status, item) ==
  matches' = [matches EXCEPT ![entry[c]] = [status |-> status, item |-> item]]

\* selectBestCachedMangaSourceMapForSource, of rows in the order of confidence: one
\* of this version of the rules before an older one.
Plausible(i) == table[i].confidence >= Confident /\ LooksLike(Title[i], table[i].matched)
Usable(i, e) == table[i] # None /\ table[i].entry = e /\ Plausible(i)
Fresh(e) == {i \in Items : Usable(i, e) /\ table[i].current}
Pool(e)  == IF Fresh(e) # {} THEN Fresh(e) ELSE {i \in Items : Usable(i, e)}

ReadTable(c) ==
  /\ pc[c] = "table"
  /\ \/ \E i \in Pool(entry[c]) :
          /\ \A j \in Pool(entry[c]) : table[j].confidence <= table[i].confidence
          /\ Keep(c, "ready", i) /\ Goto(c, "told")
     \/ Pool(entry[c]) = {} /\ Goto(c, "meta") /\ UNCHANGED matches
  /\ UNCHANGED <<table, searches, entry, asks, searching, silent, proofs>>

ReadFails(c) ==
  /\ pc[c] = "table" /\ Goto(c, "meta")
  /\ UNCHANGED <<table, searches, matches, entry, asks, searching, silent, proofs>>

\* loadAniListMangaMetadata: an outage is kept for 15 seconds.
LoadMeta(c) ==
  /\ pc[c] = "meta"
  /\ \/ Goto(c, "look") /\ UNCHANGED matches
     \/ Goto(c, "idle") /\ UNCHANGED matches
     \/ Goto(c, "told") /\ Keep(c, "unresolved", None)
  /\ UNCHANGED <<table, searches, entry, asks, searching, silent, proofs>>

----------------------------------------------------------------------------
(* searchMangaSourceCached                                                   *)

\* prioritizeMangaSourceVerificationCandidates: one place if it says the same as
\* the best of them, else three.
Before(ns, found, p, q) ==
  LET sp == Score(Title[found[p]], ns)    sq == Score(Title[found[q]], ns)
      pp == Penalty(Title[found[p]], ns)  pq == Penalty(Title[found[q]], ns)
      lp == Len(Letters(Title[found[p]])) lq == Len(Letters(Title[found[q]]))
  IN  \/ sp > sq
      \/ sp = sq /\ pp < pq
      \/ sp = sq /\ pp = pq /\ lp < lq
      \/ sp = sq /\ pp = pq /\ lp = lq /\ p < q
Prioritized(ns, found) ==
  LET limit == IF \E p \in DOMAIN found : Score(Title[found[p]], ns) >= 98 THEN 1 ELSE 3
  IN  {p \in DOMAIN found :
         Cardinality({q \in DOMAIN found : Before(ns, found, q, p)}) < limit}

Hear(c, found) ==
  /\ heard' = [heard EXCEPT ![c] = Append(@, found)]
  /\ hits' = [hits EXCEPT ![c] = found]
  /\ left' = [left EXCEPT ![c] = Prioritized(Wanted(c), found)]
  /\ Goto(c, "judge") /\ UNCHANGED <<at, variant, failed>>
GiveUp(c) ==
  /\ heard' = [heard EXCEPT ![c] = Append(@, Lost)]
  /\ at' = [at EXCEPT ![c] = @ + 1] /\ Goto(c, "look")
  /\ UNCHANGED <<variant, failed, hits, left>>
NextVariant(c, broken) ==
  /\ variant' = [variant EXCEPT ![c] = @ + 1] /\ failed' = [failed EXCEPT ![c] = @ \/ broken]
  /\ Goto(c, "vary") /\ UNCHANGED <<at, hits, left, heard>>

Look(c) ==
  /\ pc[c] = "look" /\ at[c] <= Len(SearchNames(entry[c]))
  /\ IF searches[Query(c)] # None THEN Hear(c, searches[Query(c)])
     ELSE /\ Goto(c, "vary") /\ variant' = [variant EXCEPT ![c] = 1]
          /\ failed' = [failed EXCEPT ![c] = FALSE] /\ UNCHANGED <<at, hits, left, heard>>
  /\ UNCHANGED <<table, searches, matches, entry, best, asks, judged, accepted, silent, proofs>>

\* A variant that is known is not asked; an answer is kept for the name as well.
TryVariant(c) ==
  /\ pc[c] = "vary" /\ variant[c] <= Len(Variants(Query(c)))
  /\ LET v == Variants(Query(c))[variant[c]]
     IN  CASE searches[v] = None ->
                /\ Goto(c, "asked")
                /\ UNCHANGED <<searches, at, variant, failed, hits, left, heard>>
           [] searches[v] = <<>> -> NextVariant(c, FALSE) /\ UNCHANGED searches
           [] OTHER -> /\ searches' = [searches EXCEPT ![Query(c)] = searches[v]]
                       /\ Hear(c, searches[v])
  /\ UNCHANGED <<table, matches, entry, best, asks, judged, accepted, silent, proofs>>

Answered(c) ==
  /\ pc[c] = "asked"
  /\ LET v == Variants(Query(c))[variant[c]]
     IN  \E found \in Finds[v] :
           IF found = <<>>
             THEN /\ searches' = [searches EXCEPT ![v] = <<>>] /\ silent' = silent \cup {v}
                  /\ NextVariant(c, FALSE)
             ELSE /\ searches' = [searches EXCEPT ![v] = found, ![Query(c)] = found]
                  /\ Hear(c, found) /\ UNCHANGED silent
  /\ UNCHANGED <<table, matches, entry, best, asks, judged, accepted, proofs>>

\* An error of the first variant ends the search; of a later one, it is noted.
Broken(c) ==
  /\ pc[c] = "asked"
  /\ IF variant[c] = 1 THEN GiveUp(c) ELSE NextVariant(c, TRUE)
  /\ UNCHANGED <<table, searches, matches, entry, best, asks, judged, accepted, silent, proofs>>

EndVariants(c) ==
  /\ pc[c] = "vary" /\ variant[c] > Len(Variants(Query(c)))
  /\ IF failed[c] THEN GiveUp(c) /\ UNCHANGED searches
     ELSE searches' = [searches EXCEPT ![Query(c)] = <<>>] /\ Hear(c, <<>>)
  /\ UNCHANGED <<table, matches, entry, best, asks, judged, accepted, silent, proofs>>

----------------------------------------------------------------------------
(* The hits of a name are verified in turn.                                  *)

\* canTrustMangaSourceTitleDirectly, canStopMangaSourceResolveEarly
Trusted(i, ns) == Score(Title[i], ns) = 100 /\ Penalty(Title[i], ns) = 0
Certain(i, confidence, ns) ==
  /\ confidence >= 90
  /\ \/ Score(Title[i], ns) = 100
     \/ Score(Title[i], ns) >= 98 /\ Penalty(Title[i], ns) <= 2

\* shouldPreferMangaSourceMatch: against no match at all its title is empty.
Prefer(i, confidence, now, ns) ==
  LET mine == Title[i]
      its  == IF now.item = None THEN <<>> ELSE Title[now.item]
  IN  \/ confidence > now.confidence
      \/ /\ confidence = now.confidence
         /\ \/ Score(mine, ns) > Score(its, ns)
            \/ /\ Score(mine, ns) = Score(its, ns)
               /\ \/ Penalty(mine, ns) < Penalty(its, ns)
                  \/ /\ Penalty(mine, ns) = Penalty(its, ns)
                     /\ Len(Letters(mine)) < Len(Letters(its))

\* prioritizeMangaIdentityQueries: the names of the entry before the manga's own.
Queries(i, ns) == Capped(Distinct(ns \o Own[i]))

\* matchAniListMangaCandidates: of the entries that AniList finds, one of the best.
Matches(i, ns) ==
  LET Grades(e) == EntryScore(NamesOf[e], Queries(i, ns), <<i, e>> \in SameYear)
  IN  {r \in {<<e, Grades(e)>> : e \in Entries} : r[2] >= Confident}

\* resolveOnlineMangaIdentityWithNeedles: a row of this version, or a likely one of
\* an older, is taken as it is if the entry can be loaded.
Known(i) ==
  IF table[i] # None /\ (table[i].current \/ Plausible(i))
  THEN {<<table[i].entry, table[i].confidence>>} ELSE {}

\* The row of this version that says the same with more confidence stays.
Written(i, verdict, ns) ==
  IF /\ table[i] # None /\ table[i].entry = verdict[1]
     /\ table[i].current /\ table[i].confidence > verdict[2]
  THEN table[i]
  ELSE [entry |-> verdict[1], matched |-> BestName(NamesOf[verdict[1]], Queries(i, ns)),
        confidence |-> verdict[2], current |-> TRUE]

IsFirst(c, p) == \A q \in left[c] \ {p} : Before(Wanted(c), hits[c], p, q)
Chosen(c, item, confidence) ==
  best' = [best EXCEPT ![c] = [item |-> item, confidence |-> confidence]]
Proven(e, i) == proofs' = proofs \cup {<<e, i>>}
Pass(c, p) == left' = [left EXCEPT ![c] = @ \ {p}] /\ UNCHANGED pc
TurnDown(c, p) ==
  /\ Pass(c, p) /\ judged' = [judged EXCEPT ![c] = @ \cup {<<at[c], p>>}]
  /\ UNCHANGED <<best, accepted>>

Trust(c, item) ==
  /\ Trusted(item, Wanted(c))
  /\ Chosen(c, item, 100) /\ Proven(entry[c], item) /\ Goto(c, "finish")
  /\ UNCHANGED <<table, left, judged, accepted>>

Unresolved(c, p) ==
  /\ ~Trusted(hits[c][p], Wanted(c)) /\ TurnDown(c, p) /\ UNCHANGED <<table, proofs>>

\* A verdict for another entry, or without confidence, is turned down; one that is
\* no better than the best is passed over.
Accepts(c, verdict) == verdict[1] = entry[c] /\ verdict[2] >= Confident
Weigh(c, p, confidence) ==
  /\ accepted' = [accepted EXCEPT ![c] = @ \cup {confidence}] /\ UNCHANGED judged
  /\ IF Prefer(hits[c][p], confidence, best[c], Wanted(c))
       THEN /\ Chosen(c, hits[c][p], confidence)
            /\ IF Certain(hits[c][p], confidence, Wanted(c))
                 THEN Goto(c, "finish") /\ UNCHANGED left ELSE Pass(c, p)
       ELSE Pass(c, p) /\ UNCHANGED best

Resolved(c, p, item) ==
  /\ ~Trusted(item, Wanted(c))
  /\ \E verdict \in Known(item) \cup Matches(item, Wanted(c)) :
       /\ Proven(verdict[1], item)
       /\ \/ verdict \in Known(item) /\ UNCHANGED table
          \/ /\ verdict \in Matches(item, Wanted(c))
             /\ table' = [table EXCEPT ![item] = Written(item, verdict, Wanted(c))]
       /\ IF Accepts(c, verdict) THEN Weigh(c, p, verdict[2]) ELSE TurnDown(c, p)

Judge(c) ==
  /\ pc[c] = "judge"
  /\ \E p \in left[c] :
       IsFirst(c, p) /\ (Trust(c, hits[c][p]) \/ Unresolved(c, p) \/ Resolved(c, p, hits[c][p]))
  /\ UNCHANGED <<searches, matches, entry, at, variant, failed, hits, asks, heard, silent>>

NextName(c) ==
  /\ pc[c] = "judge" /\ left[c] = {}
  /\ at' = [at EXCEPT ![c] = @ + 1] /\ Goto(c, "look")
  /\ UNCHANGED <<table, searches, matches, entry, variant, failed, hits, left, best, asks,
                 heard, judged, accepted, silent, proofs>>

Finish(c) ==
  /\ \/ pc[c] = "finish"
     \/ pc[c] = "look" /\ at[c] > Len(SearchNames(entry[c]))
  /\ Keep(c, IF best[c] = NoMatch THEN "not_found" ELSE "ready", best[c].item)
  /\ Goto(c, "done")
  /\ UNCHANGED <<table, searches, entry, asks, searching, silent, proofs>>

\* Answers are kept for 10 minutes, matches for 15; a miss for 20 seconds.
Forget ==
  /\ \/ \E q \in Titles : searches' = [searches EXCEPT ![q] = None] /\ UNCHANGED matches
     \/ \E e \in Entries : matches' = [matches EXCEPT ![e] = None] /\ UNCHANGED searches
  /\ UNCHANGED <<table, pc, entry, asks, searching, silent, proofs>>

Next ==
  \/ \E c \in Calls :
       \/ \E e \in Entries : Ask(c, e)
       \/ ReadTable(c) \/ ReadFails(c) \/ LoadMeta(c) \/ Look(c) \/ TryVariant(c)
       \/ Answered(c) \/ Broken(c) \/ EndVariants(c) \/ Judge(c) \/ NextName(c) \/ Finish(c)
  \/ Forget

Spec == Init /\ [][Next]_vars

----------------------------------------------------------------------------
(* manga_identity.go 1480-1600, 935-1005: "not found" means that the source was
   asked for every name, or could not be, and that each hit worth a look was turned
   down; and what could not be asked is not kept as a search without results. *)
NothingIsLeftUntried ==
  /\ \A c \in Calls : pc[c] = "done" /\ best[c] = NoMatch =>
       /\ Len(heard[c]) = Len(SearchNames(entry[c])) /\ accepted[c] = {}
       /\ \A n \in DOMAIN heard[c] : heard[c][n] # Lost =>
            \A p \in Prioritized(Needles(entry[c], SearchNames(entry[c])[n]), heard[c][n]) :
              <<n, p>> \in judged[c]
  /\ \A q \in Titles : searches[q] = <<>> => q \in silent

(* manga_identity.go 1384-1420, 1494-1620: whatever calls run beside each other, the
   match that is kept for an entry was found to be that entry, and of what a call
   accepted it is the best, or has the very title of the entry. *)
BestMatchIsKept ==
  /\ \A e \in Entries : matches[e] # None /\ matches[e].status = "ready"
                          => <<e, matches[e].item>> \in proofs
  /\ \A c \in Calls : pc[c] = "done" =>
       \/ \A confidence \in accepted[c] : confidence <= best[c].confidence
       \/ \E n \in DOMAIN heard[c] :
            Trusted(best[c].item, Needles(entry[c], SearchNames(entry[c])[n]))
=============================================================================
