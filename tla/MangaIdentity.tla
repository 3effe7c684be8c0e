--------------------------- MODULE MangaIdentity ---------------------------
(***************************************************************************)
(* Which AniList entry a manga of a source is: the table of mappings, the  *)
(* calls that look one up or work one out, and the reading history that    *)
(* takes its ids from them.  How titles are compared is the outcome of     *)
(* MatchTitles.  A generation is a version of the matching rules: the      *)
(* mappings the program finds at its start may be an older one's.          *)
(***************************************************************************)
EXTENDS Naturals

CONSTANTS
  Manga,      \* manga of sources
  Ids,        \* AniList entries
  Chapters,
  Of,         \* Of[c]: the manga of a chapter
  Tasks,      \* calls under way at a time
  Confidence, \* levels of a match, numbers
  MaxCalls,   \* bound: calls in all
  None

VARIABLES
  mapping,  \* mapping[m]: table online_manga_source_map
  recent,   \* manga whose mapping was written in the last five minutes
  memory,   \* memory[m]: the answer kept in memory: an id, "unresolved" or None
  history,  \* history[c]: table online_manga_history
  job,
  calls,
  blind     \* history: calls that are past the table, in which a mapping of their
            \* manga has been verified since

vars == <<mapping, recent, memory, history, job, calls, blind>>

\* id None: looked up, and not found.  Whether the titles look alike is only
\* asked of an older generation's mapping.
Mappings ==
  [id : Ids, confidence : Confidence, current : {TRUE}, plausible : {TRUE}]
  \cup [id : Ids, confidence : Confidence, current : {FALSE}, plausible : BOOLEAN]
  \cup [id : {None}, confidence : {0}, current : BOOLEAN, plausible : {FALSE}]
Rows     == [id : Ids \cup {None}, completed : BOOLEAN]
Idle     == [pc |-> "idle", manga |-> None, chapter |-> None, needles |-> FALSE,
             existing |-> None, throttled |-> FALSE, match |-> None]

MangaIdentityAssumption ==
  /\ MaxCalls \in Nat /\ Of \in [Chapters -> Manga]
  /\ None \notin Ids \cup Manga \cup Chapters \cup Mappings \cup Rows

Known(r)   == r # None /\ r.id # None
Current(r) == r # None /\ r.current

Init ==
  /\ mapping \in [Manga -> Mappings \cup {None}]
  /\ recent = {}
  /\ memory = [m \in Manga |-> None]
  /\ history = [c \in Chapters |-> None]
  /\ job = [t \in Tasks |-> Idle]
  /\ calls = 0
  /\ blind = {}

At(t, pc)    == job[t].pc = pc
Become(t, j) == job' = [job EXCEPT ![t] = j]
Goto(t, pc)  == Become(t, [job[t] EXCEPT !.pc = pc])
Row(t)       == mapping[job[t].manga]
tables       == <<mapping, recent, history>>

\* resolveOnlineMangaIdentityWithNeedles returns id.
Found(t, id) == Become(t, [job[t] EXCEPT !.existing = None, !.throttled = FALSE,
                                         !.match = id, !.pc = "found"])

----------------------------------------------------------------------------
\* resolveOnlineMangaIdentity, for a search result, a page or a chapter that is
\* being read.  The years a manga is looked up with have answers of their own.
Resolve(t, m, c) ==
  /\ At(t, "idle") /\ calls < MaxCalls
  /\ calls' = calls + 1
  /\ LET j == [Idle EXCEPT !.manga = m, !.chapter = c]
     IN  \/ Become(t, [j EXCEPT !.pc = "current"])
         \/ /\ memory[m] # None
            /\ Become(t, [j EXCEPT !.pc = "answer",
                            !.match = IF memory[m] = "unresolved" THEN None ELSE memory[m]])
  /\ blind' = blind \ {t}
  /\ UNCHANGED <<tables, memory>>

\* ResolveMangaSourceForAniList verifies one hit of its search after the other.
Verify(t, m) ==
  /\ At(t, "idle") /\ calls < MaxCalls
  /\ calls' = calls + 1
  /\ Become(t, [Idle EXCEPT !.manga = m, !.needles = TRUE, !.pc = "current"])
  /\ blind' = blind \ {t}
  /\ UNCHANGED <<tables, memory>>

\* The mapping of this generation.
ReadCurrent(t) ==
  /\ At(t, "current")
  /\ LET r         == Row(t)
         throttled == ~job[t].needles /\ job[t].manga \in recent
     IN  \/ /\ ~Current(r)
            /\ Goto(t, "any")
         \/ /\ Current(r) /\ Known(r)
            /\ Become(t, [job[t] EXCEPT !.existing = r, !.throttled = throttled,
                                        !.pc = "meta"])
         \/ /\ Current(r) /\ ~Known(r)
            /\ IF throttled THEN Found(t, None) ELSE Goto(t, "any")
  /\ UNCHANGED <<tables, memory, calls, blind>>

\* The entry of a mapping, from the cache or from AniList, if it can be had; or
\* the mapping is too young for another try.
LoadMeta(t) ==
  /\ At(t, "meta")
  /\ \/ Found(t, job[t].existing.id)
     \/ job[t].throttled /\ Found(t, None)
     \/ Goto(t, IF job[t].existing.current THEN "any" ELSE "match")
  /\ UNCHANGED <<tables, memory, calls, blind>>

\* The mapping of any generation.
ReadAny(t) ==
  /\ At(t, "any")
  /\ LET r == Row(t)
     IN  Become(t, [job[t] EXCEPT !.existing = r, !.throttled = FALSE,
                      !.pc = IF Known(r) /\ ~r.current /\ r.plausible
                             THEN "meta" ELSE "match"])
  /\ UNCHANGED <<tables, memory, calls, blind>>

\* Mutant: what was not found is noted whatever was there.
NoteAlways(t) == ~job[t].needles

\* "Do not let a transient unresolved lookup wipe out an older verified mapping".
NoteUnresolved(t) == ~job[t].needles /\ ~Known(job[t].existing)

\* A match that is the one there is, and a weaker one, is not stored.
Persists(old, new) ==
  ~(Known(old) /\ Current(old) /\ old.id = new.id /\ old.confidence > new.confidence)

MatchTitles(t) ==
  /\ At(t, "match")
  /\ \E r \in {x \in Mappings : x.current} :
       IF IF r.id = None THEN NoteUnresolved(t) ELSE Persists(job[t].existing, r)
       THEN Become(t, [job[t] EXCEPT !.match = r, !.pc = "store"])
       ELSE Found(t, r.id)
  /\ UNCHANGED <<tables, memory, calls, blind>>

\* UpsertOnlineMangaSourceMap
Store(t) ==
  /\ At(t, "store")
  /\ mapping' = [mapping EXCEPT ![job[t].manga] = job[t].match]
  /\ recent' = recent \cup {job[t].manga}
  /\ Found(t, job[t].match.id)
  /\ blind' = IF Known(Row(t)) \/ job[t].match.id = None THEN blind
              ELSE blind \cup {s \in Tasks : /\ job[s].manga = job[t].manga
                                           /\ job[s].pc \in {"match", "store"}}
  /\ UNCHANGED <<memory, history, calls>>

\* resolveOnlineMangaIdentity keeps the answer, for a while.
Remember(t) ==
  /\ At(t, "found")
  /\ IF job[t].needles
     THEN Become(t, Idle) /\ UNCHANGED memory
     ELSE /\ \/ UNCHANGED memory
             \/ memory' = [memory EXCEPT ![job[t].manga] =
                  IF job[t].match = None THEN "unresolved" ELSE job[t].match]
          /\ Goto(t, "answer")
  /\ UNCHANGED <<tables, calls, blind>>

----------------------------------------------------------------------------
\* Mutant: the row of a chapter is replaced.
Reread(old, id) == [id |-> id, completed |-> FALSE]

\* RecordOnlineMangaRead: opening a chapter again does not undo its end.
Recorded(old, id) == [id |-> id, completed |-> old # None /\ old.completed]

\* The answer goes to a page, or into the history.
Answer(t) ==
  /\ At(t, "answer")
  /\ LET c == job[t].chapter
     IN  IF c = None THEN Become(t, Idle) /\ UNCHANGED history
         ELSE /\ history' = [history EXCEPT ![c] = Recorded(@, job[t].match)]
              /\ IF job[t].match = None THEN Become(t, Idle) ELSE Goto(t, "promote")
  /\ UNCHANGED <<mapping, recent, memory, calls, blind>>

\* PromoteOnlineMangaHistoryIdentity: all chapters of the manga.
Promote(t) ==
  /\ At(t, "promote")
  /\ history' = [c \in Chapters |->
       IF history[c] # None /\ Of[c] = job[t].manga
       THEN [history[c] EXCEPT !.id = job[t].match] ELSE history[c]]
  /\ Become(t, Idle)
  /\ UNCHANGED <<mapping, recent, memory, calls, blind>>

\* MarkMangaChapterCompleted: nothing, if the chapter is not recorded yet.
MarkCompleted(c) ==
  /\ history[c] # None
  /\ history' = [history EXCEPT ![c].completed = TRUE]
  /\ UNCHANGED <<mapping, recent, memory, job, calls, blind>>

\* Five minutes go by, and an answer in memory expires.
Age(m) ==
  /\ m \in recent
  /\ recent' = recent \ {m}
  /\ UNCHANGED <<mapping, memory, history, job, calls, blind>>

Forget(m) ==
  /\ memory[m] # None
  /\ memory' = [memory EXCEPT ![m] = None]
  /\ UNCHANGED <<mapping, recent, history, job, calls, blind>>

Next ==
  \/ \E t \in Tasks, m \in Manga : \/ Verify(t, m)
                                   \/ Resolve(t, m, None)
                                   \/ \E c \in Chapters : Of[c] = m /\ Resolve(t, m, c)
  \/ \E t \in Tasks : \/ ReadCurrent(t) \/ LoadMeta(t) \/ ReadAny(t) \/ MatchTitles(t)
                      \/ Store(t) \/ Remember(t) \/ Answer(t) \/ Promote(t)
  \/ \E c \in Chapters : MarkCompleted(c)
  \/ \E m \in Manga : Age(m) \/ Forget(m)

Spec == Init /\ [][Next]_vars

----------------------------------------------------------------------------
TypeOK ==
  /\ mapping \in [Manga -> Mappings \cup {None}]
  /\ recent \subseteq {m \in Manga : mapping[m] # None /\ mapping[m].current}
  /\ memory \in [Manga -> Ids \cup {"unresolved", None}]
  /\ history \in [Chapters -> Rows \cup {None}]

(* manga_identity.go 272-273: "Do not let a transient unresolved lookup wipe
   out an older verified mapping from a previous resolver generation": whatever
   lookups overlap, a mapping that is verified, of whatever generation, is taken
   away only by a lookup that had looked into the table before it was; and of an
   older generation's none is, for no lookup has looked before the start.
   db/online_manga.go 218-221: and a chapter read to its end stays read, however
   often and under whatever id it is opened again. *)
MangaKnowledgeIsKept ==
  [][/\ \A m \in Manga : Known(mapping[m]) /\ ~Known(mapping'[m]) =>
          \E t \in blind : At(t, "store") /\ job[t].manga = m /\ job'[t] # job[t]
     /\ \A c \in Chapters : history[c] # None /\ history[c].completed =>
          history'[c] # None /\ history'[c].completed]_vars
=============================================================================
