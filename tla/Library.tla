------------------------------ MODULE Library ------------------------------
(***************************************************************************)
(* The local library: scans of a folder, imports of a finished download,   *)
(* the repair at startup and the views, over one SQLite database.          *)
(*                                                                         *)
(* Every statement is a step, and the database has one connection: an open *)
(* cursor keeps it, and every other statement waits (conn).  The queries   *)
(* of one search for an existing entry are a single step; so are the two   *)
(* statements of an insertion and of a change of path.                     *)
(***************************************************************************)
EXTENDS Naturals, Sequences, SequencesExt, FiniteSets, FiniteSetsExt

CONSTANTS
  Tasks,       \* calls, each made at most once by one run of the program
  Kind,        \* Kind[t]: "scan", "import", "animes", "mangas", "detail", "repair"
  FilesOf,     \* FilesOf[t]: the files of a scan, or the one of an import, in order
  Dir,         \* Dir[f]: the folder of a file
  Root,        \* Root[t][f]: the folder t takes to be the show's
  Videos,      \* 1 .. n, in the order of their paths
  Archives,    \* manga files
  Parsed,      \* Parsed[f]: the number in the file's name, 0 if there is none
  Hints,       \* Hints[f]: titles the file's path suggests, the strongest first
  Match,       \* Match[h]: the show AniList or MangaDex finds for a title, or None
  Names,       \* Names[s]: titles of a show
  Seasonal,    \* titles that name a season
  WeakFolders, \* folder names that say nothing, such as "OVA"
  MaxAnime,    \* bound: entries ever created
  MaxRestarts, \* bound: ends of the process
  None

Files   == Videos \cup Archives
Ids     == 1 .. MaxAnime
Folders == {Dir[f] : f \in Files}
Titles  == DOMAIN Match
Shows   == DOMAIN Names

EntryType == [path : UNION {Prefixes(d) : d \in Folders}, show : Shows \cup {None},
              titles : SUBSET Titles, cover : BOOLEAN, blurhash : BOOLEAN]
RowType   == [anime : Ids, num : Nat, watched : BOOLEAN]
MangaType == [matched : BOOLEAN, cover : BOOLEAN, blurhash : BOOLEAN]

LibraryAssumption ==
  /\ IsFiniteSet(Videos) /\ Videos \subseteq Nat /\ Videos \cap Archives = {}
  /\ Parsed \in [Videos -> Nat]
  /\ MaxAnime \in Nat /\ MaxRestarts \in Nat
  /\ None \notin Tasks \cup Ids /\ None \notin EntryType
  /\ None \notin RowType /\ None \notin MangaType
  /\ \A t, u \in Tasks : Kind[t] = "repair" /\ Kind[u] = "repair" => t = u
  /\ FilesOf \in [Tasks -> Seq(Files)]
  /\ \A f \in Files : Dir[f] \in Seq(ToSet(Dir[f]))
  /\ \A t \in Tasks, f \in Files : Root[t][f] \in Prefixes(Dir[f])
  /\ \A t \in Tasks : Kind[t] = "import" =>
       \A f \in ToSet(FilesOf[t]) : Root[t][f] = Dir[f]
  /\ \A f \in Files : Hints[f] \in Seq(Titles) /\ Hints[f] # <<>>
  /\ \A h \in Titles : Match[h] \in Shows \cup {None}
  /\ \A s \in Shows : Names[s] \subseteq Titles

VARIABLES
  anime,      \* anime[i]: table anime; ids are never used again
  episodes,   \* episodes[f]: table episodes, file_path is its key
  manga,      \* manga[d]: table manga, local_path is its key
  chapters,   \* table chapters: files
  nextId,
  conn,       \* the task whose cursor keeps the connection
  job,        \* job[t]: where a call is, and what it has in hand
  restarts,
  unsettled   \* history: entries whose rows were disturbed since they were numbered

vars == <<anime, episodes, manga, chapters, nextId, conn, job, restarts, unsettled>>

Entry   == [path |-> None, show |-> None, titles |-> {}, cover |-> FALSE,
            blurhash |-> FALSE]
Idle    == [pc |-> "idle", files |-> <<>>, hints |-> <<>>, target |-> None,
            seen |-> {}, queue |-> {}, writes |-> {}]

Init ==
  /\ anime = [i \in Ids |-> None]
  /\ episodes = [f \in Videos |-> None]
  /\ manga = [d \in Folders |-> None]
  /\ chapters = {}
  /\ nextId = 1
  /\ conn = None
  /\ job = [t \in Tasks |-> Idle]
  /\ restarts = 0
  /\ unsettled = {}

tables == <<anime, episodes, manga, chapters, nextId>>

Entries        == {i \in Ids : anime[i] # None}
EpisodesOf(i)  == {f \in Videos : episodes[f] # None /\ episodes[f].anime = i}
Holders(f)     == {i \in Ids : f \in EpisodesOf(i)}
File(t)        == Head(job[t].files)
Became(t, j)   == job' = [job EXCEPT ![t] = j]
Goto(t, pc)    == Became(t, [job[t] EXCEPT !.pc = pc])
At(t, pc)      == job[t].pc = pc /\ conn = None
Over(t)        == job[t].pc \in {"idle", "done"}

\* The entries a task is about to number, and those it is writing the numbers of.
Numbers(t)     == {s[1] : s \in job[t].seen}
                    \ IF job[t].pc \in {"write", "enrich"} THEN {job[t].target} ELSE {}
Writing(t)     == IF job[t].pc = "write" THEN {job[t].target} ELSE {}
OtherWrites(t) == UNION {Writing(u) : u \in Tasks \ {t}}

----------------------------------------------------------------------------
(* Folders: sequences of names.                                            *)

\* chooseAnimeRootPath
ChooseRoot(current, candidate, title) ==
  LET parent == Front(current)
  IN  IF IsPrefix(candidate, current) THEN candidate
      ELSE IF IsPrefix(current, candidate) THEN current
      ELSE IF /\ parent = Front(candidate)
              /\ \/ {Last(current), Last(candidate)} \cap WeakFolders # {}
                 \/ parent # <<>> /\ Last(parent) = title
      THEN parent ELSE current

\* promoteAnimeRootPath; local_path is unique, and a clash is ignored.
Promote(i, candidate, title) ==
  LET next == ChooseRoot(anime[i].path, candidate, title)
  IN  IF \E k \in Entries \ {i} : anime[k].path = next
      THEN anime
      ELSE [anime EXCEPT ![i].path = next]

\* deriveAnimeRootPath: the folder that holds all the episodes' folders.
DeriveRoot(local, dirs) ==
  LET common == LongestCommonPrefix(dirs)
  IN  IF common = <<>> \/ (IsPrefix(local, common) /\ local # common)
      THEN local ELSE common

----------------------------------------------------------------------------
(* A call begins.  The repair comes first, before anything else can.       *)

Repairs == {t \in Tasks : Kind[t] = "repair"}
Started == \A t \in Repairs : job[t].pc = "done"

Begin(t) ==
  /\ At(t, "idle")
  /\ Kind[t] # "repair" => Started
  /\ \/ /\ Kind[t] \in {"scan", "import"}
        /\ Became(t, [Idle EXCEPT !.pc = "walk", !.files = FilesOf[t]])
        /\ UNCHANGED conn
     \/ /\ Kind[t] = "repair"
        /\ Became(t, [Idle EXCEPT !.pc = "root", !.queue = Entries])
        /\ UNCHANGED conn
     \/ /\ Kind[t] = "animes"
        /\ Became(t, [Idle EXCEPT !.pc = "rows", !.queue = Entries])
        /\ conn' = t
     \/ /\ Kind[t] = "mangas"
        /\ Became(t, [Idle EXCEPT !.pc = "rows",
                        !.queue = {d \in Folders : manga[d] # None}])
        /\ conn' = t
     \/ /\ Kind[t] = "detail"
        /\ \E i \in Entries : Became(t, [Idle EXCEPT !.pc = "rows", !.queue = {i}])
        /\ UNCHANGED conn
  /\ UNCHANGED <<tables, restarts, unsettled>>

\* WalkDir: the next file, or the end of the walk.
Walk(t) ==
  /\ At(t, "walk")
  /\ Goto(t, IF job[t].files = <<>> THEN "finish"
             ELSE IF File(t) \in Archives THEN "chapter" ELSE "lookup")
  /\ UNCHANGED <<tables, conn, restarts, unsettled>>

----------------------------------------------------------------------------
(* indexAnimeFileWithHint: the entry of a file, then its episode.          *)

Resolve(t, i, pc) == Became(t, [job[t] EXCEPT !.target = i, !.pc = pc])

Lookup(t) ==
  /\ At(t, "lookup")
  /\ \/ \E i \in Entries : /\ anime[i].path = Root[t][File(t)]
                           /\ Resolve(t, i, "upsert")
     \/ /\ \A i \in Entries : anime[i].path # Root[t][File(t)]
        /\ Became(t, [job[t] EXCEPT !.hints = Hints[File(t)], !.pc = "hint"])
  /\ UNCHANGED <<tables, conn, restarts, unsettled>>

ByTitle(titles) == {i \in Entries : anime[i].titles \cap titles # {}}

\* findExistingAnimeID, with the show the title was matched to, if it was.
Existing(h, show) ==
  LET same == {i \in Entries : show # None /\ anime[i].show = show}
  IN  IF same # {} THEN same
      ELSE IF h \in Seasonal THEN {}
      ELSE ByTitle({h} \cup IF show = None THEN {} ELSE Names[show])

FindExisting(t) ==
  /\ At(t, "hint")
  /\ job[t].hints # <<>>
  /\ LET h == Head(job[t].hints)
     IN  \E show \in {Match[h], None} :
           \/ \E i \in Existing(h, show) : Resolve(t, i, "promote")
           \/ /\ Existing(h, show) = {}
              /\ Became(t, [job[t] EXCEPT !.hints = Tail(@)])
  /\ UNCHANGED <<tables, conn, restarts, unsettled>>

PromoteRoot(t) ==
  /\ At(t, "promote")
  /\ anime' = IF job[t].target \notin Entries THEN anime
              ELSE Promote(job[t].target, Root[t][File(t)], Hints[File(t)][1])
  /\ Goto(t, "upsert")
  /\ UNCHANGED <<episodes, manga, chapters, nextId, conn, restarts, unsettled>>

\* INSERT OR IGNORE, and the id by the path.
Insert(t) ==
  /\ At(t, "hint")
  /\ job[t].hints = <<>>
  /\ LET path == Root[t][File(t)]
     IN  \/ \E i \in Entries : /\ anime[i].path = path
                               /\ Resolve(t, i, "upsert")
                               /\ UNCHANGED <<anime, nextId>>
         \/ /\ \A i \in Entries : anime[i].path # path
            /\ nextId <= MaxAnime
            /\ anime' = [anime EXCEPT ![nextId] =
                 [Entry EXCEPT !.path = path, !.titles = {Hints[File(t)][1]}]]
            /\ nextId' = nextId + 1
            /\ Resolve(t, nextId, "upsert")
  /\ UNCHANGED <<episodes, manga, chapters, conn, restarts, unsettled>>

\* Mutant: INSERT OR REPLACE.
UpsertReplacing(i, f) ==
  [episodes EXCEPT ![f] = [anime |-> i, num |-> Parsed[f], watched |-> FALSE]]

Upsert(i, f) ==
  [episodes EXCEPT ![f] = [anime |-> i, num |-> Parsed[f],
                           watched |-> @ # None /\ @.watched]]

\* The foreign key refuses an entry that was deleted meanwhile: a scan goes on
\* with the next file, an import has failed.
UpsertEpisode(t) ==
  /\ At(t, "upsert")
  /\ LET i == job[t].target
         j == [job[t] EXCEPT !.target = None, !.hints = <<>>]
     IN  \/ /\ i \in Entries
            /\ episodes' = Upsert(i, File(t))
            /\ unsettled' = unsettled \cup ({i} \cap OtherWrites(t))
                               \cup (Holders(File(t)) \ {i})
            /\ Became(t, [j EXCEPT !.files = Tail(@), !.seen = @ \cup {<<i, File(t)>>},
                            !.pc = IF Kind[t] = "import" THEN "defaults" ELSE "walk"])
         \/ /\ i \notin Entries
            /\ Became(t, [j EXCEPT !.files = Tail(@),
                            !.pc = IF Kind[t] = "import" THEN "done" ELSE "walk"])
            /\ UNCHANGED <<episodes, unsettled>>
  /\ UNCHANGED <<anime, manga, chapters, nextId, conn, restarts>>

\* applyDownloadedAnimeDefaults: the download's title, and its cover if it has one.
ApplyDefaults(t) ==
  /\ At(t, "defaults")
  /\ \E s \in job[t].seen, cover \in BOOLEAN :
       anime' = IF s[1] \notin Entries THEN anime
                ELSE [anime EXCEPT ![s[1]].titles = {Hints[s[2]][1]},
                                   ![s[1]].cover = @ \/ cover]
  /\ Goto(t, "finish")
  /\ UNCHANGED <<episodes, manga, chapters, nextId, conn, restarts, unsettled>>

\* indexMangaFile
IndexMangaFile(t) ==
  /\ At(t, "chapter")
  /\ LET dir == Dir[File(t)]
     IN  manga' = [manga EXCEPT ![dir] =
           IF @ # None THEN @
           ELSE [matched |-> FALSE, cover |-> FALSE, blurhash |-> FALSE]]
  /\ chapters' = chapters \cup {File(t)}
  /\ Became(t, [job[t] EXCEPT !.files = Tail(@), !.pc = "walk"])
  /\ UNCHANGED <<anime, episodes, nextId, conn, restarts, unsettled>>

----------------------------------------------------------------------------
(* normalizeAnimeEpisodeNumbers: reads the rows, then writes one by one.   *)

Distinct(items) == {episodes[f].num : f \in items} \ {0}

\* Mutant: only episodes without any number are numbered.
ShouldRenumberZeros(items) == Cardinality(items) > 1 /\ Distinct(items) = {}

ShouldRenumber(items) ==
  Cardinality(items) > 1 /\ Cardinality(Distinct(items)) <= 1

Renumbered(i) ==
  LET items    == EpisodesOf(i)
      place(f) == Cardinality({g \in items : g <= f})
  IN  IF ~ShouldRenumber(items) THEN {}
      ELSE {<<f, place(f)>> : f \in {g \in items : episodes[g].num # place(g)}}

\* The entry is settled from here on, unless another task writes its numbers too.
Settle(t, i) ==
  unsettled' = IF i \in OtherWrites(t) THEN unsettled \cup {i} ELSE unsettled \ {i}

\* Scan and ImportDownloadedAnime: the entries seen, one after the other; then
\* a scan goes on to the entries without a match.
Finish(t) ==
  /\ At(t, "finish")
  /\ \/ \E s \in job[t].seen :
          /\ Became(t, [job[t] EXCEPT !.target = s[1], !.writes = Renumbered(s[1]),
                                      !.pc = "write"])
          /\ Settle(t, s[1])
     \/ /\ job[t].seen = {}
        /\ Became(t, IF Kind[t] = "import" THEN [Idle EXCEPT !.pc = "done"]
                     ELSE [Idle EXCEPT !.pc = "unmatched",
                             !.queue = {u \in Entries \X Titles :
                               anime[u[1]].show = None /\ anime[u[1]].titles = {u[2]}}])
        /\ UNCHANGED unsettled
  /\ UNCHANGED <<tables, conn, restarts>>

\* UPDATE episodes ... WHERE id = ?, in the order of the paths.
WriteNumber(t) ==
  /\ At(t, "write")
  /\ \E w \in job[t].writes :
       /\ \A x \in job[t].writes : w[1] <= x[1]
       /\ episodes' = [episodes EXCEPT ![w[1]].num = w[2]]
       /\ Became(t, [job[t] EXCEPT !.writes = @ \ {w}])
       /\ unsettled' = unsettled \cup (Holders(w[1]) \ {job[t].target})
  /\ UNCHANGED <<anime, manga, chapters, nextId, conn, restarts>>

Normalized(t) ==
  /\ At(t, "write")
  /\ job[t].writes = {}
  /\ IF Kind[t] = "repair"
     THEN Became(t, [job[t] EXCEPT !.target = None, !.pc = "root"])
     ELSE Goto(t, "enrich")
  /\ UNCHANGED <<tables, conn, restarts, unsettled>>

\* RepairAnimeLibraryState: one entry, its folder and then its numbers.
Repair(t) ==
  /\ At(t, "root")
  /\ \/ /\ job[t].queue # {}
        /\ LET i    == Min(job[t].queue)
               dirs == {Dir[f] : f \in EpisodesOf(i)}
           IN  /\ anime' = IF dirs = {} THEN anime
                           ELSE Promote(i, DeriveRoot(anime[i].path, dirs), None)
               /\ Became(t, [job[t] EXCEPT !.queue = @ \ {i}, !.target = i,
                               !.writes = Renumbered(i), !.pc = "write"])
               /\ Settle(t, i)
     \/ /\ job[t].queue = {}
        /\ Goto(t, "done")
        /\ UNCHANGED <<anime, unsettled>>
  /\ UNCHANGED <<episodes, manga, chapters, nextId, conn, restarts>>

----------------------------------------------------------------------------
(* Metadata: a lookup, and the whole entry rewritten.                      *)

\* A cover comes with a blurhash if the picture could be loaded.
Enriched(i, show, hashed) ==
  IF show = None \/ i \notin Entries THEN anime
  ELSE [anime EXCEPT ![i].show = show, ![i].titles = Names[show],
                     ![i].cover = TRUE, ![i].blurhash = hashed]

\* enrichAnimeByHints, with the hints of the files the entry was seen with.
Enrich(t) ==
  /\ At(t, "enrich")
  /\ LET i    == job[t].target
         seen == {s \in job[t].seen : s[1] = i}
     IN  /\ \E h \in UNION {ToSet(Hints[s[2]]) : s \in seen}, hashed \in BOOLEAN :
              \E show \in {Match[h], None} : anime' = Enriched(i, show, hashed)
         /\ Became(t, [job[t] EXCEPT !.seen = @ \ seen, !.target = None, !.pc = "finish"])
  /\ UNCHANGED <<episodes, manga, chapters, nextId, conn, restarts, unsettled>>

\* enrichUnmatchedAnime, by the titles read when it began.
EnrichUnmatchedAnime(t) ==
  /\ At(t, "unmatched")
  /\ \/ \E u \in job[t].queue, hashed \in BOOLEAN :
          /\ \E show \in {Match[u[2]], None} : anime' = Enriched(u[1], show, hashed)
          /\ Became(t, [job[t] EXCEPT !.queue = @ \ {u}])
     \/ /\ job[t].queue = {}
        /\ Became(t, [job[t] EXCEPT !.pc = "mangas",
                        !.queue = {d \in Folders : manga[d] # None /\ ~manga[d].matched}])
        /\ UNCHANGED anime
  /\ UNCHANGED <<episodes, manga, chapters, nextId, conn, restarts, unsettled>>

EnrichUnmatchedManga(t) ==
  /\ At(t, "mangas")
  /\ \/ \E d \in job[t].queue :
          /\ \E hashed, matched \in BOOLEAN :
               manga' = IF ~matched THEN manga
                        ELSE [manga EXCEPT ![d] = [matched |-> TRUE, cover |-> TRUE,
                                                   blurhash |-> hashed]]
          /\ Became(t, [job[t] EXCEPT !.queue = @ \ {d}])
     \/ /\ job[t].queue = {}
        /\ Goto(t, "done")
        /\ UNCHANGED manga
  /\ UNCHANGED <<anime, episodes, chapters, nextId, conn, restarts, unsettled>>

----------------------------------------------------------------------------
(* GetAnimeList, GetMangaList: a row at a time, the cursor open meanwhile;  *)
(* GetAnimeByID: one row, and no cursor.                                   *)

Row(t, x) == IF Kind[t] = "mangas" THEN manga[x] ELSE anime[x]

\* ensureBlurhash: a picture is loaded for a cover that has no hash.
ReadRow(t) ==
  /\ job[t].pc = "rows"
  /\ conn \in {t, None}
  /\ \E x \in job[t].queue :
       LET j == [job[t] EXCEPT !.queue = @ \ {x}]
       IN  \/ Became(t, j)
           \/ /\ Row(t, x) # None
              /\ Row(t, x).cover /\ ~Row(t, x).blurhash
              /\ Became(t, [j EXCEPT !.target = x, !.pc = "hash"])
  /\ UNCHANGED <<tables, conn, restarts, unsettled>>

\* UPDATE ... SET cover_blurhash: a statement, which needs a connection.
SaveBlurhash(t) ==
  /\ At(t, "hash")
  /\ LET x == job[t].target
     IN  IF Kind[t] = "mangas"
         THEN manga' = [manga EXCEPT ![x].blurhash = TRUE] /\ UNCHANGED anime
         ELSE /\ anime' = IF x \in Entries THEN [anime EXCEPT ![x].blurhash = TRUE]
                          ELSE anime
              /\ UNCHANGED manga
  /\ Became(t, [job[t] EXCEPT !.target = None, !.pc = "rows"])
  /\ UNCHANGED <<episodes, chapters, nextId, conn, restarts, unsettled>>

EndRows(t) ==
  /\ job[t].pc = "rows"
  /\ job[t].queue = {}
  /\ conn \in {t, None}
  /\ conn' = None
  /\ Goto(t, "done")
  /\ UNCHANGED <<tables, restarts, unsettled>>

----------------------------------------------------------------------------
(* DeleteAnimeByID, MarkWatched, and the end of the process.               *)

\* ON DELETE CASCADE
Remaining(i) == [f \in Videos |-> IF f \in EpisodesOf(i) THEN None ELSE episodes[f]]

\* The episodes go with the entry; writes to their rows find nothing.
DeleteAnime(i) ==
  /\ i \in Entries /\ conn = None /\ Started
  /\ anime' = [anime EXCEPT ![i] = None]
  /\ episodes' = Remaining(i)
  /\ job' = [t \in Tasks |-> [job[t] EXCEPT !.writes =
               {w \in @ : w[1] \notin EpisodesOf(i)}]]
  /\ UNCHANGED <<manga, chapters, nextId, conn, restarts, unsettled>>

MarkWatched(f) ==
  /\ episodes[f] # None /\ conn = None /\ Started
  /\ episodes' = [episodes EXCEPT ![f].watched = TRUE]
  /\ UNCHANGED <<anime, manga, chapters, nextId, conn, job, restarts, unsettled>>

Restart ==
  /\ restarts < MaxRestarts
  /\ restarts' = restarts + 1
  /\ conn' = None
  /\ job' = [t \in Tasks |-> Idle]
  /\ unsettled' = unsettled \cup UNION {Numbers(t) \cup Writing(t) : t \in Tasks}
  /\ UNCHANGED tables

----------------------------------------------------------------------------
Step(t) ==
  \/ Walk(t) \/ Lookup(t) \/ FindExisting(t) \/ PromoteRoot(t) \/ Insert(t)
  \/ UpsertEpisode(t) \/ ApplyDefaults(t) \/ IndexMangaFile(t)
  \/ Finish(t) \/ WriteNumber(t) \/ Normalized(t) \/ Repair(t)
  \/ Enrich(t) \/ EnrichUnmatchedAnime(t) \/ EnrichUnmatchedManga(t)
  \/ ReadRow(t) \/ SaveBlurhash(t) \/ EndRows(t)

Next ==
  \/ \E t \in Tasks : Begin(t) \/ Step(t)
  \/ \E i \in Ids : DeleteAnime(i)
  \/ \E f \in Videos : MarkWatched(f)
  \/ Restart

Spec == Init /\ [][Next]_vars

\* database/sql hands the connection to every waiter in turn.
FairSpec == Spec /\ \A t \in Tasks : SF_vars(Step(t))

----------------------------------------------------------------------------
TypeOK ==
  /\ \A i \in Ids : anime[i] # None =>
       /\ anime[i] \in EntryType
       /\ i < nextId
       /\ \A k \in Entries \ {i} : anime[k].path # anime[i].path
  /\ \A f \in Videos : episodes[f] # None =>
       episodes[f] \in RowType /\ episodes[f].anime \in Entries
  /\ \A d \in Folders : manga[d] # None => manga[d] \in MangaType
  /\ chapters \subseteq Archives
  /\ nextId \in 1 .. MaxAnime + 1
  /\ conn \in Tasks \cup {None}
  /\ restarts \in 0 .. MaxRestarts

(* manager.go 614-662, 101-104, 174-176, 603-605: episodes that all have one number
   are given their places instead; that some of them share one is let be.  Once no scan, import or repair
   is under way, no entry has several episodes that all have one number, if the
   last that numbered it was not disturbed: nobody else wrote to its rows
   meanwhile, took an episode of it away afterwards, or was broken off.  And no
   entry has, whatever became of it before, when the repair of a start has just
   ended. *)
Varied(i) ==
  \A f \in EpisodesOf(i) :
    EpisodesOf(i) = {f} \/ \E g \in EpisodesOf(i) : episodes[g].num # episodes[f].num

JustRepaired ==
  /\ Repairs # {} /\ Started
  /\ \A t \in Tasks \ Repairs : job[t].pc = "idle"

NotAllOneNumber ==
  (\A t \in Tasks : Kind[t] \in {"scan", "import", "repair"} => Over(t)) /\ Started =>
    \A i \in Entries :
      i \notin unsettled \/ JustRepaired => Varied(i)

(* manager.go 215-220: what is watched stays watched: scans and imports move
   an episode to another entry or number, and only the deletion of its entry
   loses it. *)
WatchedIsKept ==
  [][\A f \in Videos :
       episodes[f] # None /\ episodes[f].watched =>
         \/ episodes'[f] # None /\ episodes'[f].watched
         \/ anime'[episodes[f].anime] = None]_vars

(* app.go 885: "runAutoScan rescans all previously known library paths on
   startup": a scan that has begun ends. *)
AutoScanRescans ==
  \A t \in Tasks : Kind[t] = "scan" => (job[t].pc = "walk" ~> job[t].pc = "done")
=============================================================================
