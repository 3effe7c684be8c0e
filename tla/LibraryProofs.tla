--------------------------- MODULE LibraryProofs ---------------------------
(***************************************************************************)
(* The tables' types and keys, and the numbers of episodes, for any files, *)
(* folders, titles and calls.                                              *)
(***************************************************************************)
EXTENDS Library, FiniteSetTheorems, SequenceTheorems, WellFoundedInduction, TLAPS

Reading   == {"lookup", "hint", "promote", "upsert"}
Numbering == Reading \cup {"walk", "chapter", "defaults", "finish", "write", "enrich"}
Pcs       == Numbering \cup {"root", "idle", "done", "unmatched", "mangas", "rows", "hash"}
Known     == {d \in Folders : manga[d] # None}

JobType == [pc : Pcs, files : Seq(Files), hints : Seq(Titles),
            target : Ids \cup Folders \cup {None}, seen : SUBSET (Ids \X Videos),
            queue : SUBSET (Ids \cup Folders \cup (Ids \X Titles)),
            writes : SUBSET (Videos \X Nat)]

\* What a task has in hand, where it is.
MakesSense(t, j) ==
  /\ j.pc \in Numbering \ {"write"} => Kind[t] \in {"scan", "import"}
  /\ j.pc \in Reading => j.files # <<>> /\ Head(j.files) \in Videos
  /\ j.pc = "chapter" => j.files # <<>> /\ Head(j.files) \in Archives
  /\ j.pc \in {"promote", "upsert", "write", "enrich"} => j.target \in Ids
  /\ Kind[t] = "repair" => j.queue \subseteq Ids /\ j.pc \in {"idle", "root", "write", "done"}
  /\ j.pc = "root" => Kind[t] = "repair"
  /\ j.pc = "write" => Kind[t] \in {"scan", "import", "repair"}
  /\ j.pc = "unmatched" => j.queue \subseteq Ids \X Titles
  /\ j.pc = "mangas" => j.queue \subseteq Known
  /\ j.pc \in {"rows", "hash"} =>
       j.queue \subseteq IF Kind[t] = "mangas" THEN Known ELSE Ids
  /\ j.pc = "hash" => j.target \in IF Kind[t] = "mangas" THEN Known ELSE Ids

TablesTyped ==
  /\ anime \in [Ids -> EntryType \cup {None}]
  /\ episodes \in [Videos -> RowType \cup {None}]
  /\ manga \in [Folders -> MangaType \cup {None}]
  /\ nextId \in 1 .. MaxAnime + 1 /\ chapters \subseteq Archives
  /\ conn \in Tasks \cup {None} /\ restarts \in 0 .. MaxRestarts
  /\ unsettled \subseteq Ids

JobsTyped == job \in [Tasks -> JobType] /\ \A t \in Tasks : MakesSense(t, job[t])

\* The keys of the tables: ids, paths, an episode's entry; and rows to be numbered.
Keys ==
  /\ \A i \in Entries : i < nextId
  /\ \A i, k \in Entries : i # k => anime[i].path # anime[k].path
  /\ \A f \in Videos : episodes[f] # None => episodes[f].anime \in Entries
  /\ \A t \in Tasks : \A w \in job[t].writes : episodes[w[1]] # None

Typed == TablesTyped /\ JobsTyped /\ Keys

----------------------------------------------------------------------------
(* Numbers.                                                                *)

Below == {p \in Nat \X Nat : p[1] < p[2]}

LEMMA BelowIsWellFounded == IsWellFoundedOn(Below, Nat)
BY NatLessThanWellFounded, Zenon DEF OpToRel, Below

LEMMA Least ==
  ASSUME NEW S \in SUBSET Nat, S # {}
  PROVE  \E m \in S : \A n \in S : m <= n
<1>1. PICK m \in S : \A n \in S : ~ (<<n, m>> \in Below)
  BY BelowIsWellFounded, WFMin, Zenon
<1>2. \A n, k \in Nat : n < k => <<n, k>> \in Below
  BY DEF Below
<1>3. \A n \in S : n \in Nat /\ m \in Nat /\ ~ (n < m)
  BY <1>1, <1>2
<1>4. \A n \in S : m <= n
  BY <1>3
<1> QED
  BY <1>4

LEMMA Largest ==
  ASSUME NEW S \in SUBSET Nat, S # {}, NEW b \in Nat, \A n \in S : n <= b
  PROVE  \E m \in S : \A n \in S : n <= m
<1> DEFINE Bounds == {k \in Nat : \A n \in S : n <= k}
<1>1. PICK m \in Bounds : \A k \in Bounds : m <= k
  BY Least
<1>2. m \in Nat /\ \A n \in S : n \in Nat /\ n <= m
  OBVIOUS
<1>3. CASE m \in S
  BY <1>2, <1>3
<1>4. CASE m \notin S
  <2>1. \A n \in S : n < m
    BY <1>2, <1>4
  <2>2. PICK some \in S : some \in Nat /\ some < m
    BY <2>1
  <2>3. m > 0 /\ m - 1 \in Nat
    BY <2>2, <1>2
  <2>4. \A n \in S : n <= m - 1
    BY <2>1, <1>2
  <2>5. m - 1 \in Bounds
    BY <2>3, <2>4
  <2>6. m <= m - 1
    BY <1>1, <2>5
  <2> QED
    BY <1>2, <2>6
<1> QED
  BY <1>3, <1>4

----------------------------------------------------------------------------
(* Folders.                                                                *)

Paths == UNION {Prefixes(d) : d \in Folders}

LEMMA RootIsPath ==
  ASSUME LibraryAssumption, NEW t \in Tasks, NEW f \in Files
  PROVE  Root[t][f] \in Paths
<1>1. Root[t][f] \in Prefixes(Dir[f])
  BY DEF LibraryAssumption
<1>2. Dir[f] \in Folders
  BY DEF Folders
<1> QED
  BY <1>1, <1>2, Zenon DEF Paths

LEMMA FrontOfPath ==
  ASSUME LibraryAssumption, NEW p \in Paths
  PROVE  Front(p) \in Paths
<1>1. PICK f \in Files : p \in Prefixes(Dir[f])
  BY DEF Paths, Folders
<1>2. Dir[f] \in Seq(ToSet(Dir[f]))
  BY DEF LibraryAssumption
<1>3. PICK l \in 0 .. Len(Dir[f]) : p = SubSeq(Dir[f], 1, l)
  BY <1>1 DEF Prefixes
<1>4. Len(p) = l
  BY <1>2, <1>3
<1>5. CASE l = 0
  <2>1. Front(p) = <<>> /\ p = <<>>
    BY <1>2, <1>3, <1>4, <1>5 DEF Front
  <2> QED
    BY <2>1
<1>6. CASE l > 0
  <2>1. Front(p) = SubSeq(Dir[f], 1, l - 1)
    BY <1>2, <1>3, <1>4, <1>6 DEF Front
  <2>2. l - 1 \in 0 .. Len(Dir[f])
    BY <1>2, <1>6
  <2> QED
    BY <2>1, <2>2 DEF Paths, Folders, Prefixes
<1> QED
  BY <1>2, <1>5, <1>6

LEMMA LongestIsPath ==
  ASSUME LibraryAssumption, NEW dirs \in SUBSET Folders, dirs # {}
  PROVE  LongestCommonPrefix(dirs) \in Paths
<1>1. PICK d \in dirs : d \in Folders
  OBVIOUS
<1>2. \A e \in Folders : e \in Seq(ToSet(e)) /\ Len(e) \in Nat
  BY DEF LibraryAssumption, Folders
<1> DEFINE Lens == {l \in 0 .. Len(d) : SubSeq(d, 1, l) \in CommonPrefixes(dirs)}
<1>3. \A e \in dirs : SubSeq(e, 1, 0) = <<>> /\ IsPrefix(<<>>, e)
  BY <1>2 DEF IsPrefix
<1>4. 0 \in Lens
  <2>1. SubSeq(d, 1, 0) \in UNION {Prefixes(e) : e \in dirs}
    BY <1>2 DEF Prefixes
  <2>2. SubSeq(d, 1, 0) \in CommonPrefixes(dirs)
    BY <2>1, <1>3, Zenon DEF CommonPrefixes
  <2> QED
    BY <2>2, <1>2
<1>5. PICK m \in Lens : \A n \in Lens : n <= m
  <2>1. Lens \in SUBSET Nat /\ Lens # {} /\ \A n \in Lens : n <= Len(d)
    BY <1>2, <1>4
  <2> QED
    BY <2>1, <1>2, Largest
<1>6. \A p \in CommonPrefixes(dirs) : Len(p) \in Lens
  <2> SUFFICES ASSUME NEW p \in CommonPrefixes(dirs) PROVE Len(p) \in Lens
    OBVIOUS
  <2>1. PICK e \in dirs : p \in Prefixes(e)
    BY DEF CommonPrefixes
  <2>2. PICK l \in 0 .. Len(e) : p = SubSeq(e, 1, l)
    BY <2>1 DEF Prefixes
  <2>3. Len(p) = l /\ p \in Seq(ToSet(e)) /\ SubSeq(p, 1, Len(p)) = p
    BY <2>2, <1>2
  <2>4. IsPrefix(p, d)
    BY DEF CommonPrefixes
  <2>5. Len(p) <= Len(d) /\ p = SubSeq(d, 1, Len(p))
    BY <2>3, <2>4 DEF IsPrefix
  <2>6. Len(p) \in 0 .. Len(d)
    BY <2>3, <2>5, <1>2
  <2> QED
    BY <2>5, <2>6
<1>7. Len(SubSeq(d, 1, m)) = m
  BY <1>2, <1>5
<1>8. \E p \in CommonPrefixes(dirs) : \A q \in CommonPrefixes(dirs) : Len(q) <= Len(p)
  BY <1>5, <1>6, <1>7
<1>9. LongestCommonPrefix(dirs) \in CommonPrefixes(dirs)
  BY <1>8 DEF LongestCommonPrefix
<1> QED
  BY <1>9 DEF CommonPrefixes, Paths

----------------------------------------------------------------------------
(* Types and keys.                                                         *)

LEMMA JobChanges ==
  ASSUME JobsTyped, NEW t \in Tasks, NEW j \in JobType, Became(t, j)
  PROVE  /\ job' \in [Tasks -> JobType] /\ job'[t] = j
         /\ \A u \in Tasks \ {t} : job'[u] = job[u]
BY DEF JobsTyped, Became

\* A task moves on; the others' states make the sense they made.
LEMMA JobsMove ==
  ASSUME JobsTyped, NEW t \in Tasks, NEW j \in JobType, Became(t, j), MakesSense(t, j),
         Known \subseteq Known'
  PROVE  JobsTyped'
<1>1. /\ job' \in [Tasks -> JobType] /\ job'[t] = j
      /\ \A u \in Tasks \ {t} : job'[u] = job[u] /\ MakesSense(u, job[u])
  BY JobChanges DEF JobsTyped
<1>2. \A u \in Tasks : MakesSense(u, job'[u])
  BY <1>1
<1>3. \A u \in Tasks : MakesSense(u, job[u])'
  BY <1>2 DEF MakesSense
<1> QED
  BY <1>1, <1>3 DEF JobsTyped

\* A step that changes only a job, and gives it no rows to number.
LEMMA TablesAsWere ==
  ASSUME Typed, NEW t \in Tasks, NEW j \in JobType, Became(t, j), MakesSense(t, j),
         UNCHANGED <<tables, restarts>>, conn' \in Tasks \cup {None}, unsettled' \subseteq Ids,
         j.writes \subseteq job[t].writes
  PROVE  Typed'
<1>1. TablesTyped'
  BY DEF Typed, TablesTyped, tables
<1>2. JobsTyped'
  BY JobsMove DEF Typed, Known, tables
<1>3. Keys'
  BY JobChanges DEF Typed, Keys, Entries, tables
<1> QED
  BY <1>1, <1>2, <1>3 DEF Typed

LEMMA IdleTyped ==
  Idle \in JobType /\ Idle.seen = {} /\ Idle.writes = {} /\ Idle.queue = {} /\ Idle.pc = "idle"
BY DEF Idle, JobType, Pcs

LEMMA BeginTyped ==
  ASSUME LibraryAssumption, Typed, NEW t \in Tasks, Begin(t)
  PROVE  Typed'
<1>1. /\ UNCHANGED <<tables, restarts, unsettled>> /\ conn' \in {conn, t}
      /\ conn' \in Tasks \cup {None}
  BY DEF Begin, Typed, TablesTyped
<1>2. CASE /\ Kind[t] \in {"scan", "import"}
           /\ Became(t, [Idle EXCEPT !.pc = "walk", !.files = FilesOf[t]])
  <2> DEFINE j == [Idle EXCEPT !.pc = "walk", !.files = FilesOf[t]]
  <2>1. j \in JobType /\ j.pc = "walk" /\ j.writes = {}
    <3>1. FilesOf[t] \in Seq(Files)
      BY DEF LibraryAssumption
    <3> QED
      BY <3>1, IdleTyped DEF JobType, Pcs, Numbering
  <2>2. MakesSense(t, j)
    BY <1>2, <2>1 DEF MakesSense, Reading, Numbering
  <2> QED
    BY <1>1, <1>2, <2>1, <2>2, TablesAsWere DEF Typed, TablesTyped
<1>3. CASE /\ Kind[t] \in {"repair", "animes"}
           /\ Became(t, [Idle EXCEPT !.pc = IF Kind[t] = "repair" THEN "root" ELSE "rows",
                                     !.queue = Entries])
  <2> DEFINE j == [Idle EXCEPT !.pc = IF Kind[t] = "repair" THEN "root" ELSE "rows",
                               !.queue = Entries]
  <2>1. j \in JobType /\ j.writes = {} /\ j.queue = Entries
        /\ j.pc = IF Kind[t] = "repair" THEN "root" ELSE "rows"
    BY IdleTyped DEF JobType, Pcs, Entries
  <2>2. MakesSense(t, j)
    BY <1>3, <2>1 DEF MakesSense, Reading, Numbering, Entries
  <2> QED
    BY <1>1, <1>3, <2>1, <2>2, TablesAsWere DEF Typed, TablesTyped
<1>4. CASE /\ Kind[t] = "mangas"
           /\ Became(t, [Idle EXCEPT !.pc = "rows",
                                     !.queue = {d \in Folders : manga[d] # None}])
  <2> DEFINE j == [Idle EXCEPT !.pc = "rows", !.queue = {d \in Folders : manga[d] # None}]
  <2>1. j \in JobType /\ j.writes = {} /\ j.queue = Known /\ j.pc = "rows"
    BY IdleTyped DEF JobType, Pcs, Known
  <2>2. Known' = Known
    BY <1>1 DEF Known, tables
  <2>3. MakesSense(t, j)
    BY <1>4, <2>1, <2>2 DEF MakesSense, Reading, Numbering
  <2> QED
    BY <1>1, <1>4, <2>1, <2>3, TablesAsWere DEF Typed, TablesTyped
<1>5. CASE /\ Kind[t] = "detail"
           /\ \E i \in Entries : Became(t, [Idle EXCEPT !.pc = "rows", !.queue = {i}])
  <2>1. PICK i \in Entries : Became(t, [Idle EXCEPT !.pc = "rows", !.queue = {i}])
    BY <1>5
  <2> DEFINE j == [Idle EXCEPT !.pc = "rows", !.queue = {i}]
  <2>2. j \in JobType /\ j.writes = {} /\ j.queue = {i} /\ j.pc = "rows"
    BY IdleTyped DEF JobType, Pcs, Entries
  <2>3. MakesSense(t, j)
    BY <1>5, <2>1, <2>2 DEF MakesSense, Reading, Numbering, Entries
  <2> QED
    BY <1>1, <2>1, <2>2, <2>3, TablesAsWere DEF Typed, TablesTyped
<1> QED
  BY <1>2, <1>3, <1>4, <1>5 DEF Begin

\* What a step of t that does not begin may make of its job, with the tables as
\* they are.
LEMMA WalkTyped ==
  ASSUME LibraryAssumption, Typed, NEW t \in Tasks, Walk(t)
  PROVE  Typed'
<1> DEFINE next == IF job[t].files = <<>> THEN "finish"
                   ELSE IF File(t) \in Archives THEN "chapter" ELSE "lookup"
           j == [job[t] EXCEPT !.pc = next]
<1>1. /\ job[t].pc = "walk" /\ Became(t, j)
      /\ UNCHANGED <<tables, conn, restarts, unsettled>>
  BY DEF Walk, At, Goto
<1>2. job[t] \in JobType
  BY DEF Typed, JobsTyped
<1>3. j \in JobType /\ j.pc = next /\ j.files = job[t].files /\ j.writes = job[t].writes
      /\ j.queue = job[t].queue
  BY <1>2 DEF JobType, Pcs, Numbering, Reading
<1>4. job[t].files # <<>> => Head(job[t].files) \in Videos \cup Archives
  BY <1>2 DEF JobType, Files
<1>5. MakesSense(t, job[t])
  BY DEF Typed, JobsTyped
<1>6. MakesSense(t, j)
  BY <1>1, <1>3, <1>4, <1>5 DEF MakesSense, Reading, Numbering, File
<1> QED
  BY <1>1, <1>3, <1>6, TablesAsWere DEF Typed, TablesTyped

LEMMA LookupTyped ==
  ASSUME LibraryAssumption, Typed, NEW t \in Tasks, Lookup(t)
  PROVE  Typed'
<1>1. job[t].pc = "lookup" /\ UNCHANGED <<tables, conn, restarts, unsettled>>
  BY DEF Lookup, At
<1>2. job[t] \in JobType /\ MakesSense(t, job[t])
  BY DEF Typed, JobsTyped
<1>3. ASSUME NEW i \in Entries, Resolve(t, i, "upsert") PROVE Typed'
  <2> DEFINE j == [job[t] EXCEPT !.target = i, !.pc = "upsert"]
  <2>1. j \in JobType /\ j.pc = "upsert" /\ j.files = job[t].files /\ j.target = i
        /\ j.queue = job[t].queue /\ j.writes = job[t].writes
    BY <1>2 DEF JobType, Pcs, Numbering, Reading, Entries
  <2>2. MakesSense(t, j)
    BY <1>1, <1>2, <1>3, <2>1
    DEF MakesSense, Reading, Numbering, Resolve, Entries
  <2> QED
    BY <1>1, <1>3, <2>1, <2>2, TablesAsWere DEF Typed, TablesTyped, Resolve
<1>4. CASE Became(t, [job[t] EXCEPT !.hints = Hints[File(t)], !.pc = "hint"])
  <2> DEFINE j == [job[t] EXCEPT !.hints = Hints[File(t)], !.pc = "hint"]
  <2>1. Hints[File(t)] \in Seq(Titles)
    BY <1>1, <1>2 DEF LibraryAssumption, MakesSense, Reading, File, Files
  <2>2. j \in JobType /\ j.pc = "hint" /\ j.files = job[t].files
        /\ j.queue = job[t].queue /\ j.writes = job[t].writes
    BY <1>2, <2>1 DEF JobType, Pcs, Numbering, Reading
  <2>3. MakesSense(t, j)
    BY <1>1, <1>2, <1>4, <2>2 DEF MakesSense, Reading, Numbering
  <2> QED
    BY <1>1, <1>4, <2>2, <2>3, TablesAsWere DEF Typed, TablesTyped
<1> QED
  BY <1>3, <1>4 DEF Lookup

LEMMA FindExistingTyped ==
  ASSUME LibraryAssumption, Typed, NEW t \in Tasks, FindExisting(t)
  PROVE  Typed'
<1>1. /\ job[t].pc = "hint" /\ UNCHANGED <<tables, conn, restarts, unsettled>>
      /\ job[t].hints # <<>>
  BY DEF FindExisting, At
<1>2. job[t] \in JobType /\ MakesSense(t, job[t])
  BY DEF Typed, JobsTyped
<1>3. ASSUME NEW i \in Ids, Resolve(t, i, "promote") PROVE Typed'
  <2> DEFINE j == [job[t] EXCEPT !.target = i, !.pc = "promote"]
  <2>1. j \in JobType /\ j.pc = "promote" /\ j.files = job[t].files /\ j.target = i
        /\ j.queue = job[t].queue /\ j.writes = job[t].writes
    BY <1>2 DEF JobType, Pcs, Numbering, Reading
  <2>2. MakesSense(t, j)
    BY <1>1, <1>2, <1>3, <2>1
    DEF MakesSense, Reading, Numbering, Resolve
  <2> QED
    BY <1>1, <1>3, <2>1, <2>2, TablesAsWere DEF Typed, TablesTyped, Resolve
<1>4. CASE Became(t, [job[t] EXCEPT !.hints = Tail(@)])
  <2> DEFINE j == [job[t] EXCEPT !.hints = Tail(job[t].hints)]
  <2>1. Tail(job[t].hints) \in Seq(Titles)
    BY <1>1, <1>2 DEF JobType
  <2>2. j \in JobType /\ j.pc = "hint" /\ j.files = job[t].files
        /\ j.queue = job[t].queue /\ j.writes = job[t].writes
    BY <1>1, <1>2, <2>1 DEF JobType
  <2>3. MakesSense(t, j)
    BY <1>1, <1>2, <1>4, <2>2 DEF MakesSense, Reading, Numbering
  <2> QED
    BY <1>1, <1>4, <2>2, <2>3, TablesAsWere DEF Typed, TablesTyped
<1>5. \A h, show : Existing(h, show) \subseteq Ids
  BY DEF Existing, ByTitle, Entries
<1> QED
  BY <1>3, <1>4, <1>5 DEF FindExisting

\* promoteAnimeRootPath keeps paths apart.
LEMMA PromoteKeeps ==
  ASSUME LibraryAssumption, TablesTyped, Keys, NEW i \in Entries, NEW candidate \in Paths,
         NEW title, anime' = Promote(i, candidate, title)
  PROVE  /\ anime' \in [Ids -> EntryType \cup {None}] /\ Entries' = Entries
         /\ \A k, l \in Entries : k # l => anime'[k].path # anime'[l].path
<1> DEFINE next == ChooseRoot(anime[i].path, candidate, title)
<1>1. i \in Ids /\ anime[i] \in EntryType /\ anime[i].path \in Paths
  BY DEF TablesTyped, Entries, EntryType, Paths
<1>2. next \in Paths
  BY <1>1, FrontOfPath DEF ChooseRoot
<1>3. CASE \E k \in Entries \ {i} : anime[k].path = next
  <2>1. anime' = anime
    BY <1>3 DEF Promote
  <2> QED
    BY <2>1 DEF TablesTyped, Keys, Entries
<1>4. CASE ~ \E k \in Entries \ {i} : anime[k].path = next
  <2> HIDE DEF next
  <2>1. anime' = [anime EXCEPT ![i].path = next]
    BY <1>4 DEF Promote, next
  <2>2. /\ [anime[i] EXCEPT !.path = next] \in EntryType
        /\ [anime[i] EXCEPT !.path = next].path = next
    BY <1>1, <1>2 DEF EntryType, Paths
  <2>3. /\ \A k \in Ids \ {i} : anime'[k] = anime[k]
        /\ anime'[i] \in EntryType /\ anime'[i].path = next
    BY <1>1, <2>1, <2>2 DEF TablesTyped
  <2>4. anime' \in [Ids -> EntryType \cup {None}]
    BY <1>1, <2>1, <2>2 DEF TablesTyped
  <2>5. Entries' = Entries
    BY <1>1, <2>3 DEF Entries, LibraryAssumption
  <2> QED
    BY <1>4, <2>3, <2>4, <2>5 DEF Keys, Entries
<1> QED
  BY <1>3, <1>4

\* A step that rewrites entries, and neither their paths nor which there are.
LEMMA RewritesEntries ==
  ASSUME Typed, NEW t \in Tasks, NEW j \in JobType, Became(t, j), MakesSense(t, j),
         UNCHANGED <<episodes, manga, chapters, nextId, conn, restarts>>,
         unsettled' \subseteq Ids,
         \A w \in j.writes : episodes[w[1]] # None,
         anime' \in [Ids -> EntryType \cup {None}], Entries' = Entries,
         \A k, l \in Entries : k # l => anime'[k].path # anime'[l].path
  PROVE  Typed'
<1>1. TablesTyped'
  BY DEF Typed, TablesTyped
<1>2. JobsTyped'
  BY JobsMove DEF Typed, Known
<1>3. Keys'
  BY JobChanges DEF Typed, Keys
<1> QED
  BY <1>1, <1>2, <1>3 DEF Typed

LEMMA PromoteRootTyped ==
  ASSUME LibraryAssumption, Typed, NEW t \in Tasks, PromoteRoot(t)
  PROVE  Typed'
<1> DEFINE j == [job[t] EXCEPT !.pc = "upsert"]
<1>1. /\ job[t].pc = "promote" /\ Became(t, j)
      /\ UNCHANGED <<episodes, manga, chapters, nextId, conn, restarts, unsettled>>
  BY DEF PromoteRoot, At, Goto
<1>2. job[t] \in JobType /\ MakesSense(t, job[t])
  BY DEF Typed, JobsTyped
<1>3. j \in JobType /\ j.pc = "upsert" /\ j.files = job[t].files /\ j.target = job[t].target
      /\ j.queue = job[t].queue /\ j.writes = job[t].writes
  BY <1>2 DEF JobType, Pcs, Numbering, Reading
<1>4. MakesSense(t, j)
  BY <1>1, <1>2, <1>3 DEF MakesSense, Reading, Numbering
<1>5. Root[t][File(t)] \in Paths
  <2>1. File(t) \in Files
    BY <1>1, <1>2 DEF MakesSense, Reading, File, Files
  <2> QED
    BY <2>1, RootIsPath
<1>6. /\ anime' \in [Ids -> EntryType \cup {None}] /\ Entries' = Entries
      /\ \A k, l \in Entries : k # l => anime'[k].path # anime'[l].path
  <2>1. CASE job[t].target \notin Entries
    <3>1. anime' = anime
      BY <2>1 DEF PromoteRoot
    <3> QED
      BY <3>1 DEF Typed, TablesTyped, Keys, Entries
  <2>2. CASE job[t].target \in Entries
    <3>1. anime' = Promote(job[t].target, Root[t][File(t)], Hints[File(t)][1])
      BY <2>2 DEF PromoteRoot
    <3> QED
      BY <2>2, <3>1, <1>5, PromoteKeeps DEF Typed
  <2> QED
    BY <2>1, <2>2
<1>7. \A w \in j.writes : episodes[w[1]] # None
  BY <1>3 DEF Typed, Keys
<1> QED
  BY <1>1, <1>3, <1>4, <1>6, <1>7, RewritesEntries DEF Typed, TablesTyped

LEMMA InsertTyped ==
  ASSUME LibraryAssumption, Typed, NEW t \in Tasks, Insert(t)
  PROVE  Typed'
<1>1. /\ job[t].pc = "hint"
      /\ UNCHANGED <<episodes, manga, chapters, conn, restarts, unsettled>>
  BY DEF Insert, At
<1>2. job[t] \in JobType /\ MakesSense(t, job[t])
  BY DEF Typed, JobsTyped
<1> DEFINE path == Root[t][File(t)]
<1>3. path \in Paths
  <2>1. File(t) \in Files
    BY <1>1, <1>2 DEF MakesSense, Reading, File, Files
  <2> QED
    BY <2>1, RootIsPath
<1>4. ASSUME NEW i \in Ids, Resolve(t, i, "upsert")
      PROVE  \E j \in JobType : /\ Became(t, j) /\ MakesSense(t, j) /\ j.writes = job[t].writes
  <2> DEFINE j == [job[t] EXCEPT !.target = i, !.pc = "upsert"]
  <2>1. j \in JobType /\ j.pc = "upsert" /\ j.files = job[t].files /\ j.target = i
        /\ j.queue = job[t].queue /\ j.writes = job[t].writes
    BY <1>2 DEF JobType, Pcs, Numbering, Reading
  <2>2. MakesSense(t, j)
    BY <1>1, <1>2, <2>1 DEF MakesSense, Reading, Numbering
  <2> QED
    BY <1>4, <2>1, <2>2 DEF Resolve
<1>5. CASE \E i \in Entries : Resolve(t, i, "upsert") /\ UNCHANGED <<anime, nextId>>
  <2>1. PICK j \in JobType : Became(t, j) /\ MakesSense(t, j) /\ j.writes = job[t].writes
    BY <1>4, <1>5 DEF Entries
  <2> QED
    BY <1>1, <1>5, <2>1, TablesAsWere DEF tables, Typed, TablesTyped
<1>6. CASE /\ \A i \in Entries : anime[i].path # path
           /\ nextId <= MaxAnime
           /\ anime' = [anime EXCEPT ![nextId] =
                [Entry EXCEPT !.path = path, !.titles = {Hints[File(t)][1]}]]
           /\ nextId' = nextId + 1
           /\ Resolve(t, nextId, "upsert")
  <2>1. nextId \in Ids /\ nextId' \in 1 .. MaxAnime + 1 /\ nextId \notin Entries
    BY <1>6 DEF Typed, TablesTyped, Keys, Ids, LibraryAssumption
  <2>2. PICK j \in JobType : Became(t, j) /\ MakesSense(t, j) /\ j.writes = job[t].writes
    BY <1>4, <1>6, <2>1
  <2>3. Hints[File(t)][1] \in Titles
    <3>1. Hints[File(t)] \in Seq(Titles) /\ Hints[File(t)] # <<>>
      BY <1>1, <1>2 DEF LibraryAssumption, MakesSense, Reading, File, Files
    <3> QED
      BY <3>1
  <2> DEFINE new == [Entry EXCEPT !.path = path, !.titles = {Hints[File(t)][1]}]
  <2>4. new \in EntryType /\ new.path = path
    BY <1>3, <2>3 DEF EntryType, Entry, Paths
  <2> HIDE DEF new
  <2>5. anime' = [anime EXCEPT ![nextId] = new]
    BY <1>6 DEF new
  <2>6. /\ anime' \in [Ids -> EntryType \cup {None}] /\ anime'[nextId] = new
        /\ \A k \in Ids \ {nextId} : anime'[k] = anime[k]
    BY <2>1, <2>4, <2>5 DEF Typed, TablesTyped
  <2>7. Entries' = Entries \cup {nextId}
    BY <2>1, <2>4, <2>6 DEF Entries, LibraryAssumption
  <2>8. TablesTyped'
    BY <1>1, <2>1, <2>6 DEF Typed, TablesTyped
  <2>9. JobsTyped'
    BY <1>1, <2>2, JobsMove DEF Typed, Known
  <2>10. \A i \in Entries' : i < nextId'
    BY <1>6, <2>1, <2>7 DEF Typed, Keys, Ids, Entries, TablesTyped
  <2>11. \A i, k \in Entries' : i # k => anime'[i].path # anime'[k].path
    BY <1>6, <2>1, <2>4, <2>6, <2>7 DEF Typed, Keys, Entries
  <2>12. \A u \in Tasks : job'[u].writes = job[u].writes
    BY <2>2, JobChanges DEF Typed
  <2>13. Keys'
    BY <1>1, <2>7, <2>10, <2>11, <2>12 DEF Typed, Keys
  <2> QED
    BY <2>8, <2>9, <2>13 DEF Typed
<1> QED
  BY <1>5, <1>6 DEF Insert

\* The row of an episode that is indexed (again) keeps that it was watched.
LEMMA UpsertRow ==
  ASSUME LibraryAssumption, Typed, NEW i \in Ids, NEW f \in Videos, episodes' = Upsert(i, f)
  PROVE  /\ episodes' \in [Videos -> RowType \cup {None}]
         /\ episodes'[f] # None /\ episodes'[f].anime = i
         /\ episodes[f] # None /\ episodes[f].watched => episodes'[f].watched
         /\ \A g \in Videos \ {f} : episodes'[g] = episodes[g]
<1> DEFINE row == [anime |-> i, num |-> Parsed[f],
                   watched |-> episodes[f] # None /\ episodes[f].watched]
<1>1. Parsed[f] \in Nat /\ (episodes[f] # None /\ episodes[f].watched) \in BOOLEAN
  BY DEF LibraryAssumption
<1>2. row \in RowType
  BY <1>1, Zenon DEF RowType
<1>3. row # None
  BY <1>2 DEF LibraryAssumption
<1>4. row.anime = i /\ (episodes[f] # None /\ episodes[f].watched => row.watched)
  BY Zenon
<1>5. episodes' = [episodes EXCEPT ![f] = row]
  BY DEF Upsert
<1> HIDE DEF row
<1> QED
  BY <1>2, <1>3, <1>4, <1>5 DEF Typed, TablesTyped

LEMMA UpsertTyped ==
  ASSUME LibraryAssumption, Typed, NEW t \in Tasks, UpsertEpisode(t)
  PROVE  Typed'
<1>1. /\ job[t].pc = "upsert"
      /\ UNCHANGED <<anime, manga, chapters, nextId, conn, restarts>>
  BY DEF UpsertEpisode, At
<1>2. job[t] \in JobType /\ MakesSense(t, job[t])
  BY DEF Typed, JobsTyped
<1> DEFINE i == job[t].target
           f == File(t)
           rest == [job[t] EXCEPT !.target = None, !.hints = <<>>]
<1>3. i \in Ids /\ f \in Videos /\ Tail(job[t].files) \in Seq(Files)
  BY <1>1, <1>2 DEF MakesSense, Reading, File, JobType
<1>0. /\ rest \in JobType /\ rest.files = job[t].files /\ rest.seen = job[t].seen
      /\ rest.queue = job[t].queue /\ rest.writes = job[t].writes
  <2>1. <<>> \in Seq(Titles)
    OBVIOUS
  <2> DEFINE first == [job[t] EXCEPT !.target = None]
  <2>2. /\ first \in JobType /\ first.files = job[t].files /\ first.seen = job[t].seen
        /\ first.queue = job[t].queue /\ first.writes = job[t].writes
    BY <1>2 DEF JobType
  <2>3. rest = [first EXCEPT !.hints = <<>>]
    BY <1>2 DEF JobType
  <2> HIDE DEF first
  <2> QED
    BY <2>1, <2>2, <2>3 DEF JobType
<1> HIDE DEF rest
<1>4. CASE /\ i \in Entries /\ episodes' = Upsert(i, f)
           /\ unsettled' = unsettled \cup ({i} \cap OtherWrites(t)) \cup (Holders(f) \ {i})
           /\ Became(t, [rest EXCEPT !.files = Tail(@), !.seen = @ \cup {<<i, f>>},
                           !.pc = IF Kind[t] = "import" THEN "defaults" ELSE "walk"])
  <2> DEFINE j == [rest EXCEPT !.files = Tail(rest.files),
                               !.seen = rest.seen \cup {<<i, f>>},
                               !.pc = IF Kind[t] = "import" THEN "defaults" ELSE "walk"]
  <2>0. rest.seen \cup {<<i, f>>} \in SUBSET (Ids \X Videos)
        /\ Tail(rest.files) \in Seq(Files)
    BY <1>0, <1>3 DEF JobType
  <2>1. /\ j \in JobType /\ j.pc \in {"defaults", "walk"} /\ j.queue = job[t].queue
        /\ j.writes = job[t].writes
    BY <1>0, <2>0 DEF JobType, Pcs, Numbering
  <2>2. Became(t, j)
    BY <1>0, <1>4
  <2>3. MakesSense(t, j)
    BY <1>1, <1>2, <2>1 DEF MakesSense, Reading, Numbering
  <2>4. /\ episodes' \in [Videos -> RowType \cup {None}]
        /\ episodes'[f] # None /\ episodes'[f].anime = i
        /\ \A g \in Videos \ {f} : episodes'[g] = episodes[g]
    BY <1>3, <1>4, UpsertRow
  <2>6. unsettled' \subseteq Ids
    BY <1>3, <1>4 DEF Typed, TablesTyped, Holders
  <2>7. TablesTyped'
    BY <1>1, <2>4, <2>6 DEF Typed, TablesTyped
  <2>8. JobsTyped'
    BY <1>1, <2>1, <2>2, <2>3, JobsMove DEF Typed, Known
  <2>10. \A g \in Videos : episodes'[g] # None => episodes'[g].anime \in Entries'
    BY <1>1, <1>4, <2>4 DEF Typed, Keys, Entries
  <2>11. \A g \in Videos : episodes[g] # None => episodes'[g] # None
    BY <2>4
  <2>12. \A u \in Tasks : \A w \in job'[u].writes : w \in job[u].writes /\ w[1] \in Videos
    <3>1. \A u \in Tasks : job'[u].writes = job[u].writes
      BY <2>1, <2>2, JobChanges DEF Typed
    <3> QED
      BY <3>1 DEF Typed, JobsTyped, JobType
  <2>13. Keys'
    BY <1>1, <2>10, <2>11, <2>12 DEF Typed, Keys, Entries
  <2> QED
    BY <2>7, <2>8, <2>13 DEF Typed
<1>5. CASE /\ UNCHANGED <<episodes, unsettled>>
           /\ Became(t, [rest EXCEPT !.files = Tail(@),
                           !.pc = IF Kind[t] = "import" THEN "done" ELSE "walk"])
  <2> DEFINE j == [rest EXCEPT !.files = Tail(rest.files),
                               !.pc = IF Kind[t] = "import" THEN "done" ELSE "walk"]
  <2>1. /\ j \in JobType /\ j.pc \in {"done", "walk"} /\ j.queue = job[t].queue
        /\ j.writes = job[t].writes
    BY <1>0, <1>3 DEF JobType, Pcs, Numbering
  <2>2. Became(t, j)
    BY <1>0, <1>5
  <2>3. MakesSense(t, j)
    BY <1>1, <1>2, <2>1 DEF MakesSense, Reading, Numbering
  <2> QED
    BY <1>1, <1>5, <2>1, <2>2, <2>3, TablesAsWere DEF Typed, TablesTyped, tables
<1> QED
  BY <1>4, <1>5, Zenon DEF UpsertEpisode, rest

LEMMA ApplyDefaultsTyped ==
  ASSUME LibraryAssumption, Typed, NEW t \in Tasks, ApplyDefaults(t)
  PROVE  Typed'
<1> DEFINE j == [job[t] EXCEPT !.pc = "finish"]
<1>1. /\ job[t].pc = "defaults" /\ Became(t, j)
      /\ UNCHANGED <<episodes, manga, chapters, nextId, conn, restarts, unsettled>>
  BY DEF ApplyDefaults, At, Goto
<1>2. job[t] \in JobType /\ MakesSense(t, job[t])
  BY DEF Typed, JobsTyped
<1>3. /\ j \in JobType /\ j.pc = "finish" /\ j.queue = job[t].queue
      /\ j.writes = job[t].writes
  BY <1>2 DEF JobType, Pcs, Numbering
<1>4. MakesSense(t, j)
  BY <1>1, <1>2, <1>3 DEF MakesSense, Reading, Numbering
<1>5. PICK s \in job[t].seen, cover \in BOOLEAN :
        anime' = IF s[1] \notin Entries THEN anime
                 ELSE [anime EXCEPT ![s[1]].titles = {Hints[s[2]][1]},
                                    ![s[1]].cover = @ \/ cover]
  BY DEF ApplyDefaults
<1>6. /\ anime' \in [Ids -> EntryType \cup {None}] /\ Entries' = Entries
      /\ \A k, l \in Entries : k # l => anime'[k].path # anime'[l].path
  <2>1. CASE s[1] \notin Entries
    BY <1>5, <2>1 DEF Typed, TablesTyped, Keys, Entries
  <2>2. CASE s[1] \in Entries
    <3>1. s[1] \in Ids /\ s[2] \in Videos /\ anime[s[1]] \in EntryType
      BY <1>2, <2>2 DEF JobType, Typed, TablesTyped, Entries
    <3>2. Hints[s[2]][1] \in Titles
      <4>1. Hints[s[2]] \in Seq(Titles) /\ Hints[s[2]] # <<>>
        BY <3>1 DEF LibraryAssumption, Files
      <4> QED
        BY <4>1
    <3> DEFINE e == [anime[s[1]] EXCEPT !.titles = {Hints[s[2]][1]},
                                        !.cover = anime[s[1]].cover \/ cover]
    <3>3. e \in EntryType /\ e.path = anime[s[1]].path
      BY <3>1, <3>2 DEF EntryType
    <3>4. anime' = [anime EXCEPT ![s[1]] = e]
      BY <1>5, <2>2, <3>1 DEF Typed, TablesTyped
    <3> HIDE DEF e
    <3>5. /\ anime' \in [Ids -> EntryType \cup {None}] /\ anime'[s[1]] = e
          /\ \A k \in Ids \ {s[1]} : anime'[k] = anime[k]
      BY <3>1, <3>3, <3>4 DEF Typed, TablesTyped
    <3>6. Entries' = Entries
      BY <2>2, <3>1, <3>3, <3>5 DEF Entries, LibraryAssumption
    <3>7. \A k \in Entries : anime'[k].path = anime[k].path
      BY <3>3, <3>5 DEF Entries
    <3> QED
      BY <3>5, <3>6, <3>7 DEF Typed, Keys
  <2> QED
    BY <2>1, <2>2
<1>7. \A w \in j.writes : episodes[w[1]] # None
  BY <1>3 DEF Typed, Keys
<1> QED
  BY <1>1, <1>3, <1>4, <1>6, <1>7, RewritesEntries DEF Typed, TablesTyped

LEMMA IndexMangaTyped ==
  ASSUME LibraryAssumption, Typed, NEW t \in Tasks, IndexMangaFile(t)
  PROVE  Typed'
<1> DEFINE j == [job[t] EXCEPT !.files = Tail(job[t].files), !.pc = "walk"]
           dir == Dir[File(t)]
           row == IF manga[dir] # None THEN manga[dir]
                  ELSE [matched |-> FALSE, cover |-> FALSE, blurhash |-> FALSE]
<1>1. /\ job[t].pc = "chapter" /\ Became(t, j)
      /\ UNCHANGED <<anime, episodes, nextId, conn, restarts, unsettled>>
      /\ manga' = [manga EXCEPT ![dir] = row] /\ chapters' = chapters \cup {File(t)}
  BY DEF IndexMangaFile, At
<1>2. job[t] \in JobType /\ MakesSense(t, job[t])
  BY DEF Typed, JobsTyped
<1>3. File(t) \in Archives /\ Tail(job[t].files) \in Seq(Files) /\ dir \in Folders
  BY <1>1, <1>2 DEF MakesSense, File, JobType, Folders, Files
<1>4. j \in JobType /\ j.pc = "walk" /\ j.queue = job[t].queue /\ j.writes = job[t].writes
  BY <1>2, <1>3 DEF JobType, Pcs, Numbering
<1>5. row \in MangaType /\ row # None
  <2>1. [matched |-> FALSE, cover |-> FALSE, blurhash |-> FALSE] \in MangaType
    BY Zenon DEF MangaType
  <2>2. manga[dir] # None => manga[dir] \in MangaType
    BY <1>3 DEF Typed, TablesTyped
  <2>3. None \notin MangaType
    BY DEF LibraryAssumption
  <2> QED
    BY <2>1, <2>2, <2>3, Zenon
<1> HIDE DEF row, dir
<1>6. /\ manga' \in [Folders -> MangaType \cup {None}] /\ manga'[dir] = row
      /\ \A d \in Folders \ {dir} : manga'[d] = manga[d]
  BY <1>1, <1>3, <1>5 DEF Typed, TablesTyped
<1>7. Known \subseteq Known'
  BY <1>3, <1>5, <1>6 DEF Known
<1>8. MakesSense(t, j)
  BY <1>1, <1>2, <1>4 DEF MakesSense, Reading, Numbering
<1>9. TablesTyped'
  BY <1>1, <1>3, <1>6 DEF Typed, TablesTyped
<1>10. JobsTyped'
  BY <1>1, <1>4, <1>7, <1>8, JobsMove DEF Typed
<1>11. Keys'
  <2>1. \A u \in Tasks : job'[u].writes = job[u].writes
    BY <1>1, <1>4, JobChanges DEF Typed
  <2>2. Entries' = Entries
    BY <1>1 DEF Entries
  <2> QED
    BY <1>1, <2>1, <2>2 DEF Typed, Keys
<1> QED
  BY <1>9, <1>10, <1>11 DEF Typed

\* The new numbers are for episodes of the entry.
LEMMA RenumberedType ==
  ASSUME LibraryAssumption, NEW i \in Ids
  PROVE  /\ Renumbered(i) \subseteq Videos \X Nat
         /\ \A w \in Renumbered(i) : w[1] \in EpisodesOf(i) /\ episodes[w[1]] # None
<1>1. \A f \in Videos : Cardinality({g \in EpisodesOf(i) : g <= f}) \in Nat
  <2> TAKE f \in Videos
  <2>1. IsFiniteSet({g \in EpisodesOf(i) : g <= f})
    <3>1. {g \in EpisodesOf(i) : g <= f} \subseteq Videos /\ IsFiniteSet(Videos)
      BY DEF EpisodesOf, LibraryAssumption
    <3> QED
      BY <3>1, FS_Subset
  <2> QED
    BY <2>1, FS_CardinalityType
<1>2. EpisodesOf(i) \subseteq Videos
  BY DEF EpisodesOf
<1>3. \A w \in Renumbered(i) : \E f \in EpisodesOf(i) :
        w = <<f, Cardinality({g \in EpisodesOf(i) : g <= f})>>
  BY DEF Renumbered
<1>4. \A w \in Renumbered(i) : w \in Videos \X Nat /\ w[1] \in EpisodesOf(i)
  <2> TAKE w \in Renumbered(i)
  <2>1. PICK f \in EpisodesOf(i) : w = <<f, Cardinality({g \in EpisodesOf(i) : g <= f})>>
    BY <1>3
  <2>2. f \in Videos /\ Cardinality({g \in EpisodesOf(i) : g <= f}) \in Nat
    BY <1>1, <1>2
  <2> QED
    BY <2>1, <2>2
<1>5. \A f \in EpisodesOf(i) : episodes[f] # None
  BY DEF EpisodesOf
<1> QED
  BY <1>4, <1>5

LEMMA FinishTyped ==
  ASSUME LibraryAssumption, Typed, NEW t \in Tasks, Finish(t)
  PROVE  Typed'
<1>1. job[t].pc = "finish" /\ UNCHANGED <<tables, conn, restarts>>
  BY DEF Finish, At
<1>2. job[t] \in JobType /\ MakesSense(t, job[t])
  BY DEF Typed, JobsTyped
<1>3. ASSUME NEW s \in job[t].seen, Settle(t, s[1]),
             Became(t, [job[t] EXCEPT !.target = s[1], !.writes = Renumbered(s[1]),
                                      !.pc = "write"])
      PROVE  Typed'
  <2>1. s[1] \in Ids
    BY <1>2 DEF JobType
  <2> DEFINE j == [job[t] EXCEPT !.target = s[1], !.writes = Renumbered(s[1]), !.pc = "write"]
  <2>2. /\ Renumbered(s[1]) \subseteq Videos \X Nat
        /\ \A w \in Renumbered(s[1]) : episodes[w[1]] # None
    BY <2>1, RenumberedType
  <2>3. /\ j \in JobType /\ j.pc = "write" /\ j.target = s[1] /\ j.writes = Renumbered(s[1])
        /\ j.queue = job[t].queue
    BY <1>2, <2>1, <2>2 DEF JobType, Pcs, Numbering
  <2>4. MakesSense(t, j)
    BY <1>1, <1>2, <2>1, <2>3 DEF MakesSense, Reading, Numbering
  <2>5. unsettled' \subseteq Ids
    BY <1>3, <2>1 DEF Settle, Typed, TablesTyped
  <2>6. UNCHANGED <<anime, episodes, manga, chapters, nextId, conn, restarts>> /\ Entries' = Entries
    BY <1>1 DEF tables, Entries
  <2> QED
    BY <1>3, <2>2, <2>3, <2>4, <2>5, <2>6, RewritesEntries DEF Typed, TablesTyped, Keys
<1>4. CASE UNCHANGED unsettled /\ Kind[t] = "import" /\ Became(t, [Idle EXCEPT !.pc = "done"])
  <2> DEFINE j == [Idle EXCEPT !.pc = "done"]
  <2>1. j \in JobType /\ j.pc = "done" /\ j.writes = {}
    BY IdleTyped DEF JobType, Pcs
  <2>2. MakesSense(t, j)
    BY <1>4, <2>1 DEF MakesSense, Reading, Numbering
  <2> QED
    BY <1>1, <1>4, <2>1, <2>2, TablesAsWere DEF Typed, TablesTyped
<1>5. CASE /\ UNCHANGED unsettled /\ Kind[t] # "import"
           /\ Became(t, [Idle EXCEPT !.pc = "unmatched",
                  !.queue = {u \in Entries \X Titles :
                      anime[u[1]].show = None /\ anime[u[1]].titles = {u[2]}}])
  <2> DEFINE some == {u \in Entries \X Titles :
                        anime[u[1]].show = None /\ anime[u[1]].titles = {u[2]}}
  <2>1. some \subseteq Ids \X Titles
    BY DEF Entries
  <2> HIDE DEF some
  <2> DEFINE j == [Idle EXCEPT !.pc = "unmatched", !.queue = some]
  <2>2. j \in JobType /\ j.pc = "unmatched" /\ j.writes = {} /\ j.queue = some
    BY IdleTyped, <2>1 DEF JobType, Pcs
  <2>3. Became(t, j)
    BY <1>5 DEF some
  <2>4. MakesSense(t, j)
    BY <1>1, <1>2, <1>5, <2>1, <2>2 DEF MakesSense, Reading, Numbering
  <2> QED
    BY <1>1, <1>5, <2>2, <2>3, <2>4, TablesAsWere DEF Typed, TablesTyped
<1> QED
  BY <1>3, <1>4, <1>5, Zenon DEF Finish

LEMMA WriteNumberTyped ==
  ASSUME LibraryAssumption, Typed, NEW t \in Tasks, WriteNumber(t)
  PROVE  Typed'
<1>1. /\ job[t].pc = "write"
      /\ UNCHANGED <<anime, manga, chapters, nextId, conn, restarts>>
  BY DEF WriteNumber, At
<1>2. job[t] \in JobType /\ MakesSense(t, job[t])
  BY DEF Typed, JobsTyped
<1>3. PICK w \in job[t].writes :
        /\ episodes' = [episodes EXCEPT ![w[1]].num = w[2]]
        /\ Became(t, [job[t] EXCEPT !.writes = @ \ {w}])
        /\ unsettled' = unsettled \cup (Holders(w[1]) \ {job[t].target})
  BY DEF WriteNumber
<1> DEFINE j == [job[t] EXCEPT !.writes = job[t].writes \ {w}]
<1>4. /\ j \in JobType /\ j.pc = "write" /\ j.target = job[t].target
      /\ j.queue = job[t].queue /\ j.writes = job[t].writes \ {w}
  BY <1>1, <1>2 DEF JobType
<1>5. MakesSense(t, j)
  BY <1>1, <1>2, <1>4 DEF MakesSense, Reading, Numbering
<1>6. w[1] \in Videos /\ w[2] \in Nat /\ episodes[w[1]] \in RowType
  <2>1. w[1] \in Videos /\ w[2] \in Nat
    BY <1>2 DEF JobType
  <2>2. episodes[w[1]] # None
    BY DEF Typed, Keys
  <2> QED
    BY <2>1, <2>2 DEF Typed, TablesTyped
<1> DEFINE row == [episodes[w[1]] EXCEPT !.num = w[2]]
<1>7. row \in RowType /\ row # None
  <2>1. row \in RowType
    BY <1>6 DEF RowType
  <2> QED
    BY <2>1 DEF LibraryAssumption
<1>7a. row.anime = episodes[w[1]].anime
  BY <1>6 DEF RowType
<1> HIDE DEF row
<1>8. episodes' = [episodes EXCEPT ![w[1]] = row]
  BY <1>3 DEF row
<1>9. TablesTyped'
  BY <1>1, <1>3, <1>6, <1>7, <1>8 DEF Typed, TablesTyped, Holders
<1>10. JobsTyped'
  BY <1>1, <1>3, <1>4, <1>5, JobsMove DEF Typed, Known
<1>11. \A g \in Videos : episodes[g] # None =>
         episodes'[g] # None /\ episodes'[g].anime = episodes[g].anime
  BY <1>6, <1>7, <1>7a, <1>8 DEF Typed, TablesTyped
<1>11a. \A g \in Videos : episodes'[g] # None => episodes[g] # None
  BY <1>6, <1>7, <1>8 DEF Typed, TablesTyped, Keys
<1>12. \A u \in Tasks : \A x \in job'[u].writes : x \in job[u].writes /\ x[1] \in Videos
  <2>1. \A u \in Tasks : job'[u].writes \subseteq job[u].writes
    BY <1>3, <1>4, JobChanges DEF Typed
  <2> QED
    BY <2>1 DEF Typed, JobsTyped, JobType
<1>13. Keys'
  BY <1>1, <1>11, <1>11a, <1>12 DEF Typed, Keys, Entries
<1> QED
  BY <1>9, <1>10, <1>13 DEF Typed

LEMMA NormalizedTyped ==
  ASSUME LibraryAssumption, Typed, NEW t \in Tasks, Normalized(t)
  PROVE  Typed'
<1>1. job[t].pc = "write" /\ UNCHANGED <<tables, conn, restarts, unsettled>>
  BY DEF Normalized, At
<1>2. job[t] \in JobType /\ MakesSense(t, job[t])
  BY DEF Typed, JobsTyped
<1>3. CASE Kind[t] = "repair" /\ Became(t, [job[t] EXCEPT !.target = None, !.pc = "root"])
  <2> DEFINE j == [job[t] EXCEPT !.target = None, !.pc = "root"]
  <2>1. /\ j \in JobType /\ j.pc = "root" /\ j.queue = job[t].queue
        /\ j.writes = job[t].writes
    BY <1>2 DEF JobType, Pcs
  <2>2. MakesSense(t, j)
    BY <1>1, <1>2, <1>3, <2>1 DEF MakesSense, Reading, Numbering
  <2> QED
    BY <1>1, <1>3, <2>1, <2>2, TablesAsWere DEF Typed, TablesTyped
<1>4. CASE Kind[t] # "repair" /\ Became(t, [job[t] EXCEPT !.pc = "enrich"])
  <2> DEFINE j == [job[t] EXCEPT !.pc = "enrich"]
  <2>1. /\ j \in JobType /\ j.pc = "enrich" /\ j.queue = job[t].queue
        /\ j.writes = job[t].writes /\ j.target = job[t].target
    BY <1>2 DEF JobType, Pcs, Numbering
  <2>2. MakesSense(t, j)
    BY <1>1, <1>2, <1>4, <2>1 DEF MakesSense, Reading, Numbering
  <2> QED
    BY <1>1, <1>4, <2>1, <2>2, TablesAsWere DEF Typed, TablesTyped
<1> QED
  BY <1>3, <1>4 DEF Normalized, Goto

LEMMA RepairTyped ==
  ASSUME LibraryAssumption, Typed, NEW t \in Tasks, Repair(t)
  PROVE  Typed'
<1>1. job[t].pc = "root" /\ UNCHANGED <<episodes, manga, chapters, nextId, conn, restarts>>
  BY DEF Repair, At
<1>2. job[t] \in JobType /\ MakesSense(t, job[t])
  BY DEF Typed, JobsTyped
<1>3. Kind[t] = "repair" /\ job[t].queue \subseteq Ids
  BY <1>1, <1>2 DEF MakesSense
<1>4. ASSUME job[t].queue # {}, NEW i, i = Min(job[t].queue), Settle(t, i),
             Became(t, [job[t] EXCEPT !.queue = @ \ {i}, !.target = i,
                                      !.writes = Renumbered(i), !.pc = "write"]),
             anime' = IF {Dir[f] : f \in EpisodesOf(i)} = {} THEN anime
                      ELSE Promote(i, DeriveRoot(anime[i].path, {Dir[f] : f \in EpisodesOf(i)}),
                                   None)
      PROVE  Typed'
  <2>1. i \in Ids
    <3>1. job[t].queue \in SUBSET Nat
      BY <1>3 DEF Ids, LibraryAssumption
    <3>2. \E m \in job[t].queue : \A n \in job[t].queue : m <= n
      BY <1>4, <3>1, Least
    <3>3. i \in job[t].queue
      BY <1>4, <3>2 DEF Min
    <3> QED
      BY <1>3, <3>3
  <2> DEFINE first == [job[t] EXCEPT !.queue = job[t].queue \ {i}, !.target = i]
             j == [first EXCEPT !.writes = Renumbered(i), !.pc = "write"]
  <2>2. /\ first \in JobType /\ first.queue = job[t].queue \ {i} /\ first.target = i
    BY <1>2, <2>1 DEF JobType
  <2>2a. Became(t, j)
    BY <1>4, <1>2 DEF JobType
  <2> HIDE DEF first
  <2>3. /\ Renumbered(i) \subseteq Videos \X Nat
        /\ \A w \in Renumbered(i) : episodes[w[1]] # None
    BY <2>1, RenumberedType
  <2>4. /\ j \in JobType /\ j.pc = "write" /\ j.target = i /\ j.writes = Renumbered(i)
        /\ j.queue = job[t].queue \ {i}
    BY <2>2, <2>3 DEF JobType, Pcs, Numbering
  <2>5. MakesSense(t, j)
    BY <1>3, <2>1, <2>4 DEF MakesSense, Reading, Numbering
  <2>6. /\ anime' \in [Ids -> EntryType \cup {None}] /\ Entries' = Entries
        /\ \A k, l \in Entries : k # l => anime'[k].path # anime'[l].path
    <3> DEFINE dirs == {Dir[f] : f \in EpisodesOf(i)}
    <3>1. CASE dirs = {}
      <4>1. anime' = anime
        BY <1>4, <3>1
      <4> QED
        BY <4>1 DEF Typed, TablesTyped, Keys, Entries
    <3>2. CASE dirs # {}
      <4>1. i \in Entries /\ dirs \subseteq Folders
        BY <3>2 DEF EpisodesOf, Typed, Keys, Folders, Files
      <4>2. anime[i].path \in Paths
        BY <2>1, <4>1 DEF Typed, TablesTyped, Entries, EntryType, Paths
      <4>3. LongestCommonPrefix(dirs) \in Paths
        BY <3>2, <4>1, LongestIsPath
      <4>4. DeriveRoot(anime[i].path, dirs) \in Paths
        BY <4>2, <4>3 DEF DeriveRoot
      <4>5. anime' = Promote(i, DeriveRoot(anime[i].path, dirs), None)
        BY <1>4, <3>2
      <4> HIDE DEF dirs
      <4> QED
        BY <4>1, <4>4, <4>5, PromoteKeeps DEF Typed
    <3> QED
      BY <3>1, <3>2
  <2>7. unsettled' \subseteq Ids
    BY <1>4, <2>1 DEF Settle, Typed, TablesTyped
  <2> QED
    BY <1>1, <2>2a, <2>3, <2>4, <2>5, <2>6, <2>7, RewritesEntries
<1>5. CASE UNCHANGED <<anime, unsettled>> /\ Became(t, [job[t] EXCEPT !.pc = "done"])
  <2> DEFINE j == [job[t] EXCEPT !.pc = "done"]
  <2>1. /\ j \in JobType /\ j.pc = "done" /\ j.writes = job[t].writes /\ j.queue = job[t].queue
    BY <1>2 DEF JobType, Pcs
  <2>2. MakesSense(t, j)
    BY <1>2, <1>3, <2>1 DEF MakesSense, Reading, Numbering
  <2> QED
    BY <1>1, <1>5, <2>1, <2>2, TablesAsWere DEF Typed, TablesTyped, tables
<1> QED
  BY <1>4, <1>5, Zenon DEF Repair, Goto

\* A row of an entry is replaced by one with the same path.
LEMMA EntryRewritten ==
  ASSUME LibraryAssumption, Typed, NEW i \in Entries, NEW e \in EntryType,
         e.path = anime[i].path, anime' = [anime EXCEPT ![i] = e]
  PROVE  /\ anime' \in [Ids -> EntryType \cup {None}] /\ Entries' = Entries
         /\ \A k, l \in Entries : k # l => anime'[k].path # anime'[l].path
<1>1. i \in Ids
  BY DEF Entries
<1>2. /\ anime' \in [Ids -> EntryType \cup {None}] /\ anime'[i] = e
      /\ \A k \in Ids \ {i} : anime'[k] = anime[k]
  BY <1>1 DEF Typed, TablesTyped
<1>3. Entries' = Entries
  BY <1>1, <1>2 DEF Entries, LibraryAssumption
<1>4. \A k \in Entries : anime'[k].path = anime[k].path
  BY <1>2 DEF Entries
<1> QED
  BY <1>2, <1>3, <1>4 DEF Typed, Keys

LEMMA EnrichedKeeps ==
  ASSUME LibraryAssumption, Typed, NEW i, NEW show \in Shows \cup {None},
         NEW hashed \in BOOLEAN, anime' = Enriched(i, show, hashed)
  PROVE  /\ anime' \in [Ids -> EntryType \cup {None}] /\ Entries' = Entries
         /\ \A k, l \in Entries : k # l => anime'[k].path # anime'[l].path
<1>1. CASE show = None \/ i \notin Entries
  <2>1. anime' = anime
    BY <1>1 DEF Enriched
  <2> QED
    BY <2>1 DEF Typed, TablesTyped, Keys, Entries
<1>2. CASE ~ (show = None \/ i \notin Entries)
  <2>1. i \in Ids /\ anime[i] \in EntryType /\ show \in Shows /\ Names[show] \subseteq Titles
    BY <1>2 DEF Entries, Typed, TablesTyped, LibraryAssumption
  <2> DEFINE half == [anime[i] EXCEPT !.show = show, !.titles = Names[show]]
             e == [half EXCEPT !.cover = TRUE, !.blurhash = hashed]
  <2>2. half \in EntryType /\ half.path = anime[i].path
    BY <2>1 DEF EntryType
  <2>3. e \in EntryType /\ e.path = half.path
    <3> HIDE DEF half
    <3> QED
      BY <2>2 DEF EntryType
  <2>4. anime' = [anime EXCEPT ![i] = e]
    BY <1>2, <2>1 DEF Enriched, Typed, TablesTyped, EntryType
  <2> HIDE DEF e, half
  <2> QED
    BY <1>2, <2>2, <2>3, <2>4, EntryRewritten
<1> QED
  BY <1>1, <1>2

LEMMA EnrichTyped ==
  ASSUME LibraryAssumption, Typed, NEW t \in Tasks, Enrich(t)
  PROVE  Typed'
<1> DEFINE seen == {s \in job[t].seen : s[1] = job[t].target}
           j == [job[t] EXCEPT !.seen = job[t].seen \ seen, !.target = None, !.pc = "finish"]
<1>1. /\ job[t].pc = "enrich" /\ Became(t, j)
      /\ UNCHANGED <<episodes, manga, chapters, nextId, conn, restarts, unsettled>>
  BY DEF Enrich, At
<1>2. job[t] \in JobType /\ MakesSense(t, job[t])
  BY DEF Typed, JobsTyped
<1>3. /\ j \in JobType /\ j.pc = "finish" /\ j.queue = job[t].queue
      /\ j.writes = job[t].writes
  <2>1. job[t].seen \ seen \in SUBSET (Ids \X Videos)
    BY <1>2 DEF JobType
  <2> HIDE DEF seen
  <2> QED
    BY <1>2, <2>1 DEF JobType, Pcs, Numbering
<1>4. MakesSense(t, j)
  BY <1>1, <1>2, <1>3 DEF MakesSense, Reading, Numbering
<1>4a. PICK h \in UNION {ToSet(Hints[s[2]]) : s \in seen}, hashed \in BOOLEAN :
         \E show \in {Match[h], None} : anime' = Enriched(job[t].target, show, hashed)
  BY Zenon DEF Enrich
<1>5. PICK show \in {Match[h], None} : anime' = Enriched(job[t].target, show, hashed)
  BY <1>4a
<1>6. show \in Shows \cup {None}
  <2>1. PICK s \in seen : h \in ToSet(Hints[s[2]])
    BY <1>5
  <2>2. s[2] \in Files
    BY <1>2 DEF JobType, Files
  <2>3. Hints[s[2]] \in Seq(Titles)
    BY <2>2 DEF LibraryAssumption
  <2>4. h \in Titles
    BY <2>1, <2>3 DEF ToSet
  <2> QED
    BY <1>5, <2>4 DEF LibraryAssumption
<1>7. /\ anime' \in [Ids -> EntryType \cup {None}] /\ Entries' = Entries
      /\ \A k, l \in Entries : k # l => anime'[k].path # anime'[l].path
  BY <1>5, <1>6, EnrichedKeeps
<1>8. \A w \in j.writes : episodes[w[1]] # None
  BY <1>3 DEF Typed, Keys
<1> HIDE DEF j
<1> QED
  BY <1>1, <1>3, <1>4, <1>7, <1>8, RewritesEntries DEF Typed, TablesTyped

LEMMA EnrichUnmatchedAnimeTyped ==
  ASSUME LibraryAssumption, Typed, NEW t \in Tasks, EnrichUnmatchedAnime(t)
  PROVE  Typed'
<1>1. /\ job[t].pc = "unmatched"
      /\ UNCHANGED <<episodes, manga, chapters, nextId, conn, restarts, unsettled>>
  BY DEF EnrichUnmatchedAnime, At
<1>2. job[t] \in JobType /\ MakesSense(t, job[t]) /\ job[t].queue \subseteq Ids \X Titles
  BY <1>1 DEF Typed, JobsTyped, MakesSense
<1>3. CASE \E u \in job[t].queue, hashed \in BOOLEAN :
             /\ \E show \in {Match[u[2]], None} : anime' = Enriched(u[1], show, hashed)
             /\ Became(t, [job[t] EXCEPT !.queue = @ \ {u}])
  <2>0. PICK u \in job[t].queue, hashed \in BOOLEAN :
          /\ \E show \in {Match[u[2]], None} : anime' = Enriched(u[1], show, hashed)
          /\ Became(t, [job[t] EXCEPT !.queue = @ \ {u}])
    BY <1>3, Zenon
  <2>1. PICK show \in {Match[u[2]], None} : anime' = Enriched(u[1], show, hashed)
    BY <2>0
  <2> DEFINE j == [job[t] EXCEPT !.queue = job[t].queue \ {u}]
  <2>2. /\ j \in JobType /\ j.pc = "unmatched" /\ j.queue \subseteq job[t].queue
        /\ j.writes = job[t].writes
    BY <1>1, <1>2 DEF JobType
  <2>3. MakesSense(t, j)
    BY <1>1, <1>2, <2>2 DEF MakesSense, Reading, Numbering
  <2>4. show \in Shows \cup {None}
    BY <1>2, <2>1 DEF LibraryAssumption
  <2>5. /\ anime' \in [Ids -> EntryType \cup {None}] /\ Entries' = Entries
        /\ \A k, l \in Entries : k # l => anime'[k].path # anime'[l].path
    BY <2>1, <2>4, EnrichedKeeps
  <2>6. \A w \in j.writes : episodes[w[1]] # None
    BY <2>2 DEF Typed, Keys
  <2> QED
    BY <1>1, <2>0, <2>2, <2>3, <2>5, <2>6, RewritesEntries DEF Typed, TablesTyped
<1>4. CASE /\ Became(t, [job[t] EXCEPT !.pc = "mangas",
                           !.queue = {d \in Folders : manga[d] # None /\ ~manga[d].matched}])
           /\ UNCHANGED anime
  <2> DEFINE some == {d \in Folders : manga[d] # None /\ ~manga[d].matched}
             j == [job[t] EXCEPT !.pc = "mangas", !.queue = some]
  <2>1. some \subseteq Known /\ some \subseteq Folders /\ Known' = Known
    BY <1>1 DEF Known
  <2> HIDE DEF some
  <2>2. j \in JobType /\ j.pc = "mangas" /\ j.queue = some /\ j.writes = job[t].writes
    BY <1>2, <2>1 DEF JobType, Pcs
  <2>3. Kind[t] # "repair"
    BY <1>1, <1>2 DEF MakesSense
  <2>4. MakesSense(t, j)
    BY <2>1, <2>2, <2>3 DEF MakesSense, Reading, Numbering
  <2>5. Became(t, j)
    BY <1>4 DEF some
  <2> QED
    BY <1>1, <1>4, <2>2, <2>4, <2>5, TablesAsWere DEF Typed, TablesTyped, tables
<1> QED
  BY <1>3, <1>4, Zenon DEF EnrichUnmatchedAnime

\* A step that rewrites rows of manga, and never removes one.
LEMMA RewritesManga ==
  ASSUME Typed, NEW t \in Tasks, NEW j \in JobType, Became(t, j), MakesSense(t, j),
         UNCHANGED <<anime, episodes, chapters, nextId, conn, restarts, unsettled>>,
         j.writes = job[t].writes,
         manga' \in [Folders -> MangaType \cup {None}], Known \subseteq Known'
  PROVE  Typed'
<1>1. TablesTyped'
  BY DEF Typed, TablesTyped
<1>2. JobsTyped'
  BY JobsMove DEF Typed
<1>3. \A u \in Tasks : job'[u].writes = job[u].writes
  BY JobChanges DEF Typed
<1>4. Entries' = Entries
  BY DEF Entries
<1>5. Keys'
  BY <1>3, <1>4 DEF Typed, Keys
<1> QED
  BY <1>1, <1>2, <1>5 DEF Typed

LEMMA EnrichUnmatchedMangaTyped ==
  ASSUME LibraryAssumption, Typed, NEW t \in Tasks, EnrichUnmatchedManga(t)
  PROVE  Typed'
<1>1. /\ job[t].pc = "mangas"
      /\ UNCHANGED <<anime, episodes, chapters, nextId, conn, restarts, unsettled>>
  BY DEF EnrichUnmatchedManga, At
<1>2. job[t] \in JobType /\ MakesSense(t, job[t]) /\ job[t].queue \subseteq Known
  BY <1>1 DEF Typed, JobsTyped, MakesSense
<1>3. ASSUME NEW d \in job[t].queue, NEW hashed \in BOOLEAN, NEW matched \in BOOLEAN,
             manga' = IF ~matched THEN manga
                      ELSE [manga EXCEPT ![d] = [matched |-> TRUE, cover |-> TRUE,
                                                 blurhash |-> hashed]],
             Became(t, [job[t] EXCEPT !.queue = @ \ {d}])
      PROVE  Typed'
  <2> DEFINE j == [job[t] EXCEPT !.queue = job[t].queue \ {d}]
             row == [matched |-> TRUE, cover |-> TRUE, blurhash |-> hashed]
  <2>1. /\ j \in JobType /\ j.pc = "mangas" /\ j.queue \subseteq job[t].queue
        /\ j.writes = job[t].writes
    BY <1>1, <1>2 DEF JobType
  <2>2. MakesSense(t, j)
    BY <1>1, <1>2, <2>1 DEF MakesSense, Reading, Numbering
  <2>3. d \in Folders
    BY <1>2 DEF Known
  <2>4. row \in MangaType
    BY Zenon DEF MangaType
  <2>5. row # None
    BY <2>4 DEF LibraryAssumption
  <2> HIDE DEF row
  <2>6. manga' = manga \/ manga' = [manga EXCEPT ![d] = row]
    BY <1>3 DEF row
  <2>7. manga' \in [Folders -> MangaType \cup {None}]
    BY <2>3, <2>4, <2>6 DEF Typed, TablesTyped
  <2>8. Known \subseteq Known'
    BY <2>3, <2>5, <2>6 DEF Known, Typed, TablesTyped
  <2> QED
    BY <1>1, <1>3, <2>1, <2>2, <2>7, <2>8, RewritesManga
<1>4. CASE UNCHANGED manga /\ Became(t, [job[t] EXCEPT !.pc = "done"])
  <2> DEFINE j == [job[t] EXCEPT !.pc = "done"]
  <2>1. j \in JobType /\ j.pc = "done" /\ j.queue = job[t].queue /\ j.writes = job[t].writes
    BY <1>2 DEF JobType, Pcs
  <2>2. Kind[t] # "repair"
    BY <1>1, <1>2 DEF MakesSense
  <2>3. MakesSense(t, j)
    BY <2>1, <2>2 DEF MakesSense, Reading, Numbering
  <2> QED
    BY <1>1, <1>4, <2>1, <2>3, TablesAsWere DEF Typed, TablesTyped, tables
<1> QED
  BY <1>3, <1>4, Zenon DEF EnrichUnmatchedManga, Goto

LEMMA ReadRowTyped ==
  ASSUME LibraryAssumption, Typed, NEW t \in Tasks, ReadRow(t)
  PROVE  Typed'
<1>1. job[t].pc = "rows" /\ UNCHANGED <<tables, conn, restarts, unsettled>>
  BY DEF ReadRow
<1>2. job[t] \in JobType /\ MakesSense(t, job[t])
  BY DEF Typed, JobsTyped
<1>3. PICK x \in job[t].queue :
        \/ Became(t, [job[t] EXCEPT !.queue = @ \ {x}])
        \/ Became(t, [[job[t] EXCEPT !.queue = @ \ {x}] EXCEPT !.target = x, !.pc = "hash"])
  BY Zenon DEF ReadRow
<1> DEFINE j == [job[t] EXCEPT !.queue = job[t].queue \ {x}]
           k == [j EXCEPT !.target = x, !.pc = "hash"]
<1>4. /\ j \in JobType /\ j.pc = "rows" /\ j.queue = job[t].queue \ {x}
      /\ j.writes = job[t].writes
  BY <1>1, <1>2 DEF JobType
<1>5. x \in IF Kind[t] = "mangas" THEN Known ELSE Ids
  BY <1>1, <1>2, <1>3 DEF MakesSense
<1>6. x \in Ids \cup Folders
  BY <1>5 DEF Known
<1>7. MakesSense(t, j)
  BY <1>1, <1>2, <1>4 DEF MakesSense, Reading, Numbering
<1>8. Became(t, j) \/ Became(t, k)
  BY <1>3, Zenon
<1> HIDE DEF j
<1>9. /\ k \in JobType /\ k.pc = "hash" /\ k.target = x /\ k.queue = job[t].queue \ {x}
      /\ k.writes = job[t].writes
  BY <1>4, <1>6 DEF JobType, Pcs
<1>10. Kind[t] # "repair"
  BY <1>1, <1>2 DEF MakesSense
<1>11. MakesSense(t, k)
  BY <1>1, <1>2, <1>5, <1>9, <1>10 DEF MakesSense, Reading, Numbering
<1> HIDE DEF k
<1>12. conn' \in Tasks \cup {None} /\ unsettled' \subseteq Ids /\ UNCHANGED <<tables, restarts>>
  BY <1>1 DEF Typed, TablesTyped
<1>13. CASE Became(t, j)
  BY <1>4, <1>7, <1>12, <1>13, TablesAsWere
<1>14. CASE Became(t, k)
  BY <1>9, <1>11, <1>12, <1>14, TablesAsWere
<1> QED
  BY <1>8, <1>13, <1>14

LEMMA SaveBlurhashTyped ==
  ASSUME LibraryAssumption, Typed, NEW t \in Tasks, SaveBlurhash(t)
  PROVE  Typed'
<1> DEFINE j == [job[t] EXCEPT !.target = None, !.pc = "rows"]
           x == job[t].target
<1>1. /\ job[t].pc = "hash" /\ Became(t, j)
      /\ UNCHANGED <<episodes, chapters, nextId, conn, restarts, unsettled>>
  BY DEF SaveBlurhash, At
<1>2. job[t] \in JobType /\ MakesSense(t, job[t])
  BY DEF Typed, JobsTyped
<1>3. j \in JobType /\ j.pc = "rows" /\ j.queue = job[t].queue /\ j.writes = job[t].writes
  BY <1>2 DEF JobType, Pcs
<1>4. x \in IF Kind[t] = "mangas" THEN Known ELSE Ids
  BY <1>1, <1>2 DEF MakesSense
<1>5. MakesSense(t, j)
  BY <1>1, <1>2, <1>3 DEF MakesSense, Reading, Numbering
<1>6. CASE /\ Kind[t] = "mangas" /\ UNCHANGED anime
           /\ manga' = [manga EXCEPT ![x].blurhash = TRUE]
  <2>1. x \in Folders /\ manga[x] \in MangaType
    BY <1>4, <1>6 DEF Known, Typed, TablesTyped
  <2> DEFINE row == [manga[x] EXCEPT !.blurhash = TRUE]
  <2>2. row \in MangaType
    BY <2>1 DEF MangaType
  <2>3. row # None
    BY <2>2 DEF LibraryAssumption
  <2>4. manga' = [manga EXCEPT ![x] = row]
    BY <1>6
  <2> HIDE DEF row
  <2>5. manga' \in [Folders -> MangaType \cup {None}]
    BY <2>1, <2>2, <2>4 DEF Typed, TablesTyped
  <2>6. Known \subseteq Known'
    BY <2>1, <2>3, <2>4 DEF Known, Typed, TablesTyped
  <2> HIDE DEF j
  <2> QED
    BY <1>1, <1>3, <1>5, <1>6, <2>5, <2>6, RewritesManga
<1>7. CASE /\ Kind[t] # "mangas" /\ UNCHANGED manga
           /\ anime' = IF x \in Entries THEN [anime EXCEPT ![x].blurhash = TRUE] ELSE anime
  <2>1. /\ anime' \in [Ids -> EntryType \cup {None}] /\ Entries' = Entries
        /\ \A k, l \in Entries : k # l => anime'[k].path # anime'[l].path
    <3>1. CASE x \in Entries
      <4> DEFINE e == [anime[x] EXCEPT !.blurhash = TRUE]
      <4>1. anime[x] \in EntryType
        BY <3>1 DEF Entries, Typed, TablesTyped
      <4>2. e \in EntryType /\ e.path = anime[x].path
        BY <4>1 DEF EntryType
      <4>3. anime' = [anime EXCEPT ![x] = e]
        BY <1>7, <3>1
      <4> HIDE DEF e
      <4> QED
        BY <3>1, <4>2, <4>3, EntryRewritten
    <3>2. CASE x \notin Entries
      BY <1>7, <3>2 DEF Typed, TablesTyped, Keys, Entries
    <3> QED
      BY <3>1, <3>2
  <2>2. \A w \in j.writes : episodes[w[1]] # None
    BY <1>3 DEF Typed, Keys
  <2> HIDE DEF j
  <2> QED
    BY <1>1, <1>3, <1>5, <1>7, <2>1, <2>2, RewritesEntries DEF Typed, TablesTyped
<1> QED
  BY <1>6, <1>7, Zenon DEF SaveBlurhash

LEMMA EndRowsTyped ==
  ASSUME LibraryAssumption, Typed, NEW t \in Tasks, EndRows(t)
  PROVE  Typed'
<1> DEFINE j == [job[t] EXCEPT !.pc = "done"]
<1>1. /\ job[t].pc = "rows" /\ Became(t, j) /\ conn' = None
      /\ UNCHANGED <<tables, restarts, unsettled>>
  BY DEF EndRows, Goto
<1>2. job[t] \in JobType /\ MakesSense(t, job[t])
  BY DEF Typed, JobsTyped
<1>3. j \in JobType /\ j.pc = "done" /\ j.queue = job[t].queue /\ j.writes = job[t].writes
  BY <1>2 DEF JobType, Pcs
<1>4. MakesSense(t, j)
  BY <1>1, <1>2, <1>3 DEF MakesSense, Reading, Numbering
<1> QED
  BY <1>1, <1>3, <1>4, TablesAsWere DEF Typed, TablesTyped

LEMMA DeleteAnimeTyped ==
  ASSUME LibraryAssumption, Typed, NEW i \in Ids, DeleteAnime(i)
  PROVE  Typed'
<1>1. /\ i \in Entries /\ anime' = [anime EXCEPT ![i] = None] /\ episodes' = Remaining(i)
      /\ UNCHANGED <<manga, chapters, nextId, conn, restarts, unsettled>>
  BY DEF DeleteAnime
<1> DEFINE Left(t) == {w \in job[t].writes : w[1] \notin EpisodesOf(i)}
           After(t) == [job[t] EXCEPT !.writes = Left(t)]
<1>2. job' = [t \in Tasks |-> After(t)]
  BY DEF DeleteAnime
<1>3. \A t \in Tasks : /\ After(t) \in JobType /\ MakesSense(t, After(t))
                       /\ After(t).writes \subseteq job[t].writes
                       /\ \A w \in After(t).writes : w[1] \notin EpisodesOf(i)
  <2> TAKE t \in Tasks
  <2>1. job[t] \in JobType /\ MakesSense(t, job[t])
    BY DEF Typed, JobsTyped
  <2>2. Left(t) \in SUBSET (Videos \X Nat)
    BY <2>1 DEF JobType
  <2>3. /\ After(t) \in JobType /\ After(t).pc = job[t].pc /\ After(t).files = job[t].files
        /\ After(t).target = job[t].target /\ After(t).queue = job[t].queue
        /\ After(t).writes = Left(t)
    <3> HIDE DEF Left
    <3> QED
      BY <2>1, <2>2 DEF JobType
  <2>4. MakesSense(t, After(t))
    BY <2>1, <2>3 DEF MakesSense
  <2> QED
    BY <2>3, <2>4
<1> HIDE DEF After
<1>4. Known' = Known
  BY <1>1 DEF Known
<1>5. JobsTyped'
  <2>1. job' \in [Tasks -> JobType]
    BY <1>2, <1>3
  <2>2. \A t \in Tasks : MakesSense(t, job'[t])
    BY <1>2, <1>3
  <2>3. \A t \in Tasks : MakesSense(t, job[t])'
    BY <2>2, <1>4 DEF MakesSense
  <2> QED
    BY <2>1, <2>3 DEF JobsTyped
<1>6. /\ anime' \in [Ids -> EntryType \cup {None}] /\ Entries' = Entries \ {i}
      /\ \A k \in Ids \ {i} : anime'[k] = anime[k]
  BY <1>1 DEF Typed, TablesTyped, Entries
<1>7. /\ episodes' \in [Videos -> RowType \cup {None}]
      /\ \A f \in Videos : episodes'[f] = IF f \in EpisodesOf(i) THEN None ELSE episodes[f]
  BY <1>1 DEF Remaining, Typed, TablesTyped
<1>8. TablesTyped'
  BY <1>1, <1>6, <1>7 DEF Typed, TablesTyped
<1>9. \A f \in Videos : episodes'[f] # None => episodes'[f].anime \in Entries'
  BY <1>6, <1>7 DEF Typed, Keys, EpisodesOf
<1>10. \A t \in Tasks : \A w \in job'[t].writes : episodes'[w[1]] # None
  <2> TAKE t \in Tasks
  <2>1. \A w \in job'[t].writes : w \in job[t].writes /\ w[1] \notin EpisodesOf(i)
    BY <1>2, <1>3
  <2>2. \A w \in job[t].writes : w[1] \in Videos /\ episodes[w[1]] # None
    BY DEF Typed, JobsTyped, JobType, Keys
  <2> QED
    BY <1>7, <2>1, <2>2
<1>11. Keys'
  BY <1>1, <1>6, <1>9, <1>10 DEF Typed, Keys, Entries
<1> QED
  BY <1>5, <1>8, <1>11 DEF Typed

LEMMA MarkWatchedTyped ==
  ASSUME LibraryAssumption, Typed, NEW f \in Videos, MarkWatched(f)
  PROVE  Typed'
<1> DEFINE row == [episodes[f] EXCEPT !.watched = TRUE]
<1>1. /\ episodes[f] \in RowType /\ episodes' = [episodes EXCEPT ![f] = row]
      /\ UNCHANGED <<anime, manga, chapters, nextId, conn, job, restarts, unsettled>>
  BY DEF MarkWatched, Typed, TablesTyped
<1>2. row \in RowType /\ row.anime = episodes[f].anime
  BY <1>1 DEF RowType
<1>3. row # None
  BY <1>2 DEF LibraryAssumption
<1> HIDE DEF row
<1>4. /\ episodes' \in [Videos -> RowType \cup {None}] /\ episodes'[f] = row
      /\ \A g \in Videos \ {f} : episodes'[g] = episodes[g]
  BY <1>1, <1>2 DEF Typed, TablesTyped
<1>5. TablesTyped'
  BY <1>1, <1>4 DEF Typed, TablesTyped
<1>6. JobsTyped'
  <2>1. \A t \in Tasks : MakesSense(t, job[t])'
    BY <1>1 DEF Typed, JobsTyped, MakesSense, Known
  <2> QED
    BY <1>1, <2>1 DEF Typed, JobsTyped
<1>7. \A g \in Videos : episodes'[g] # None => episodes'[g].anime \in Entries
  BY <1>1, <1>2, <1>4 DEF Typed, Keys, MarkWatched
<1>8. \A t \in Tasks : \A w \in job[t].writes : episodes'[w[1]] # None
  <2> TAKE t \in Tasks
  <2>1. \A w \in job[t].writes : w[1] \in Videos /\ episodes[w[1]] # None
    BY DEF Typed, JobsTyped, JobType, Keys
  <2> QED
    BY <1>3, <1>4, <2>1
<1>9. Entries' = Entries
  BY <1>1 DEF Entries
<1>10. Keys'
  BY <1>1, <1>7, <1>8, <1>9 DEF Typed, Keys
<1> QED
  BY <1>5, <1>6, <1>10 DEF Typed

LEMMA RestartTyped ==
  ASSUME LibraryAssumption, Typed, Restart
  PROVE  Typed'
<1>1. /\ restarts < MaxRestarts /\ restarts' = restarts + 1 /\ conn' = None
      /\ job' = [t \in Tasks |-> Idle] /\ UNCHANGED tables
      /\ unsettled' = unsettled \cup UNION {Numbers(t) \cup Writing(t) : t \in Tasks}
  BY DEF Restart
<1>2. \A t \in Tasks : Numbers(t) \subseteq Ids /\ Writing(t) \subseteq Ids
  <2> TAKE t \in Tasks
  <2>1. job[t] \in JobType /\ MakesSense(t, job[t])
    BY DEF Typed, JobsTyped
  <2>2. \A s \in job[t].seen : s[1] \in Ids
    BY <2>1 DEF JobType
  <2> QED
    BY <2>1, <2>2 DEF Numbers, Writing, MakesSense
<1>3. unsettled' \subseteq Ids
  BY <1>1, <1>2 DEF Typed, TablesTyped
<1>4. restarts' \in 0 .. MaxRestarts
  BY <1>1 DEF Typed, TablesTyped, LibraryAssumption
<1>5. TablesTyped'
  BY <1>1, <1>3, <1>4 DEF Typed, TablesTyped, tables
<1>6. \A t \in Tasks : job'[t] = Idle
  BY <1>1
<1>7. \A t \in Tasks : MakesSense(t, Idle)'
  BY IdleTyped DEF MakesSense, Reading, Numbering
<1>8. JobsTyped'
  BY <1>1, <1>6, <1>7, IdleTyped DEF JobsTyped, MakesSense
<1>9. Keys'
  BY <1>1, <1>6, IdleTyped DEF Typed, Keys, Entries, tables
<1> QED
  BY <1>5, <1>8, <1>9 DEF Typed

LEMMA InitTyped ==
  ASSUME LibraryAssumption, Init
  PROVE  Typed
<1>1. TablesTyped
  BY DEF Init, TablesTyped, LibraryAssumption
<1>2. \A t \in Tasks : job[t] = Idle
  BY DEF Init
<1>3. JobsTyped
  <2>1. \A t \in Tasks : MakesSense(t, Idle)
    BY IdleTyped DEF MakesSense, Reading, Numbering
  <2> QED
    BY <1>2, <2>1, IdleTyped DEF JobsTyped, Init
<1>4. Keys
  BY <1>2, IdleTyped DEF Init, Keys, Entries
<1> QED
  BY <1>1, <1>3, <1>4 DEF Typed

LEMMA StepTyped ==
  ASSUME LibraryAssumption, Typed, NEW t \in Tasks, Step(t)
  PROVE  Typed'
BY WalkTyped, LookupTyped, FindExistingTyped, PromoteRootTyped, InsertTyped, UpsertTyped,
   ApplyDefaultsTyped, IndexMangaTyped, FinishTyped, WriteNumberTyped, NormalizedTyped,
   RepairTyped, EnrichTyped, EnrichUnmatchedAnimeTyped, EnrichUnmatchedMangaTyped,
   ReadRowTyped, SaveBlurhashTyped, EndRowsTyped, Zenon
   DEF Step

LEMMA NextTyped ==
  ASSUME LibraryAssumption, Typed, [Next]_vars
  PROVE  Typed'
<1>1. CASE UNCHANGED vars
  <2>1. /\ UNCHANGED anime /\ UNCHANGED episodes /\ UNCHANGED manga /\ UNCHANGED chapters
        /\ UNCHANGED nextId /\ UNCHANGED conn /\ UNCHANGED job /\ UNCHANGED restarts
        /\ UNCHANGED unsettled
    BY <1>1 DEF vars
  <2>2. TablesTyped' /\ JobsTyped' /\ Keys'
    BY <2>1 DEF Typed, TablesTyped, JobsTyped, MakesSense, Known, Keys, Entries
  <2> QED
    BY <2>2 DEF Typed
<1>2. CASE Next
  BY <1>2, BeginTyped, StepTyped, DeleteAnimeTyped, MarkWatchedTyped, RestartTyped, Zenon
     DEF Next
<1> QED
  BY <1>1, <1>2

LEMMA AlwaysTyped ==
  ASSUME LibraryAssumption
  PROVE  Spec => []Typed
<1>1. Init => Typed
  BY InitTyped
<1>2. Typed /\ [Next]_vars => Typed'
  BY NextTyped
<1> QED
  BY <1>1, <1>2, PTL DEF Spec

(* The tables have the types and keys of the schema: the entry of every
   episode exists, no two entries have one path, ids are not used again. *)
THEOREM TypeCorrect ==
  ASSUME LibraryAssumption
  PROVE  Spec => []TypeOK
<1>1. Typed => TypeOK
  BY DEF Typed, TablesTyped, Keys, TypeOK, Entries
<1> QED
  BY <1>1, AlwaysTyped, PTL

(* manager.go 215-220: whatever scans, imports, repairs and views do, what is
   watched stays watched until its entry is deleted. *)
THEOREM WatchedIsKeptHolds ==
  ASSUME LibraryAssumption
  PROVE  Spec => WatchedIsKept
<1> DEFINE Kept(f) == episodes[f] # None /\ episodes[f].watched =>
                        \/ episodes'[f] # None /\ episodes'[f].watched
                        \/ anime'[episodes[f].anime] = None
<1>1. ASSUME Typed, Next, NEW f \in Videos PROVE Kept(f)
  <2>1. ASSUME NEW t \in Tasks, UpsertEpisode(t) PROVE Kept(f)
    <3>1. job[t] \in JobType /\ MakesSense(t, job[t]) /\ job[t].pc = "upsert"
      BY <1>1, <2>1 DEF Typed, JobsTyped, UpsertEpisode, At
    <3>2. File(t) \in Videos /\ job[t].target \in Ids
      BY <3>1 DEF MakesSense, Reading, File
    <3>3. UNCHANGED episodes \/ episodes' = Upsert(job[t].target, File(t))
      BY <2>1, Zenon DEF UpsertEpisode
    <3> QED
      BY <1>1, <3>2, <3>3, UpsertRow
  <2>2. ASSUME NEW t \in Tasks, WriteNumber(t) PROVE Kept(f)
    <3>1. PICK w \in job[t].writes : episodes' = [episodes EXCEPT ![w[1]].num = w[2]]
      BY <2>2 DEF WriteNumber
    <3>2. w[1] \in Videos /\ w[2] \in Nat /\ episodes[w[1]] \in RowType
      <4>1. w[1] \in Videos /\ w[2] \in Nat
        BY <1>1 DEF Typed, JobsTyped, JobType
      <4>2. episodes[w[1]] # None
        BY <1>1 DEF Typed, Keys
      <4> QED
        BY <1>1, <4>1, <4>2 DEF Typed, TablesTyped
    <3> DEFINE row == [episodes[w[1]] EXCEPT !.num = w[2]]
    <3>3. row \in RowType /\ (episodes[w[1]].watched => row.watched)
      BY <3>2, Zenon DEF RowType
    <3>4. row # None
      BY <3>3 DEF LibraryAssumption
    <3>5. episodes' = [episodes EXCEPT ![w[1]] = row]
      BY <3>1
    <3> HIDE DEF row
    <3> QED
      BY <1>1, <3>2, <3>3, <3>4, <3>5 DEF Typed, TablesTyped
  <2>3. ASSUME NEW i \in Ids, DeleteAnime(i) PROVE Kept(f)
    <3>1. i \in Ids /\ anime' = [anime EXCEPT ![i] = None] /\ episodes' = Remaining(i)
      BY <2>3 DEF DeleteAnime
    <3>2. anime'[i] = None
      BY <1>1, <3>1 DEF Typed, TablesTyped
    <3> QED
      BY <3>1, <3>2 DEF Remaining, EpisodesOf
  <2>4. ASSUME NEW g \in Videos, MarkWatched(g) PROVE Kept(f)
    <3> DEFINE row == [episodes[g] EXCEPT !.watched = TRUE]
    <3>1. episodes[g] \in RowType /\ episodes' = [episodes EXCEPT ![g] = row]
      BY <1>1, <2>4 DEF MarkWatched, Typed, TablesTyped
    <3>2. row \in RowType /\ row.watched
      BY <3>1, Zenon DEF RowType
    <3>3. row # None
      BY <3>2 DEF LibraryAssumption
    <3> HIDE DEF row
    <3> QED
      BY <1>1, <3>1, <3>2, <3>3 DEF Typed, TablesTyped
  <2>5. ASSUME NEW t \in Tasks,
               \/ Begin(t) \/ Walk(t) \/ Lookup(t) \/ FindExisting(t) \/ PromoteRoot(t)
               \/ Insert(t) \/ ApplyDefaults(t) \/ IndexMangaFile(t) \/ Finish(t)
               \/ Normalized(t) \/ Repair(t) \/ Enrich(t) \/ EnrichUnmatchedAnime(t)
               \/ EnrichUnmatchedManga(t) \/ ReadRow(t) \/ SaveBlurhash(t) \/ EndRows(t)
        PROVE  Kept(f)
    <3>1. UNCHANGED episodes
      BY <2>5, Zenon
         DEF Begin, Walk, Lookup, FindExisting, PromoteRoot, Insert, ApplyDefaults,
             IndexMangaFile, Finish, Normalized, Repair, Enrich, EnrichUnmatchedAnime,
             EnrichUnmatchedManga, ReadRow, SaveBlurhash, EndRows, tables
    <3> QED
      BY <3>1
  <2>6. ASSUME Restart PROVE Kept(f)
    BY <2>6 DEF Restart, tables
  <2> HIDE DEF Kept
  <2> QED
    BY <1>1, <2>1, <2>2, <2>3, <2>4, <2>5, <2>6, Zenon DEF Next, Step
<1>2. Typed /\ [Next]_vars => [\A f \in Videos : Kept(f)]_vars
  BY <1>1
<1> QED
  BY <1>2, AlwaysTyped, PTL DEF Spec, WatchedIsKept

----------------------------------------------------------------------------
(* Numbers.  An entry that is settled has numbers that tell its episodes   *)
(* apart, or a task is going to see to it; and the only one that writes    *)
(* its numbers gives every episode its place.                              *)

Place(f, items) == Cardinality({g \in items : g <= f})

WritesPlaces(t, i) ==
  \/ job[t].writes = {} /\ Varied(i)
  \/ /\ Cardinality(EpisodesOf(i)) > 1
     /\ \A w \in job[t].writes : w[2] = Place(w[1], EpisodesOf(i))
     /\ \A f \in EpisodesOf(i) : \/ episodes[f].num = Place(f, EpisodesOf(i))
                                 \/ <<f, Place(f, EpisodesOf(i))>> \in job[t].writes

SettledAt(i) ==
  /\ Varied(i) \/ \E t \in Tasks : i \in Numbers(t) \cup Writing(t)
  /\ \A t \in Tasks : i \in Writing(t) => i \notin OtherWrites(t) /\ WritesPlaces(t, i)

Settled == \A i \in Entries \ unsettled : SettledAt(i)

\* What has been seen is numbered before a call is over; ids are of entries there were.
SeenOnlyWhile ==
  \A t \in Tasks :
    /\ job[t].seen # {} => job[t].pc \in Numbering
    /\ Kind[t] = "import" /\ job[t].pc \in Reading \cup {"walk", "chapter"} => job[t].seen = {}
    /\ \A s \in job[t].seen : s[1] < nextId
    /\ job[t].pc = "write" => job[t].target < nextId
    /\ Kind[t] = "repair" => \A i \in job[t].queue : i < nextId

\* The repair is alone, and goes through everything that is not settled.
RepairFirst ==
  /\ \A r \in Repairs :
       /\ job[r].seen = {}
       /\ job[r].pc # "done" => \A t \in Tasks \ {r} : job[t].pc = "idle"
       /\ job[r].pc \in {"root", "write"} => unsettled \cap Entries \subseteq job[r].queue
       /\ job[r].pc = "write" => \A w \in job[r].writes : w[1] \in EpisodesOf(job[r].target)
  /\ JustRepaired => unsettled \cap Entries = {}

IInv == Settled /\ SeenOnlyWhile /\ RepairFirst

LEMMA EpisodesAreFinite ==
  ASSUME LibraryAssumption, NEW i
  PROVE  IsFiniteSet(EpisodesOf(i)) /\ EpisodesOf(i) \in SUBSET Nat
<1>1. EpisodesOf(i) \subseteq Videos /\ IsFiniteSet(Videos) /\ Videos \subseteq Nat
  BY DEF EpisodesOf, LibraryAssumption
<1> QED
  BY <1>1, FS_Subset

LEMMA PlacesDiffer ==
  ASSUME NEW items \in SUBSET Nat, IsFiniteSet(items), NEW f \in items, NEW g \in items, f < g
  PROVE  Place(f, items) < Place(g, items)
<1> DEFINE S == {h \in items : h <= g}
           T == {h \in items : h <= f}
<1>1. IsFiniteSet(S) /\ IsFiniteSet(T)
  BY FS_Subset
<1>2. T \in SUBSET S /\ T # S
  <2>1. \A h \in items : h \in Nat
    OBVIOUS
  <2>2. \A h \in T : h \in S
    BY <2>1
  <2>3. g \in S /\ g \notin T
    BY <2>1
  <2> QED
    BY <2>2, <2>3
<1>3. Cardinality(T) <= Cardinality(S) /\ Cardinality(S) # Cardinality(T)
  BY <1>1, <1>2, FS_Subset
<1>4. Cardinality(S) \in Nat /\ Cardinality(T) \in Nat
  BY <1>1, FS_CardinalityType
<1> QED
  BY <1>3, <1>4 DEF Place

\* Episodes that all have their place are told apart.
LEMMA PlacesTellApart ==
  ASSUME LibraryAssumption, NEW i,
         \A f \in EpisodesOf(i) : episodes[f].num = Place(f, EpisodesOf(i))
  PROVE  Varied(i)
<1> SUFFICES ASSUME NEW f \in EpisodesOf(i), EpisodesOf(i) # {f}
             PROVE  \E g \in EpisodesOf(i) : episodes[g].num # episodes[f].num
  BY DEF Varied
<1>1. PICK g \in EpisodesOf(i) : g # f
  OBVIOUS
<1>2. f \in Nat /\ g \in Nat
  BY EpisodesAreFinite
<1>3. \A k : Place(k, EpisodesOf(i)) \in Nat
  <2> TAKE k
  <2>1. IsFiniteSet({h \in EpisodesOf(i) : h <= k})
    BY EpisodesAreFinite, FS_Subset
  <2> QED
    BY <2>1, FS_CardinalityType DEF Place
<1>4. Place(f, EpisodesOf(i)) < Place(g, EpisodesOf(i)) \/
      Place(g, EpisodesOf(i)) < Place(f, EpisodesOf(i))
  BY <1>1, <1>2, PlacesDiffer, EpisodesAreFinite
<1> QED
  BY <1>3, <1>4

\* Episodes that need not be renumbered are told apart.
LEMMA ApartAlready ==
  ASSUME LibraryAssumption, NEW i, ~ ShouldRenumber(EpisodesOf(i))
  PROVE  Varied(i)
<1> SUFFICES ASSUME NEW f \in EpisodesOf(i), EpisodesOf(i) # {f},
                    \A g \in EpisodesOf(i) : episodes[g].num = episodes[f].num
             PROVE  FALSE
  BY DEF Varied
<1> DEFINE n == episodes[f].num
           D == Distinct(EpisodesOf(i))
<1>1. Cardinality(EpisodesOf(i)) > 1
  <2>1. IsFiniteSet(EpisodesOf(i)) /\ {f} \in SUBSET EpisodesOf(i)
    BY EpisodesAreFinite
  <2>2. /\ Cardinality({f}) <= Cardinality(EpisodesOf(i))
        /\ Cardinality({f}) # Cardinality(EpisodesOf(i))
    BY <2>1, FS_Subset
  <2>3. Cardinality({f}) = 1 /\ Cardinality(EpisodesOf(i)) \in Nat
    BY <2>1, FS_Singleton, FS_CardinalityType
  <2> QED
    BY <2>2, <2>3
<1>2. D \in SUBSET {n}
  BY DEF Distinct
<1>3. Cardinality(D) <= 1
  <2>1. IsFiniteSet({n}) /\ Cardinality({n}) = 1
    BY FS_Singleton
  <2> HIDE DEF n, D
  <2> QED
    BY <1>2, <2>1, FS_Subset
<1> QED
  BY <1>1, <1>3 DEF ShouldRenumber

\* What is to be written gives every episode of the entry its place.
LEMMA RenumberedPlaces ==
  ASSUME LibraryAssumption, NEW i, NEW t, job'[t].writes = Renumbered(i),
         EpisodesOf(i)' = EpisodesOf(i),
         \A f \in EpisodesOf(i) : episodes'[f].num = episodes[f].num
  PROVE  WritesPlaces(t, i)'
<1>1. CASE ~ ShouldRenumber(EpisodesOf(i))
  <2>1. job'[t].writes = {}
    BY <1>1 DEF Renumbered
  <2>2. Varied(i)
    BY <1>1, ApartAlready
  <2>3. Varied(i)'
    BY <2>2 DEF Varied
  <2> QED
    BY <2>1, <2>3 DEF WritesPlaces
<1>2. CASE ShouldRenumber(EpisodesOf(i))
  <2>1. job'[t].writes = {<<f, Place(f, EpisodesOf(i))>> :
                           f \in {g \in EpisodesOf(i) : episodes[g].num # Place(g, EpisodesOf(i))}}
    BY <1>2 DEF Renumbered, Place
  <2>2. Cardinality(EpisodesOf(i)) > 1
    BY <1>2 DEF ShouldRenumber
  <2>3. \A w \in job'[t].writes : w[2] = Place(w[1], EpisodesOf(i))
    BY <2>1
  <2>4. \A f \in EpisodesOf(i) : \/ episodes'[f].num = Place(f, EpisodesOf(i))
                                 \/ <<f, Place(f, EpisodesOf(i))>> \in job'[t].writes
    BY <2>1
  <2>5. \A f : Place(f, EpisodesOf(i))' = Place(f, EpisodesOf(i))
    BY DEF Place
  <2> QED
    BY <2>2, <2>3, <2>4, <2>5 DEF WritesPlaces
<1> QED
  BY <1>1, <1>2

----------------------------------------------------------------------------
(* Steps that leave an entry's rows alone.                                 *)

Untouched(i) == /\ EpisodesOf(i)' = EpisodesOf(i)
                /\ \A f \in EpisodesOf(i) : episodes'[f].num = episodes[f].num

LEMMA StaysSettled ==
  ASSUME NEW i, SettledAt(i), Untouched(i),
         \A t \in Tasks : i \in Writing(t)' =>
           i \in Writing(t) /\ job'[t].writes = job[t].writes,
         \A t \in Tasks : i \in Numbers(t) \cup Writing(t) =>
           i \in (Numbers(t) \cup Writing(t))'
  PROVE  SettledAt(i)'
<1>1. Varied(i) => Varied(i)'
  BY DEF Untouched, Varied
<1>2. ASSUME NEW t \in Tasks, i \in Writing(t)'
      PROVE  i \notin OtherWrites(t)' /\ WritesPlaces(t, i)'
  <2>1. i \in Writing(t) /\ job'[t].writes = job[t].writes
    BY <1>2
  <2>2. i \notin OtherWrites(t) /\ WritesPlaces(t, i)
    BY <2>1 DEF SettledAt
  <2>3. i \notin OtherWrites(t)'
    BY <2>2 DEF OtherWrites
  <2>4. WritesPlaces(t, i)'
    <3>1. CASE job[t].writes = {} /\ Varied(i)
      BY <1>1, <2>1, <3>1 DEF WritesPlaces
    <3>2. CASE ~ (job[t].writes = {} /\ Varied(i))
      <4>1. \A f : Place(f, EpisodesOf(i))' = Place(f, EpisodesOf(i))
        BY DEF Place, Untouched
      <4> QED
        BY <2>1, <2>2, <3>2, <4>1 DEF WritesPlaces, Untouched
    <3> QED
      BY <3>1, <3>2
  <2> QED
    BY <2>3, <2>4
<1>3. Varied(i)' \/ \E t \in Tasks : i \in (Numbers(t) \cup Writing(t))'
  BY <1>1 DEF SettledAt
<1> QED
  BY <1>2, <1>3 DEF SettledAt

LEMMA QuietStep ==
  ASSUME Typed, Settled, SeenOnlyWhile,
         unsettled \subseteq unsettled', Entries' \subseteq Ids,
         \A i \in Ids : Untouched(i),
         \A i \in Entries' \ Entries : ~ (i < nextId),
         \A t \in Tasks : /\ Writing(t)' \subseteq Writing(t)
                          /\ Writing(t)' # {} => job'[t].writes = job[t].writes,
         \A t \in Tasks : Numbers(t) \cup Writing(t) \subseteq (Numbers(t) \cup Writing(t))'
  PROVE  Settled'
<1> SUFFICES ASSUME NEW i \in Entries' \ unsettled' PROVE SettledAt(i)'
  BY DEF Settled
<1>1. CASE i \in Entries
  <2>1. SettledAt(i) /\ i \in Ids
    BY <1>1 DEF Settled
  <2> QED
    BY <2>1, StaysSettled
<1>2. CASE i \notin Entries
  <2>1. i \in Ids /\ EpisodesOf(i) = {}
    BY <1>2 DEF Typed, Keys, EpisodesOf
  <2>2. Varied(i)'
    BY <2>1 DEF Varied, Untouched
  <2>3. \A t \in Tasks : i \notin Writing(t)
    BY <1>2 DEF Writing, SeenOnlyWhile
  <2>4. \A t \in Tasks : i \notin Writing(t)'
    BY <2>3
  <2> QED
    BY <2>2, <2>4 DEF SettledAt
<1> QED
  BY <1>1, <1>2

\* A call that is no repair moves on, and neither begins nor ends to write numbers.
Plain(t) ==
  /\ Kind[t] # "repair" /\ Started
  /\ UNCHANGED <<episodes, unsettled>>
  /\ nextId' >= nextId /\ \A i \in Entries' \ Entries : ~ (i < nextId)
  /\ \A u \in Tasks \ {t} : job'[u] = job[u]
  /\ job[t].pc # "write" /\ job'[t].pc \notin {"idle", "write", "enrich"}
  /\ job'[t].seen \subseteq job[t].seen
  /\ \A s \in job[t].seen \ job'[t].seen : job[t].pc = "enrich" /\ s[1] = job[t].target
  /\ job'[t].seen # {} => job'[t].pc \in Numbering
  /\ Kind[t] = "import" /\ job'[t].pc \in Reading \cup {"walk", "chapter"} =>
       job'[t].seen = {}

LEMMA PlainKeeps ==
  ASSUME Typed, Typed', IInv, NEW t \in Tasks, Plain(t)
  PROVE  IInv'
<1>1. \A i \in Ids : Untouched(i)
  BY DEF Plain, Untouched, EpisodesOf
<1>2. Settled'
  <2>1. \A u \in Tasks : /\ Writing(u)' \subseteq Writing(u)
                         /\ Writing(u)' # {} => job'[u].writes = job[u].writes
    BY DEF Plain, Writing
  <2>2. \A u \in Tasks : Numbers(u) \cup Writing(u) \subseteq (Numbers(u) \cup Writing(u))'
    BY DEF Plain, Writing, Numbers
  <2>3. unsettled \subseteq unsettled' /\ Entries' \subseteq Ids
        /\ \A i \in Entries' \ Entries : ~ (i < nextId)
    BY DEF Plain, Entries
  <2> QED
    BY <1>1, <2>1, <2>2, <2>3, QuietStep DEF IInv
<1>3. SeenOnlyWhile'
  <2>1. nextId \in Nat /\ nextId' \in Nat /\ \A k \in Nat : k < nextId => k < nextId'
    BY DEF Typed, TablesTyped, Plain
  <2>2. Ids \subseteq Nat
    BY DEF Ids
  <2>3. \A u \in Tasks : /\ \A s \in job[u].seen : s[1] \in Nat
                         /\ job[u].pc = "write" => job[u].target \in Nat
                         /\ Kind[u] = "repair" => job[u].queue \subseteq Nat
    <3>1. \A u \in Tasks : job[u] \in JobType /\ MakesSense(u, job[u])
      BY DEF Typed, JobsTyped
    <3> QED
      BY <2>2, <3>1 DEF JobType, MakesSense
  <2> QED
    BY <2>1, <2>3 DEF Plain, IInv, SeenOnlyWhile
<1>4. RepairFirst'
  <2>1. Repairs' = Repairs /\ t \notin Repairs
    BY DEF Repairs, Plain
  <2>2. \A r \in Repairs : job'[r] = job[r] /\ job[r].pc = "done"
    BY <2>1 DEF Plain, Started, Repairs
  <2>3. ~ JustRepaired'
    BY <2>1 DEF JustRepaired, Plain
  <2> QED
    BY <2>1, <2>2, <2>3 DEF IInv, RepairFirst
<1> QED
  BY <1>2, <1>3, <1>4 DEF IInv

\* A call that is no repair and has begun finds the repair done.
LEMMA BusyStarted ==
  ASSUME IInv, NEW t \in Tasks, Kind[t] # "repair", job[t].pc # "idle"
  PROVE  Started
BY DEF IInv, RepairFirst, Started, Repairs

LEMMA BeginPlain ==
  ASSUME Typed, IInv, NEW t \in Tasks, Begin(t), Kind[t] # "repair"
  PROVE  Plain(t)
<1>1. /\ job[t].pc = "idle" /\ Started
      /\ UNCHANGED <<tables, restarts, unsettled>>
  BY DEF Begin, At
<1>2. job[t].seen = {}
  BY <1>1 DEF IInv, SeenOnlyWhile, Numbering, Reading
<1>3. \E j : /\ Became(t, j) /\ j.pc \in {"walk", "rows"} /\ j.seen = {}
  <2>1. \E files : Became(t, [Idle EXCEPT !.pc = "walk", !.files = files])
        \/ \E queue : Became(t, [Idle EXCEPT !.pc = "rows", !.queue = queue])
    BY Zenon DEF Begin
  <2>2. \A files : LET j == [Idle EXCEPT !.pc = "walk", !.files = files]
                   IN  j.pc = "walk" /\ j.seen = {}
    BY DEF Idle
  <2>3. \A queue : LET j == [Idle EXCEPT !.pc = "rows", !.queue = queue]
                   IN  j.pc = "rows" /\ j.seen = {}
    BY DEF Idle
  <2> QED
    BY <2>1, <2>2, <2>3, Zenon
<1>4. job'[t].pc \in {"walk", "rows"} /\ job'[t].seen = {} /\
      \A u \in Tasks \ {t} : job'[u] = job[u]
  BY <1>3 DEF Became, Typed, JobsTyped
<1> QED
  BY <1>1, <1>2, <1>4 DEF Plain, tables, Entries, Typed, TablesTyped

\* The moves of a call's job, by where it was.
LEMMA MovesPlain ==
  ASSUME Typed, Typed', IInv, NEW t \in Tasks, NEW pc,
         job[t].pc \notin {"idle", "write", "enrich", "root", "done"},
         pc \notin {"idle", "write", "enrich"}, pc \in Numbering \/ job[t].pc \notin Numbering,
         job'[t].pc = pc, job'[t].seen = job[t].seen,
         Kind[t] = "import" /\ pc \in Reading \cup {"walk", "chapter"} =>
           job[t].pc \in Reading \cup {"walk", "chapter"},
         \A u \in Tasks \ {t} : job'[u] = job[u],
         UNCHANGED <<episodes, unsettled>>,
         nextId' >= nextId, \A i \in Entries' \ Entries : ~ (i < nextId)
  PROVE  Plain(t)
<1>1. Kind[t] # "repair"
  <2>1. Kind[t] = "repair" => job[t].pc \in {"idle", "root", "write", "done"}
    BY DEF Typed, JobsTyped, MakesSense
  <2> QED
    BY <2>1
<1> QED
  BY <1>1, BusyStarted DEF Plain, IInv, SeenOnlyWhile

LEMMA BecameIs ==
  ASSUME Typed, NEW t \in Tasks, NEW j, Became(t, j)
  PROVE  job'[t] = j /\ \A u \in Tasks \ {t} : job'[u] = job[u]
BY DEF Typed, JobsTyped, Became

\* Where a call is, without the rest of its state.
LEMMA GotoIs ==
  ASSUME Typed, NEW t \in Tasks, NEW pc, Goto(t, pc)
  PROVE  /\ job'[t].pc = pc /\ job'[t].seen = job[t].seen
         /\ \A u \in Tasks \ {t} : job'[u] = job[u]
<1>1. job[t] \in JobType
  BY DEF Typed, JobsTyped
<1>2. [job[t] EXCEPT !.pc = pc].pc = pc /\ [job[t] EXCEPT !.pc = pc].seen = job[t].seen
  BY <1>1 DEF JobType
<1> QED
  BY <1>2, BecameIs DEF Goto

LEMMA ResolveIs ==
  ASSUME Typed, NEW t \in Tasks, NEW i, NEW pc, Resolve(t, i, pc)
  PROVE  /\ job'[t].pc = pc /\ job'[t].seen = job[t].seen
         /\ \A u \in Tasks \ {t} : job'[u] = job[u]
<1> DEFINE j == [job[t] EXCEPT !.target = i, !.pc = pc]
<1>1. job[t] \in JobType
  BY DEF Typed, JobsTyped
<1>2. j.pc = pc /\ j.seen = job[t].seen
  BY <1>1 DEF JobType
<1>3. Became(t, j)
  BY DEF Resolve
<1> HIDE DEF j
<1> QED
  BY <1>2, <1>3, BecameIs

LEMMA NoNewEntry ==
  ASSUME \A i \in Ids \ Entries : anime'[i] = anime[i]
  PROVE  Entries' \subseteq Entries
BY DEF Entries

LEMMA WalkPlain ==
  ASSUME Typed, Typed', IInv, NEW t \in Tasks, Walk(t)
  PROVE  Plain(t)
<1>1. /\ job[t].pc = "walk" /\ UNCHANGED <<tables, conn, restarts, unsettled>>
  BY DEF Walk, At
<1>2. \E pc \in {"finish", "chapter", "lookup"} : Goto(t, pc)
  BY DEF Walk
<1> QED
  BY <1>1, <1>2, GotoIs, MovesPlain
     DEF Numbering, Reading, tables, Entries, Typed, TablesTyped

LEMMA LookupPlain ==
  ASSUME Typed, Typed', IInv, NEW t \in Tasks, Lookup(t)
  PROVE  Plain(t)
<1>1. /\ job[t].pc = "lookup" /\ UNCHANGED <<tables, conn, restarts, unsettled>>
      /\ job[t] \in JobType
  BY DEF Lookup, At, Typed, JobsTyped
<1>2. CASE \E i \in Entries : Resolve(t, i, "upsert")
  BY <1>1, <1>2, ResolveIs, MovesPlain
     DEF Numbering, Reading, tables, Entries, Typed, TablesTyped
<1>3. CASE Became(t, [job[t] EXCEPT !.hints = Hints[File(t)], !.pc = "hint"])
  <2> DEFINE j == [job[t] EXCEPT !.hints = Hints[File(t)], !.pc = "hint"]
  <2>1. j.pc = "hint" /\ j.seen = job[t].seen
    BY <1>1 DEF JobType
  <2>2. Became(t, j)
    BY <1>3
  <2> HIDE DEF j
  <2> QED
    BY <1>1, <2>1, <2>2, BecameIs, MovesPlain
       DEF Numbering, Reading, tables, Entries, Typed, TablesTyped
<1> QED
  BY <1>2, <1>3 DEF Lookup

LEMMA FindExistingPlain ==
  ASSUME Typed, Typed', IInv, NEW t \in Tasks, FindExisting(t)
  PROVE  Plain(t)
<1>1. /\ job[t].pc = "hint" /\ UNCHANGED <<tables, conn, restarts, unsettled>>
      /\ job[t] \in JobType
  BY DEF FindExisting, At, Typed, JobsTyped
<1>2. CASE \E i : Resolve(t, i, "promote")
  BY <1>1, <1>2, ResolveIs, MovesPlain
     DEF Numbering, Reading, tables, Entries, Typed, TablesTyped
<1>3. CASE Became(t, [job[t] EXCEPT !.hints = Tail(@)])
  <2> DEFINE j == [job[t] EXCEPT !.hints = Tail(job[t].hints)]
  <2>1. j.pc = "hint" /\ j.seen = job[t].seen
    BY <1>1 DEF JobType
  <2>2. Became(t, j)
    BY <1>3
  <2> HIDE DEF j
  <2> QED
    BY <1>1, <2>1, <2>2, BecameIs, MovesPlain
       DEF Numbering, Reading, tables, Entries, Typed, TablesTyped
<1> QED
  BY <1>2, <1>3 DEF FindExisting

LEMMA PromoteRootPlain ==
  ASSUME Typed, Typed', IInv, NEW t \in Tasks, PromoteRoot(t)
  PROVE  Plain(t)
<1>1. /\ job[t].pc = "promote" /\ Goto(t, "upsert")
      /\ UNCHANGED <<episodes, nextId, unsettled>>
  BY DEF PromoteRoot, At
<1>2. \A i \in Ids \ Entries : anime'[i] = anime[i]
  BY DEF PromoteRoot, Promote, Typed, TablesTyped
<1> QED
  BY <1>1, <1>2, NoNewEntry, GotoIs, MovesPlain DEF Numbering, Reading, Typed, TablesTyped

LEMMA InsertPlain ==
  ASSUME Typed, Typed', IInv, NEW t \in Tasks, Insert(t)
  PROVE  Plain(t)
<1>1. /\ job[t].pc = "hint" /\ UNCHANGED <<episodes, unsettled>>
      /\ \E i : Resolve(t, i, "upsert")
  BY DEF Insert, At
<1>2. CASE UNCHANGED <<anime, nextId>>
  BY <1>1, <1>2, ResolveIs, MovesPlain DEF Numbering, Reading, Entries, Typed, TablesTyped
<1>3. CASE nextId' = nextId + 1 /\ \E e : anime' = [anime EXCEPT ![nextId] = e]
  <2>1. nextId \in Nat /\ nextId' >= nextId
    BY <1>3 DEF Typed, TablesTyped
  <2>2. \A i \in Entries' \ Entries : i = nextId
    BY <1>3 DEF Entries, Typed, TablesTyped
  <2>3. \A i \in Entries' \ Entries : ~ (i < nextId)
    BY <2>1, <2>2
  <2> QED
    BY <1>1, <2>1, <2>3, ResolveIs, MovesPlain DEF Numbering, Reading
<1> QED
  BY <1>2, <1>3, Zenon DEF Insert

LEMMA ApplyDefaultsPlain ==
  ASSUME Typed, Typed', IInv, NEW t \in Tasks, ApplyDefaults(t)
  PROVE  Plain(t)
<1>1. /\ job[t].pc = "defaults" /\ Goto(t, "finish")
      /\ UNCHANGED <<episodes, nextId, unsettled>>
  BY DEF ApplyDefaults, At
<1>2. \A i \in Ids \ Entries : anime'[i] = anime[i]
  BY DEF ApplyDefaults, Typed, TablesTyped
<1> QED
  BY <1>1, <1>2, NoNewEntry, GotoIs, MovesPlain DEF Numbering, Reading, Typed, TablesTyped

LEMMA IndexMangaPlain ==
  ASSUME Typed, Typed', IInv, NEW t \in Tasks, IndexMangaFile(t)
  PROVE  Plain(t)
<1> DEFINE j == [job[t] EXCEPT !.files = Tail(job[t].files), !.pc = "walk"]
<1>1. /\ job[t].pc = "chapter" /\ Became(t, j) /\ job[t] \in JobType
      /\ UNCHANGED <<anime, episodes, nextId, conn, restarts, unsettled>>
  BY DEF IndexMangaFile, At, Typed, JobsTyped
<1>2. j.pc = "walk" /\ j.seen = job[t].seen
  BY <1>1 DEF JobType
<1> HIDE DEF j
<1> QED
  BY <1>1, <1>2, BecameIs, MovesPlain DEF Numbering, Reading, Entries, Typed, TablesTyped

LEMMA RowsPlain ==
  ASSUME Typed, Typed', IInv, NEW t \in Tasks,
         ReadRow(t) \/ SaveBlurhash(t) \/ EndRows(t)
  PROVE  Plain(t)
<1>1. job[t] \in JobType
  BY DEF Typed, JobsTyped
<1>2. CASE EndRows(t)
  BY <1>2, GotoIs, MovesPlain
     DEF EndRows, tables, Numbering, Reading, Entries, Typed, TablesTyped
<1>3. CASE SaveBlurhash(t)
  <2> DEFINE j == [job[t] EXCEPT !.target = None, !.pc = "rows"]
  <2>1. /\ job[t].pc = "hash" /\ Became(t, j) /\ UNCHANGED <<episodes, nextId, unsettled>>
    BY <1>3 DEF SaveBlurhash, At
  <2>2. j.pc = "rows" /\ j.seen = job[t].seen
    BY <1>1 DEF JobType
  <2>3. \A i \in Ids \ Entries : anime'[i] = anime[i]
    BY <1>3 DEF SaveBlurhash, Typed, TablesTyped
  <2> HIDE DEF j
  <2> QED
    BY <2>1, <2>2, <2>3, NoNewEntry, BecameIs, MovesPlain
       DEF Numbering, Reading, Typed, TablesTyped
<1>4. CASE ReadRow(t)
  <2>1. job[t].pc = "rows" /\ UNCHANGED <<tables, conn, restarts, unsettled>>
    BY <1>4 DEF ReadRow
  <2>2. PICK x \in job[t].queue :
          \/ Became(t, [job[t] EXCEPT !.queue = @ \ {x}])
          \/ Became(t, [[job[t] EXCEPT !.queue = @ \ {x}] EXCEPT !.target = x, !.pc = "hash"])
    BY <1>4, Zenon DEF ReadRow
  <2> DEFINE j == [job[t] EXCEPT !.queue = job[t].queue \ {x}]
             k == [j EXCEPT !.target = x, !.pc = "hash"]
  <2>3. j \in JobType /\ j.pc = "rows" /\ j.seen = job[t].seen
    BY <1>1, <2>1 DEF JobType
  <2>4. Became(t, j) \/ Became(t, k)
    BY <2>2, Zenon
  <2> HIDE DEF j
  <2>5. k.pc = "hash" /\ k.seen = job[t].seen
    BY <2>3 DEF JobType
  <2> HIDE DEF k
  <2> QED
    BY <2>1, <2>3, <2>4, <2>5, BecameIs, MovesPlain
       DEF Numbering, Reading, Entries, tables, Typed, TablesTyped
<1> QED
  BY <1>2, <1>3, <1>4

LEMMA EnrichedEntries ==
  ASSUME Typed, NEW i, NEW show, NEW hashed, anime' = Enriched(i, show, hashed)
  PROVE  Entries' \subseteq Entries
<1>1. \A k \in Ids \ Entries : anime'[k] = anime[k]
  BY DEF Enriched, Typed, TablesTyped
<1> QED
  BY <1>1, NoNewEntry

LEMMA EnrichUnmatchedPlain ==
  ASSUME Typed, Typed', IInv, NEW t \in Tasks,
         EnrichUnmatchedAnime(t) \/ EnrichUnmatchedManga(t)
  PROVE  Plain(t)
<1>1. job[t] \in JobType
  BY DEF Typed, JobsTyped
<1>2. /\ job[t].pc \in {"unmatched", "mangas"} /\ UNCHANGED <<episodes, nextId, unsettled>>
      /\ Entries' \subseteq Entries
  <2>1. CASE EnrichUnmatchedAnime(t)
    <3>1. UNCHANGED anime \/ \E i, show, hashed : anime' = Enriched(i, show, hashed)
      BY <2>1, Zenon DEF EnrichUnmatchedAnime
    <3>2. Entries' \subseteq Entries
      BY <3>1, EnrichedEntries DEF Entries
    <3> QED
      BY <2>1, <3>2 DEF EnrichUnmatchedAnime, At
  <2>2. CASE EnrichUnmatchedManga(t)
    BY <2>2 DEF EnrichUnmatchedManga, At, Entries
  <2> QED
    BY <2>1, <2>2
<1>3. \/ \E u : Became(t, [job[t] EXCEPT !.queue = @ \ {u}])
      \/ \E some : Became(t, [job[t] EXCEPT !.pc = "mangas", !.queue = some])
      \/ Goto(t, "done")
  BY Zenon DEF EnrichUnmatchedAnime, EnrichUnmatchedManga
<1>4. CASE \E u : Became(t, [job[t] EXCEPT !.queue = @ \ {u}])
  <2>1. PICK u : Became(t, [job[t] EXCEPT !.queue = @ \ {u}])
    BY <1>4
  <2> DEFINE j == [job[t] EXCEPT !.queue = job[t].queue \ {u}]
  <2>2. j.pc = job[t].pc /\ j.seen = job[t].seen /\ Became(t, j)
    BY <1>1, <2>1 DEF JobType
  <2> HIDE DEF j
  <2> QED
    BY <1>2, <2>2, BecameIs, MovesPlain DEF Numbering, Reading, Typed, TablesTyped
<1>5. CASE \E some : Became(t, [job[t] EXCEPT !.pc = "mangas", !.queue = some])
  <2>1. PICK some : Became(t, [job[t] EXCEPT !.pc = "mangas", !.queue = some])
    BY <1>5
  <2> DEFINE j == [job[t] EXCEPT !.pc = "mangas", !.queue = some]
  <2>2. j.pc = "mangas" /\ j.seen = job[t].seen /\ Became(t, j)
    BY <1>1, <2>1 DEF JobType
  <2> HIDE DEF j
  <2> QED
    BY <1>2, <2>2, BecameIs, MovesPlain DEF Numbering, Reading, Typed, TablesTyped
<1>6. CASE Goto(t, "done")
  BY <1>2, <1>6, GotoIs, MovesPlain DEF Numbering, Reading, Typed, TablesTyped
<1> QED
  BY <1>3, <1>4, <1>5, <1>6

\* What was seen of an entry is dropped when its metadata has been looked up.
LEMMA EnrichPlain ==
  ASSUME Typed, Typed', IInv, NEW t \in Tasks, Enrich(t)
  PROVE  Plain(t)
<1> DEFINE seen == {s \in job[t].seen : s[1] = job[t].target}
           j == [job[t] EXCEPT !.seen = job[t].seen \ seen, !.target = None, !.pc = "finish"]
<1>1. /\ job[t].pc = "enrich" /\ Became(t, j) /\ job[t] \in JobType
      /\ UNCHANGED <<episodes, nextId, unsettled>>
  BY DEF Enrich, At, Typed, JobsTyped
<1>2. j.pc = "finish" /\ j.seen = job[t].seen \ seen
  <2> HIDE DEF seen
  <2> QED
    BY <1>1 DEF JobType
<1>3. Entries' \subseteq Entries
  <2>1. \E i, show, hashed : anime' = Enriched(i, show, hashed)
    BY Zenon DEF Enrich
  <2> QED
    BY <2>1, EnrichedEntries
<1> HIDE DEF j
<1>4. job'[t] = j /\ \A u \in Tasks \ {t} : job'[u] = job[u]
  BY <1>1, BecameIs
<1>5. Kind[t] # "repair"
  BY <1>1 DEF Typed, JobsTyped, MakesSense
<1>6. Started
  BY <1>1, <1>5, BusyStarted
<1>7. \A s \in job[t].seen \ job'[t].seen : s[1] = job[t].target
  BY <1>2, <1>4
<1> QED
  BY <1>1, <1>2, <1>3, <1>4, <1>5, <1>6, <1>7 DEF Plain, Numbering, Reading, Typed, TablesTyped

\* The entry of an episode was deleted meanwhile.
LEMMA UpsertFailsPlain ==
  ASSUME Typed, Typed', IInv, NEW t \in Tasks, UpsertEpisode(t),
         UNCHANGED <<episodes, unsettled>>, job'[t].seen = job[t].seen,
         job'[t].pc = IF Kind[t] = "import" THEN "done" ELSE "walk",
         \A u \in Tasks \ {t} : job'[u] = job[u]
  PROVE  Plain(t)
<1>1. job[t].pc = "upsert" /\ UNCHANGED <<anime, nextId>>
  BY DEF UpsertEpisode, At
<1>2. Kind[t] # "repair"
  BY <1>1 DEF Typed, JobsTyped, MakesSense
<1>3. Started
  BY <1>1, <1>2, BusyStarted
<1>4. Kind[t] = "import" => job[t].seen = {}
  BY <1>1 DEF IInv, SeenOnlyWhile, Reading
<1> QED
  BY <1>1, <1>2, <1>3, <1>4 DEF Plain, Numbering, Reading, Typed, TablesTyped, Entries

LEMMA FinishedPlain ==
  ASSUME Typed, Typed', IInv, NEW t \in Tasks, Finish(t),
         UNCHANGED unsettled, job'[t].seen = {}, job[t].seen = {},
         job'[t].pc \in {"done", "unmatched"},
         \A u \in Tasks \ {t} : job'[u] = job[u]
  PROVE  Plain(t)
<1>1. job[t].pc = "finish" /\ UNCHANGED tables
  BY DEF Finish, At
<1>2. Kind[t] # "repair"
  BY <1>1 DEF Typed, JobsTyped, MakesSense
<1>3. Started
  BY <1>1, <1>2, BusyStarted
<1> QED
  BY <1>1, <1>2, <1>3 DEF Plain, tables, Numbering, Reading, Typed, TablesTyped, Entries

----------------------------------------------------------------------------
(* The steps that number, and those that disturb it.                       *)

\* A step of a call that is no repair: the repair is done, and stays so.
LEMMA OthersRepairDone ==
  ASSUME IInv, NEW t \in Tasks, Kind[t] # "repair", Started, job'[t].pc # "idle",
         \A u \in Tasks \ {t} : job'[u] = job[u]
  PROVE  RepairFirst'
<1>1. \A r \in Repairs : job'[r] = job[r] /\ job[r].pc = "done"
  BY DEF Started, Repairs
<1>2. ~ JustRepaired'
  BY DEF JustRepaired, Repairs
<1> QED
  BY <1>1, <1>2 DEF IInv, RepairFirst

\* What a call has seen, as long as no id and no job of another changes.
LEMMA SeenStays ==
  ASSUME Typed, SeenOnlyWhile, NEW t \in Tasks, UNCHANGED nextId,
         \A u \in Tasks \ {t} : job'[u] = job[u],
         job'[t].seen # {} => job'[t].pc \in Numbering,
         Kind[t] = "import" /\ job'[t].pc \in Reading \cup {"walk", "chapter"} =>
           job'[t].seen = {},
         \A s \in job'[t].seen : s[1] < nextId,
         job'[t].pc = "write" => job'[t].target < nextId,
         Kind[t] = "repair" => job'[t].queue \subseteq job[t].queue
  PROVE  SeenOnlyWhile'
BY DEF SeenOnlyWhile

LEMMA UpsertSettles ==
  ASSUME LibraryAssumption, Typed, Typed', IInv, NEW t \in Tasks, UpsertEpisode(t)
  PROVE  IInv'
<1>1. /\ job[t].pc = "upsert" /\ UNCHANGED <<anime, manga, chapters, nextId, conn, restarts>>
  BY DEF UpsertEpisode, At
<1>2. job[t] \in JobType /\ MakesSense(t, job[t])
  BY DEF Typed, JobsTyped
<1> DEFINE i == job[t].target
           f == File(t)
           rest == [job[t] EXCEPT !.target = None, !.hints = <<>>]
<1>3. i \in Ids /\ f \in Videos
  BY <1>1, <1>2 DEF MakesSense, Reading, File
<1>4. rest.seen = job[t].seen /\ rest.files = job[t].files /\ rest = [rest EXCEPT !.hints = <<>>]
  BY <1>2 DEF JobType
<1>4a. DOMAIN rest = DOMAIN job[t]
  OBVIOUS
<1>5. DOMAIN job[t] = {"pc", "files", "hints", "target", "seen", "queue", "writes"}
  BY <1>2 DEF JobType
<1> HIDE DEF rest
<1>6. CASE /\ i \in Entries /\ episodes' = Upsert(i, f)
           /\ unsettled' = unsettled \cup ({i} \cap OtherWrites(t)) \cup (Holders(f) \ {i})
           /\ Became(t, [rest EXCEPT !.files = Tail(@), !.seen = @ \cup {<<i, f>>},
                           !.pc = IF Kind[t] = "import" THEN "defaults" ELSE "walk"])
  <2> DEFINE pc == IF Kind[t] = "import" THEN "defaults" ELSE "walk"
             j == [rest EXCEPT !.files = Tail(rest.files), !.seen = rest.seen \cup {<<i, f>>},
                               !.pc = pc]
  <2>1. j.pc = pc /\ j.seen = job[t].seen \cup {<<i, f>>}
    BY <1>4, <1>4a, <1>5
  <2>2. Became(t, j)
    BY <1>6
  <2> HIDE DEF j
  <2>3. /\ job'[t].pc = pc /\ job'[t].seen = job[t].seen \cup {<<i, f>>}
        /\ \A u \in Tasks \ {t} : job'[u] = job[u]
    BY <2>1, <2>2, BecameIs
  <2>4. Kind[t] # "repair" /\ Kind[t] \in {"scan", "import"}
    BY <1>1, <1>2 DEF MakesSense, Reading, Numbering
  <2>5. Started
    BY <1>1, <2>4, BusyStarted
  <2>6. /\ episodes'[f] # None /\ episodes'[f].anime = i
        /\ \A g \in Videos \ {f} : episodes'[g] = episodes[g]
    BY <1>3, <1>6, UpsertRow
  <2>7. ASSUME NEW k \in Entries' \ unsettled' PROVE SettledAt(k)'
    <3>1. k \in Entries /\ k \in Ids /\ k \notin unsettled /\ SettledAt(k)
      BY <1>1, <1>6, <2>7 DEF Entries, IInv, Settled
    <3>2. Writing(t) = {} /\ Writing(t)' = {} /\ \A u \in Tasks \ {t} : Writing(u)' = Writing(u)
      BY <1>1, <2>3 DEF Writing
    <3>3. /\ \A u \in Tasks \ {t} : Numbers(u)' = Numbers(u)
          /\ Numbers(t) \cup {i} \subseteq Numbers(t)'
      <4>1. Numbers(t)' = {s[1] : s \in job'[t].seen}
        BY <2>3 DEF Numbers
      <4>2. Numbers(t) \subseteq {s[1] : s \in job[t].seen}
        BY DEF Numbers
      <4>3. <<i, f>>[1] = i
        OBVIOUS
      <4> HIDE DEF i, f
      <4>4. i \in {s[1] : s \in job'[t].seen}
        BY <2>3, <4>3
      <4>5. {s[1] : s \in job[t].seen} \subseteq {s[1] : s \in job'[t].seen}
        BY <2>3
      <4>6. \A u \in Tasks \ {t} : Numbers(u)' = Numbers(u)
        BY <2>3 DEF Numbers
      <4> QED
        BY <4>1, <4>2, <4>4, <4>5, <4>6
    <3>4. CASE k = i
      <4>1. k \notin OtherWrites(t)
        BY <1>6, <2>7, <3>4
      <4>2. \A u \in Tasks : k \notin Writing(u)'
        BY <4>1, <3>2 DEF OtherWrites
      <4> QED
        BY <3>3, <3>4, <4>2 DEF SettledAt
    <3>5. CASE k # i
      <4>1. f \notin EpisodesOf(k)
        BY <1>6, <2>7, <3>1, <3>5 DEF Holders
      <4>2. Untouched(k)
        BY <2>6, <3>5, <4>1 DEF Untouched, EpisodesOf
      <4> QED
        BY <2>3, <3>1, <3>2, <3>3, <4>2, StaysSettled
    <3> QED
      BY <3>4, <3>5
  <2>8. Settled'
    BY <2>7 DEF Settled
  <2>9. SeenOnlyWhile'
    <3>1. i < nextId
      BY <1>6 DEF Typed, Keys
    <3>2. \A s \in job'[t].seen : s[1] < nextId
      BY <2>3, <3>1 DEF IInv, SeenOnlyWhile
    <3> QED
      BY <1>1, <2>3, <2>4, <3>2, SeenStays DEF IInv, Numbering, Reading
  <2>10. RepairFirst'
    BY <2>3, <2>4, <2>5, OthersRepairDone
  <2> QED
    BY <2>8, <2>9, <2>10 DEF IInv
<1>7. CASE /\ UNCHANGED <<episodes, unsettled>>
           /\ Became(t, [rest EXCEPT !.files = Tail(@),
                           !.pc = IF Kind[t] = "import" THEN "done" ELSE "walk"])
  <2> DEFINE pc == IF Kind[t] = "import" THEN "done" ELSE "walk"
             j == [rest EXCEPT !.files = Tail(rest.files), !.pc = pc]
  <2>1. j.pc = pc /\ j.seen = job[t].seen
    BY <1>4, <1>4a, <1>5
  <2>2. Became(t, j)
    BY <1>7
  <2> HIDE DEF j
  <2>3. /\ job'[t].pc = pc /\ job'[t].seen = job[t].seen
        /\ \A u \in Tasks \ {t} : job'[u] = job[u]
    BY <2>1, <2>2, BecameIs
  <2> QED
    BY <1>7, <2>3, UpsertFailsPlain, PlainKeeps
<1> QED
  BY <1>6, <1>7, Zenon DEF UpsertEpisode, rest

\* A call takes an entry to number: its rows are left as they are.
LEMMA BeginsToNumber ==
  ASSUME LibraryAssumption, Typed, Typed', IInv, NEW t \in Tasks, NEW i \in Ids, i < nextId,
         UNCHANGED <<episodes, nextId>>, Entries' \subseteq Entries, Settle(t, i),
         job[t].pc # "write" /\ job[t].pc # "enrich",
         job'[t].pc = "write", job'[t].target = i, job'[t].writes = Renumbered(i),
         job'[t].seen = job[t].seen,
         \A u \in Tasks \ {t} : job'[u] = job[u]
  PROVE  Settled'
<1>1. \A k \in Ids : Untouched(k)
  BY DEF Untouched, EpisodesOf
<1>2. /\ Writing(t) = {} /\ Writing(t)' = {i}
      /\ \A u \in Tasks \ {t} : Writing(u)' = Writing(u) /\ Numbers(u)' = Numbers(u)
      /\ Numbers(t) \ {i} \subseteq Numbers(t)'
  BY DEF Writing, Numbers
<1>3. OtherWrites(t)' = OtherWrites(t)
  BY <1>2 DEF OtherWrites
<1>4. ASSUME NEW k \in Entries' \ unsettled' PROVE SettledAt(k)'
  <2>1. k \in Entries /\ k \in Ids
    BY DEF Entries
  <2>2. CASE k = i
    <3>1. k \notin OtherWrites(t)
      BY <1>4, <2>2 DEF Settle
    <3>2. WritesPlaces(t, k)'
      BY <1>1, <2>2, RenumberedPlaces DEF Untouched
    <3>3. \A u \in Tasks \ {t} : k \notin Writing(u)'
      BY <1>2, <3>1 DEF OtherWrites
    <3>4. k \in Writing(t)'
      BY <1>2, <2>2
    <3> QED
      BY <1>3, <3>1, <3>2, <3>3, <3>4 DEF SettledAt
  <2>3. CASE k # i
    <3>1. SettledAt(k)
      BY <1>4, <2>1, <2>3 DEF Settle, IInv, Settled
    <3> QED
      BY <1>1, <1>2, <2>1, <2>3, <3>1, StaysSettled
  <2> QED
    BY <2>2, <2>3
<1> QED
  BY <1>4 DEF Settled

LEMMA FinishSettles ==
  ASSUME LibraryAssumption, Typed, Typed', IInv, NEW t \in Tasks, Finish(t)
  PROVE  IInv'
<1>1. job[t].pc = "finish" /\ UNCHANGED <<tables, conn, restarts>>
  BY DEF Finish, At
<1>2. job[t] \in JobType /\ MakesSense(t, job[t])
  BY DEF Typed, JobsTyped
<1>3. ASSUME NEW s \in job[t].seen, Settle(t, s[1]),
             Became(t, [job[t] EXCEPT !.target = s[1], !.writes = Renumbered(s[1]),
                                      !.pc = "write"])
      PROVE  IInv'
  <2> DEFINE j == [job[t] EXCEPT !.target = s[1], !.writes = Renumbered(s[1]), !.pc = "write"]
  <2>1. /\ j.pc = "write" /\ j.target = s[1] /\ j.writes = Renumbered(s[1])
        /\ j.seen = job[t].seen
    BY <1>2 DEF JobType
  <2>2. Became(t, j)
    BY <1>3
  <2> HIDE DEF j
  <2>3. job'[t] = j /\ \A u \in Tasks \ {t} : job'[u] = job[u]
    BY <2>2, BecameIs
  <2>4. s[1] \in Ids /\ s[1] < nextId
    BY <1>2 DEF JobType, IInv, SeenOnlyWhile
  <2>5. Settled'
    BY <1>1, <1>3, <2>1, <2>3, <2>4, BeginsToNumber DEF tables, Entries
  <2>6. Kind[t] # "repair"
    BY <1>1, <1>2 DEF MakesSense
  <2>7. Started
    BY <1>1, <2>6, BusyStarted
  <2>8. SeenOnlyWhile'
    <3>1. \A x \in job'[t].seen : x[1] < nextId
      BY <2>1, <2>3 DEF IInv, SeenOnlyWhile
    <3> QED
      BY <1>1, <2>1, <2>3, <2>4, <2>6, <3>1, SeenStays DEF IInv, tables, Numbering, Reading
  <2>9. RepairFirst'
    BY <2>1, <2>3, <2>6, <2>7, OthersRepairDone
  <2> QED
    BY <2>5, <2>8, <2>9 DEF IInv
<1>4. CASE /\ job[t].seen = {} /\ UNCHANGED unsettled
           /\ \/ Became(t, [Idle EXCEPT !.pc = "done"])
              \/ \E some : Became(t, [Idle EXCEPT !.pc = "unmatched", !.queue = some])
  <2>1. \A some : LET j == [Idle EXCEPT !.pc = "unmatched", !.queue = some]
                  IN  j.pc = "unmatched" /\ j.seen = {}
    BY DEF Idle
  <2>2. LET j == [Idle EXCEPT !.pc = "done"] IN j.pc = "done" /\ j.seen = {}
    BY DEF Idle
  <2>3. \E j : Became(t, j) /\ j.pc \in {"done", "unmatched"} /\ j.seen = {}
    BY <1>4, <2>1, <2>2, Zenon
  <2>4. /\ job'[t].pc \in {"done", "unmatched"} /\ job'[t].seen = {}
        /\ \A u \in Tasks \ {t} : job'[u] = job[u]
    BY <2>3, BecameIs
  <2> QED
    BY <1>4, <2>4, FinishedPlain, PlainKeeps
<1> QED
  BY <1>3, <1>4, Zenon DEF Finish

LEMMA WriteNumberSettles ==
  ASSUME LibraryAssumption, Typed, Typed', IInv, NEW t \in Tasks, WriteNumber(t)
  PROVE  IInv'
<1>1. /\ job[t].pc = "write"
      /\ UNCHANGED <<anime, manga, chapters, nextId, conn, restarts>>
  BY DEF WriteNumber, At
<1>2. job[t] \in JobType /\ MakesSense(t, job[t])
  BY DEF Typed, JobsTyped
<1>3. PICK w \in job[t].writes :
        /\ episodes' = [episodes EXCEPT ![w[1]].num = w[2]]
        /\ Became(t, [job[t] EXCEPT !.writes = @ \ {w}])
        /\ unsettled' = unsettled \cup (Holders(w[1]) \ {job[t].target})
  BY DEF WriteNumber
<1> DEFINE i == job[t].target
           j == [job[t] EXCEPT !.writes = job[t].writes \ {w}]
<1>4. /\ j.pc = "write" /\ j.target = i /\ j.queue = job[t].queue /\ j.seen = job[t].seen
      /\ j.writes = job[t].writes \ {w}
  BY <1>1, <1>2 DEF JobType
<1>5. Became(t, j)
  BY <1>3
<1> HIDE DEF j
<1>6. /\ job'[t] = j /\ \A u \in Tasks \ {t} : job'[u] = job[u]
  BY <1>5, BecameIs
<1>7. w[1] \in Videos /\ w[2] \in Nat /\ episodes[w[1]] \in RowType /\ w = <<w[1], w[2]>>
  <2>1. w[1] \in Videos /\ w[2] \in Nat /\ w = <<w[1], w[2]>>
    BY <1>2 DEF JobType
  <2>2. episodes[w[1]] # None
    BY DEF Typed, Keys
  <2> QED
    BY <2>1, <2>2 DEF Typed, TablesTyped
<1>8. /\ episodes'[w[1]] # None /\ episodes'[w[1]].anime = episodes[w[1]].anime
      /\ episodes'[w[1]].num = w[2]
      /\ \A g \in Videos \ {w[1]} : episodes'[g] = episodes[g]
  <2> DEFINE row == [episodes[w[1]] EXCEPT !.num = w[2]]
  <2>1. row \in RowType /\ row.anime = episodes[w[1]].anime /\ row.num = w[2]
    BY <1>7 DEF RowType
  <2>2. row # None
    BY <2>1 DEF LibraryAssumption
  <2>3. episodes' = [episodes EXCEPT ![w[1]] = row]
    BY <1>3
  <2> HIDE DEF row
  <2> QED
    BY <1>7, <2>1, <2>2, <2>3 DEF Typed, TablesTyped
<1>9. \A k \in Ids : EpisodesOf(k)' = EpisodesOf(k)
  BY <1>7, <1>8 DEF EpisodesOf, LibraryAssumption
<1>10. /\ \A u \in Tasks : Writing(u)' = Writing(u) /\ Numbers(u)' = Numbers(u)
       /\ Writing(t) = {i}
  BY <1>1, <1>4, <1>6 DEF Writing, Numbers
<1>11. ASSUME NEW k \in Entries' \ unsettled' PROVE SettledAt(k)'
  <2>1. k \in Entries /\ k \in Ids /\ SettledAt(k)
    BY <1>1, <1>3, <1>11 DEF Entries, IInv, Settled
  <2>2. CASE k # i
    <3>1. w[1] \notin EpisodesOf(k)
      BY <1>3, <1>11, <2>1, <2>2 DEF Holders
    <3>2. Untouched(k)
      BY <1>8, <1>9, <2>1, <3>1 DEF Untouched, EpisodesOf
    <3> QED
      BY <1>6, <1>10, <2>1, <2>2, <3>2, StaysSettled
  <2>3. CASE k = i
    <3>1. k \in Writing(t) /\ k \in Writing(t)'
      BY <1>10, <2>3
    <3>2. k \notin OtherWrites(t) /\ WritesPlaces(t, k)
      BY <2>1, <3>1 DEF SettledAt
    <3>3. k \notin OtherWrites(t)' /\ \A u \in Tasks \ {t} : k \notin Writing(u)'
      BY <1>10, <3>2 DEF OtherWrites
    <3>4. /\ Cardinality(EpisodesOf(k)) > 1
          /\ \A x \in job[t].writes : x[2] = Place(x[1], EpisodesOf(k))
          /\ \A f \in EpisodesOf(k) : \/ episodes[f].num = Place(f, EpisodesOf(k))
                                      \/ <<f, Place(f, EpisodesOf(k))>> \in job[t].writes
      BY <1>3, <3>2 DEF WritesPlaces
    <3>5. \A f \in EpisodesOf(k) : \/ episodes'[f].num = Place(f, EpisodesOf(k))
                                   \/ <<f, Place(f, EpisodesOf(k))>> \in job'[t].writes
      <4> TAKE f \in EpisodesOf(k)
      <4>1. CASE f = w[1]
        BY <1>8, <3>4, <4>1
      <4>2. CASE f # w[1]
        <5>1. episodes'[f] = episodes[f]
          BY <1>8, <4>2 DEF EpisodesOf
        <5>2. <<f, Place(f, EpisodesOf(k))>> # w
          BY <4>2
        <5> QED
          BY <1>4, <1>6, <3>4, <5>1, <5>2
      <4> QED
        BY <4>1, <4>2
    <3>6. \A f : Place(f, EpisodesOf(k))' = Place(f, EpisodesOf(k))
      BY <1>9, <2>1 DEF Place
    <3>7. \A x \in job'[t].writes : x[2] = Place(x[1], EpisodesOf(k))
      BY <1>4, <1>6, <3>4
    <3>8. WritesPlaces(t, k)'
      BY <1>9, <2>1, <3>4, <3>5, <3>6, <3>7 DEF WritesPlaces
    <3> QED
      BY <3>1, <3>3, <3>8 DEF SettledAt
  <2> QED
    BY <2>2, <2>3
<1>12. Settled'
  BY <1>11 DEF Settled
<1>13. SeenOnlyWhile'
  BY <1>1, <1>4, <1>6, SeenStays DEF IInv, SeenOnlyWhile, Numbering, Reading
<1>14. RepairFirst'
  <2>1. CASE Kind[t] # "repair"
    <3>1. Started
      BY <1>1, <2>1, BusyStarted
    <3> QED
      BY <1>4, <1>6, <2>1, <3>1, OthersRepairDone
  <2>2. CASE Kind[t] = "repair"
    <3>1. t \in Repairs /\ Repairs = {t} /\ Repairs' = Repairs
      BY <2>2 DEF Repairs, LibraryAssumption
    <3>2. w[1] \in EpisodesOf(i)
      BY <1>1, <3>1 DEF IInv, RepairFirst
    <3>3. Holders(w[1]) \subseteq {i}
      BY <3>2 DEF Holders, EpisodesOf
    <3>4. unsettled' = unsettled /\ Entries' = Entries
      BY <1>1, <1>3, <3>3 DEF Entries
    <3>5. \A x \in job'[t].writes : x[1] \in EpisodesOf(i)'
      <4>1. i \in Ids
        BY <1>1, <1>2 DEF MakesSense
      <4> QED
        BY <1>1, <1>4, <1>6, <1>9, <3>1, <4>1 DEF IInv, RepairFirst
    <3>6. ~ JustRepaired'
      BY <1>4, <1>6, <3>1 DEF JustRepaired, Started
    <3>7. job[t].seen = {} /\ (\A u \in Tasks \ {t} : job[u].pc = "idle")
          /\ unsettled \cap Entries \subseteq job[t].queue
      BY <1>1, <3>1 DEF IInv, RepairFirst
    <3> QED
      BY <1>4, <1>6, <3>1, <3>4, <3>5, <3>6, <3>7 DEF RepairFirst
  <2> QED
    BY <2>1, <2>2
<1> QED
  BY <1>12, <1>13, <1>14 DEF IInv

LEMMA NormalizedSettles ==
  ASSUME LibraryAssumption, Typed, Typed', IInv, NEW t \in Tasks, Normalized(t)
  PROVE  IInv'
<1>1. /\ job[t].pc = "write" /\ job[t].writes = {}
      /\ UNCHANGED <<tables, conn, restarts, unsettled>>
  BY DEF Normalized, At
<1>2. job[t] \in JobType /\ MakesSense(t, job[t])
  BY DEF Typed, JobsTyped
<1> DEFINE i == job[t].target
<1>3. /\ job'[t].seen = job[t].seen /\ job'[t].queue = job[t].queue
      /\ \A u \in Tasks \ {t} : job'[u] = job[u]
      /\ job'[t].pc = IF Kind[t] = "repair" THEN "root" ELSE "enrich"
      /\ Kind[t] # "repair" => job'[t].target = i
  <2>1. CASE Kind[t] = "repair"
    <3> DEFINE j == [job[t] EXCEPT !.target = None, !.pc = "root"]
    <3>1. j.pc = "root" /\ j.seen = job[t].seen /\ j.queue = job[t].queue
      BY <1>2 DEF JobType
    <3>2. Became(t, j)
      BY <2>1 DEF Normalized
    <3> HIDE DEF j
    <3> QED
      BY <2>1, <3>1, <3>2, BecameIs
  <2>2. CASE Kind[t] # "repair"
    <3> DEFINE j == [job[t] EXCEPT !.pc = "enrich"]
    <3>1. j.pc = "enrich" /\ j.seen = job[t].seen /\ j.queue = job[t].queue /\ j.target = i
      BY <1>2 DEF JobType
    <3>2. Became(t, j)
      BY <2>2 DEF Normalized, Goto
    <3> HIDE DEF j
    <3> QED
      BY <2>2, <3>1, <3>2, BecameIs
  <2> QED
    BY <2>1, <2>2
<1>4. \A k \in Ids : Untouched(k)
  BY <1>1 DEF Untouched, EpisodesOf, tables
<1>5. Entries' = Entries
  BY <1>1 DEF Entries, tables
<1>6. /\ Writing(t) = {i} /\ Writing(t)' = {}
      /\ \A u \in Tasks \ {t} : Writing(u)' = Writing(u) /\ Numbers(u)' = Numbers(u)
  BY <1>1, <1>3 DEF Writing, Numbers
<1>7. Numbers(t) \subseteq Numbers(t)'
  BY <1>1, <1>3 DEF Numbers
<1>8. ASSUME NEW k \in Entries' \ unsettled' PROVE SettledAt(k)'
  <2>1. k \in Entries /\ k \in Ids /\ SettledAt(k)
    BY <1>1, <1>5, <1>8 DEF Entries, IInv, Settled
  <2>2. CASE k # i
    BY <1>3, <1>4, <1>6, <1>7, <2>1, <2>2, StaysSettled
  <2>3. CASE k = i
    <3>1. k \notin OtherWrites(t) /\ WritesPlaces(t, k)
      BY <1>6, <2>1, <2>3 DEF SettledAt
    <3>2. Varied(k)
      BY <1>1, <3>1, PlacesTellApart DEF WritesPlaces
    <3>3. Varied(k)'
      BY <1>4, <2>1, <3>2 DEF Varied, Untouched
    <3>4. \A u \in Tasks : k \notin Writing(u)'
      BY <1>6, <3>1 DEF OtherWrites
    <3> QED
      BY <3>3, <3>4 DEF SettledAt
  <2> QED
    BY <2>2, <2>3
<1>9. Settled'
  BY <1>8 DEF Settled
<1>10. Kind[t] = "repair" => job[t].seen = {}
  BY DEF IInv, RepairFirst, Repairs
<1>11. SeenOnlyWhile'
  BY <1>1, <1>3, <1>10, SeenStays DEF IInv, SeenOnlyWhile, tables, Numbering, Reading
<1>12. RepairFirst'
  <2>1. CASE Kind[t] # "repair"
    <3>1. Started
      BY <1>1, <2>1, BusyStarted
    <3> QED
      BY <1>3, <2>1, <3>1, OthersRepairDone
  <2>2. CASE Kind[t] = "repair"
    <3>1. t \in Repairs /\ Repairs = {t} /\ Repairs' = Repairs
      BY <2>2 DEF Repairs, LibraryAssumption
    <3>2. ~ JustRepaired'
      BY <1>3, <2>2, <3>1 DEF JustRepaired, Started
    <3>3. job[t].seen = {} /\ (\A u \in Tasks \ {t} : job[u].pc = "idle")
          /\ unsettled \cap Entries \subseteq job[t].queue
      BY <1>1, <3>1 DEF IInv, RepairFirst
    <3> QED
      BY <1>1, <1>3, <1>5, <2>2, <3>1, <3>2, <3>3 DEF RepairFirst
  <2> QED
    BY <2>1, <2>2
<1> QED
  BY <1>9, <1>11, <1>12 DEF IInv

LEMMA RepairSettles ==
  ASSUME LibraryAssumption, Typed, Typed', IInv, NEW t \in Tasks, Repair(t)
  PROVE  IInv'
<1>1. job[t].pc = "root" /\ UNCHANGED <<episodes, manga, chapters, nextId, conn, restarts>>
  BY DEF Repair, At
<1>2. job[t] \in JobType /\ MakesSense(t, job[t])
  BY DEF Typed, JobsTyped
<1>3. /\ Kind[t] = "repair" /\ t \in Repairs /\ Repairs = {t} /\ Repairs' = Repairs
      /\ job[t].queue \in SUBSET Nat
  BY <1>1, <1>2 DEF MakesSense, Repairs, LibraryAssumption, Ids
<1>4. /\ job[t].seen = {} /\ (\A u \in Tasks \ {t} : job[u].pc = "idle")
      /\ unsettled \cap Entries \subseteq job[t].queue
      /\ \A i \in job[t].queue : i < nextId
  BY <1>1, <1>3 DEF IInv, RepairFirst, SeenOnlyWhile
<1>5. ASSUME job[t].queue # {}, NEW i, i = Min(job[t].queue), Settle(t, i),
             Became(t, [job[t] EXCEPT !.queue = @ \ {i}, !.target = i,
                                      !.writes = Renumbered(i), !.pc = "write"]),
             anime' = anime \/ (i \in Entries /\ \E c, title : anime' = Promote(i, c, title))
      PROVE  IInv'
  <2>1. i \in job[t].queue /\ i \in Ids /\ i < nextId
    <3>1. \E m \in job[t].queue : \A n \in job[t].queue : m <= n
      BY <1>3, <1>5, Least
    <3>2. i \in job[t].queue
      BY <1>5, <3>1 DEF Min
    <3>3. job[t].queue \subseteq Ids
      BY <1>1, <1>2, <1>3 DEF MakesSense
    <3> QED
      BY <1>4, <3>2, <3>3
  <2> DEFINE first == [job[t] EXCEPT !.queue = job[t].queue \ {i}, !.target = i]
             j == [first EXCEPT !.writes = Renumbered(i), !.pc = "write"]
  <2>2. /\ first.queue = job[t].queue \ {i} /\ first.target = i /\ first.seen = {}
        /\ first \in JobType
    BY <1>2, <1>4, <2>1 DEF JobType
  <2>3. Became(t, j)
    BY <1>2, <1>5 DEF JobType
  <2> HIDE DEF first
  <2>4. /\ j.pc = "write" /\ j.target = i /\ j.writes = Renumbered(i)
        /\ j.queue = job[t].queue \ {i} /\ j.seen = {}
    BY <2>2 DEF JobType
  <2> HIDE DEF j
  <2>5. job'[t] = j /\ \A u \in Tasks \ {t} : job'[u] = job[u]
    BY <2>3, BecameIs
  <2>6. Entries' \subseteq Entries
    <3>1. \A k \in Ids \ Entries : anime'[k] = anime[k]
      BY <1>5 DEF Promote, Typed, TablesTyped
    <3> QED
      BY <3>1, NoNewEntry
  <2>7. Settled'
    BY <1>1, <1>4, <1>5, <2>1, <2>4, <2>5, <2>6, BeginsToNumber
  <2>8. SeenOnlyWhile'
    BY <1>1, <1>3, <2>1, <2>4, <2>5, SeenStays DEF IInv
  <2>9. \A w \in job'[t].writes : w[1] \in EpisodesOf(i)'
    <3>1. \A w \in Renumbered(i) : w[1] \in EpisodesOf(i)
      BY <2>1, RenumberedType
    <3>2. EpisodesOf(i)' = EpisodesOf(i)
      BY <1>1 DEF EpisodesOf
    <3> QED
      BY <2>4, <2>5, <3>1, <3>2
  <2>10. OtherWrites(t) = {}
    BY <1>4 DEF OtherWrites, Writing
  <2>11. unsettled' \cap Entries' \subseteq job'[t].queue
    BY <1>4, <1>5, <2>4, <2>5, <2>6, <2>10 DEF Settle
  <2>12. ~ JustRepaired'
    BY <1>3, <2>4, <2>5 DEF JustRepaired, Started
  <2>13. RepairFirst'
    BY <1>3, <1>4, <2>4, <2>5, <2>9, <2>11, <2>12 DEF RepairFirst
  <2> QED
    BY <2>7, <2>8, <2>13 DEF IInv
<1>6. CASE job[t].queue = {} /\ UNCHANGED <<anime, unsettled>> /\ Goto(t, "done")
  <2>1. job'[t].pc = "done" /\ job'[t].seen = {} /\ \A u \in Tasks \ {t} : job'[u] = job[u]
    BY <1>4, <1>6, GotoIs
  <2>2. job'[t].queue = {}
    <3>1. [job[t] EXCEPT !.pc = "done"].queue = job[t].queue
      BY <1>2 DEF JobType
    <3> QED
      BY <1>6, <3>1, BecameIs DEF Goto
  <2>3. \A k \in Ids : Untouched(k)
    BY <1>1 DEF Untouched, EpisodesOf
  <2>4. /\ Entries' = Entries /\ Entries' \subseteq Ids
        /\ \A u \in Tasks : Writing(u)' = Writing(u) /\ Numbers(u)' = Numbers(u)
        /\ \A u \in Tasks : Writing(u)' # {} => job'[u].writes = job[u].writes
    BY <1>1, <1>4, <1>6, <2>1 DEF Entries, Writing, Numbers
  <2>5. Settled'
    BY <1>6, <2>3, <2>4, QuietStep DEF IInv
  <2>6. SeenOnlyWhile'
    BY <1>1, <1>3, <2>1, <2>2, SeenStays DEF IInv
  <2>7. unsettled' \cap Entries' = {}
    BY <1>4, <1>6, <2>4
  <2>8. RepairFirst'
    BY <1>3, <1>4, <2>1, <2>7 DEF RepairFirst
  <2> QED
    BY <2>5, <2>6, <2>8 DEF IInv
<1>7. ASSUME NEW i \in Ids, {Dir[f] : f \in EpisodesOf(i)} # {} PROVE i \in Entries
  BY <1>7 DEF EpisodesOf, Typed, Keys
<1>8. job[t].queue # {} => Min(job[t].queue) \in Ids
  <2>1. job[t].queue # {} => \E m \in job[t].queue : \A n \in job[t].queue : m <= n
    BY <1>3, Least
  <2> QED
    BY <1>1, <1>2, <2>1 DEF MakesSense, Min
<1> DEFINE i == Min(job[t].queue)
           dirs == {Dir[f] : f \in EpisodesOf(i)}
<1>9. CASE /\ job[t].queue # {}
           /\ anime' = IF dirs = {} THEN anime ELSE Promote(i, DeriveRoot(anime[i].path, dirs), None)
           /\ Became(t, [job[t] EXCEPT !.queue = @ \ {i}, !.target = i,
                           !.writes = Renumbered(i), !.pc = "write"])
           /\ Settle(t, i)
  <2>1. dirs # {} => i \in Entries
    BY <1>7, <1>8, <1>9
  <2>2. anime' = anime \/ (i \in Entries /\ \E c, title : anime' = Promote(i, c, title))
    <3>1. anime' = anime \/ (dirs # {} /\ \E c, title : anime' = Promote(i, c, title))
      <4> HIDE DEF i, dirs
      <4>1. CASE dirs = {}
        BY <1>9, <4>1, Zenon
      <4>2. CASE dirs # {}
        <5>1. anime' = Promote(i, DeriveRoot(anime[i].path, dirs), None)
          BY <1>9, <4>2
        <5> QED
          BY <4>2, <5>1, Zenon
      <4> QED
        BY <4>1, <4>2
    <3> QED
      BY <2>1, <3>1
  <2> QED
    BY <1>5, <1>9, <2>2, Zenon
<1> QED
  BY <1>6, <1>9, Zenon DEF Repair

LEMMA BeginRepairSettles ==
  ASSUME LibraryAssumption, Typed, Typed', IInv, NEW t \in Tasks, Begin(t), Kind[t] = "repair"
  PROVE  IInv'
<1>1. /\ job[t].pc = "idle" /\ UNCHANGED <<tables, conn, restarts, unsettled>>
      /\ Became(t, [Idle EXCEPT !.pc = "root", !.queue = Entries])
  BY DEF Begin, At
<1>2. t \in Repairs /\ Repairs = {t} /\ Repairs' = Repairs
  BY DEF Repairs, LibraryAssumption
<1>3. job[t].seen = {} /\ \A u \in Tasks \ {t} : job[u].pc = "idle"
  BY <1>1, <1>2 DEF IInv, RepairFirst
<1> DEFINE j == [Idle EXCEPT !.pc = "root", !.queue = Entries]
<1>4. j.pc = "root" /\ j.queue = Entries /\ j.seen = {}
  BY DEF Idle
<1>5. job'[t] = j /\ \A u \in Tasks \ {t} : job'[u] = job[u]
  BY <1>1, BecameIs
<1> HIDE DEF j
<1>6. \A k \in Ids : Untouched(k)
  BY <1>1 DEF Untouched, EpisodesOf, tables
<1>7. /\ Entries' = Entries /\ Entries' \subseteq Ids
      /\ \A u \in Tasks : Writing(u)' = Writing(u) /\ Numbers(u)' = Numbers(u)
      /\ \A u \in Tasks : Writing(u)' = {}
  BY <1>1, <1>3, <1>4, <1>5 DEF Entries, Writing, Numbers, tables
<1>8. Settled'
  BY <1>1, <1>6, <1>7, QuietStep DEF IInv
<1>9. SeenOnlyWhile'
  <2>1. \A u \in Tasks : job'[u].seen = job[u].seen
    BY <1>3, <1>4, <1>5
  <2> QED
    BY <1>1, <1>3, <1>4, <1>5, <2>1
       DEF IInv, SeenOnlyWhile, Typed, Keys, tables, Numbering, Reading
<1>10. ~ JustRepaired'
  BY <1>2, <1>4, <1>5 DEF JustRepaired, Started
<1>11. RepairFirst'
  BY <1>1, <1>2, <1>3, <1>4, <1>5, <1>7, <1>10 DEF RepairFirst
<1> QED
  BY <1>8, <1>9, <1>11 DEF IInv

LEMMA DeleteSettles ==
  ASSUME LibraryAssumption, Typed, Typed', IInv, NEW i \in Ids, DeleteAnime(i)
  PROVE  IInv'
<1>1. /\ i \in Entries /\ anime' = [anime EXCEPT ![i] = None] /\ episodes' = Remaining(i)
      /\ Started /\ UNCHANGED <<manga, chapters, nextId, conn, restarts, unsettled>>
  BY DEF DeleteAnime
<1> DEFINE Left(t) == {w \in job[t].writes : w[1] \notin EpisodesOf(i)}
<1>2. \A t \in Tasks :
        /\ job'[t].pc = job[t].pc /\ job'[t].target = job[t].target
        /\ job'[t].seen = job[t].seen /\ job'[t].queue = job[t].queue
        /\ job'[t].writes = Left(t)
  <2> TAKE t \in Tasks
  <2>1. job[t] \in JobType
    BY DEF Typed, JobsTyped
  <2>2. job'[t] = [job[t] EXCEPT !.writes = Left(t)]
    BY <2>1 DEF DeleteAnime, JobType
  <2> HIDE DEF Left
  <2> QED
    BY <2>1, <2>2 DEF JobType
<1>3. \A t \in Tasks : Writing(t)' = Writing(t) /\ Numbers(t)' = Numbers(t)
  BY <1>2 DEF Writing, Numbers
<1>4. Entries' = Entries \ {i} /\ Entries' \subseteq Ids
  BY <1>1 DEF Entries, Typed, TablesTyped
<1>5. \A f \in Videos : episodes'[f] = IF f \in EpisodesOf(i) THEN None ELSE episodes[f]
  BY <1>1 DEF Remaining
<1>6. ASSUME NEW k \in Entries' \ unsettled' PROVE SettledAt(k)'
  <2>1. k \in Entries /\ k \in Ids /\ k # i /\ SettledAt(k)
    BY <1>1, <1>4, <1>6 DEF IInv, Settled
  <2>2. \A f \in EpisodesOf(k) : f \in Videos /\ f \notin EpisodesOf(i)
    BY <2>1 DEF EpisodesOf
  <2>3. EpisodesOf(k)' = EpisodesOf(k) /\ \A f \in EpisodesOf(k) : episodes'[f] = episodes[f]
    BY <1>5, <2>2 DEF EpisodesOf
  <2>4. Varied(k) => Varied(k)'
    BY <2>3 DEF Varied
  <2>5. ASSUME NEW t \in Tasks, k \in Writing(t)'
        PROVE  k \notin OtherWrites(t)' /\ WritesPlaces(t, k)'
    <3>1. k \notin OtherWrites(t) /\ WritesPlaces(t, k)
      BY <1>3, <2>1, <2>5 DEF SettledAt
    <3>2. k \notin OtherWrites(t)'
      BY <1>3, <3>1 DEF OtherWrites
    <3>3. job'[t].writes \subseteq job[t].writes
      BY <1>2
    <3>4. CASE job[t].writes = {} /\ Varied(k)
      BY <2>4, <3>2, <3>3, <3>4 DEF WritesPlaces
    <3>5. CASE ~ (job[t].writes = {} /\ Varied(k))
      <4>1. \A f : Place(f, EpisodesOf(k))' = Place(f, EpisodesOf(k))
        BY <2>3 DEF Place
      <4>2. \A f \in EpisodesOf(k) : \A p :
              <<f, p>> \in job[t].writes => <<f, p>> \in job'[t].writes
        <5> TAKE f \in EpisodesOf(k)
        <5> TAKE p
        <5>1. <<f, p>>[1] = f
          OBVIOUS
        <5> QED
          BY <1>2, <2>2, <5>1
      <4>3. WritesPlaces(t, k)'
        BY <2>3, <3>1, <3>3, <3>5, <4>1, <4>2 DEF WritesPlaces
      <4> QED
        BY <3>2, <4>3
    <3> QED
      BY <3>4, <3>5
  <2> QED
    BY <1>3, <2>1, <2>4, <2>5 DEF SettledAt
<1>7. Settled'
  BY <1>6 DEF Settled
<1>8. SeenOnlyWhile'
  BY <1>1, <1>2 DEF IInv, SeenOnlyWhile
<1>9. RepairFirst'
  <2>1. \A r \in Repairs : job[r].pc = "done" /\ job[r].seen = {}
    BY <1>1 DEF Started, IInv, RepairFirst
  <2>2. JustRepaired' => JustRepaired
    BY <1>2 DEF JustRepaired, Started, Repairs
  <2>3. JustRepaired' => unsettled' \cap Entries' = {}
    BY <1>1, <1>4, <2>2 DEF IInv, RepairFirst
  <2> QED
    BY <1>2, <2>1, <2>3 DEF RepairFirst, Repairs
<1> QED
  BY <1>7, <1>8, <1>9 DEF IInv

LEMMA MarkWatchedSettles ==
  ASSUME LibraryAssumption, Typed, Typed', IInv, NEW f \in Videos, MarkWatched(f)
  PROVE  IInv'
<1> DEFINE row == [episodes[f] EXCEPT !.watched = TRUE]
<1>1. /\ episodes[f] \in RowType /\ episodes' = [episodes EXCEPT ![f] = row] /\ Started
      /\ UNCHANGED <<anime, manga, chapters, nextId, conn, job, restarts, unsettled>>
  BY DEF MarkWatched, Typed, TablesTyped
<1>2. row \in RowType /\ row.anime = episodes[f].anime /\ row.num = episodes[f].num
  BY <1>1 DEF RowType
<1>3. row # None /\ episodes[f] # None
  BY <1>2, <1>1 DEF LibraryAssumption
<1> HIDE DEF row
<1>4. \A k \in Ids : Untouched(k)
  BY <1>1, <1>2, <1>3 DEF Untouched, EpisodesOf, Typed, TablesTyped
<1>5. /\ Entries' = Entries /\ Entries' \subseteq Ids
      /\ \A u \in Tasks : Writing(u)' = Writing(u) /\ Numbers(u)' = Numbers(u)
  BY <1>1 DEF Entries, Writing, Numbers
<1>6. Settled'
  BY <1>1, <1>4, <1>5, QuietStep DEF IInv
<1>7. SeenOnlyWhile'
  BY <1>1 DEF IInv, SeenOnlyWhile
<1>8. RepairFirst'
  <2>1. \A r \in Repairs : job[r].pc = "done" /\ job[r].seen = {}
    BY <1>1 DEF Started, IInv, RepairFirst
  <2>2. JustRepaired' => JustRepaired
    BY <1>1 DEF JustRepaired, Started, Repairs
  <2> QED
    BY <1>1, <1>5, <2>1, <2>2 DEF IInv, RepairFirst, Repairs
<1> QED
  BY <1>6, <1>7, <1>8 DEF IInv

LEMMA RestartSettles ==
  ASSUME LibraryAssumption, Typed, Typed', IInv, Restart
  PROVE  IInv'
<1>1. /\ job' = [t \in Tasks |-> Idle] /\ UNCHANGED tables
      /\ unsettled' = unsettled \cup UNION {Numbers(t) \cup Writing(t) : t \in Tasks}
  BY DEF Restart
<1>2. \A t \in Tasks : job'[t] = Idle /\ Writing(t)' = {}
  BY <1>1, IdleTyped DEF Writing
<1>3. ASSUME NEW k \in Entries' \ unsettled' PROVE SettledAt(k)'
  <2>1. k \in Entries /\ SettledAt(k)
    BY <1>1, <1>3 DEF IInv, Settled, Entries, tables
  <2>2. Varied(k)
    BY <1>1, <1>3, <2>1 DEF SettledAt
  <2>3. Varied(k)'
    BY <1>1, <2>2 DEF Varied, EpisodesOf, tables
  <2> QED
    BY <1>2, <2>3 DEF SettledAt
<1>4. Settled'
  BY <1>3 DEF Settled
<1>5. SeenOnlyWhile'
  BY <1>2, IdleTyped DEF SeenOnlyWhile
<1>6. ~ JustRepaired'
  BY <1>2, IdleTyped DEF JustRepaired, Started, Repairs
<1>7. RepairFirst'
  BY <1>2, <1>6, IdleTyped DEF RepairFirst, Repairs
<1> QED
  BY <1>4, <1>5, <1>7 DEF IInv

LEMMA InitSettled ==
  ASSUME Init
  PROVE  IInv
<1>1. \A t \in Tasks : job[t] = Idle
  BY DEF Init
<1>2. Entries = {}
  BY DEF Init, Entries
<1>3. Settled
  BY <1>2 DEF Settled
<1>4. SeenOnlyWhile
  BY <1>1, IdleTyped DEF SeenOnlyWhile
<1>5. RepairFirst
  BY <1>1, <1>2, IdleTyped DEF RepairFirst, Repairs, JustRepaired
<1> QED
  BY <1>3, <1>4, <1>5 DEF IInv

LEMMA StepSettles ==
  ASSUME LibraryAssumption, Typed, Typed', IInv, NEW t \in Tasks, Begin(t) \/ Step(t)
  PROVE  IInv'
<1>1. ASSUME Plain(t) PROVE IInv'
  BY <1>1, PlainKeeps
<1>2. CASE Begin(t)
  BY <1>1, <1>2, BeginPlain, BeginRepairSettles
<1>3. CASE Step(t)
  BY <1>1, <1>3, WalkPlain, LookupPlain, FindExistingPlain, PromoteRootPlain, InsertPlain,
     ApplyDefaultsPlain, IndexMangaPlain, RowsPlain, EnrichUnmatchedPlain, EnrichPlain,
     UpsertSettles, FinishSettles, WriteNumberSettles, NormalizedSettles, RepairSettles, Zenon
     DEF Step
<1> QED
  BY <1>2, <1>3

LEMMA NextSettles ==
  ASSUME LibraryAssumption, Typed, Typed', IInv, [Next]_vars
  PROVE  IInv'
<1>1. CASE Next
  BY <1>1, StepSettles, DeleteSettles, MarkWatchedSettles, RestartSettles, Zenon DEF Next
<1>2. CASE UNCHANGED vars
  <2>1. /\ UNCHANGED anime /\ UNCHANGED episodes /\ UNCHANGED nextId /\ UNCHANGED job
        /\ UNCHANGED unsettled
    BY <1>2 DEF vars
  <2>2. /\ Entries' = Entries /\ Entries' \subseteq Ids
        /\ \A u \in Tasks : Writing(u)' = Writing(u) /\ Numbers(u)' = Numbers(u)
        /\ \A k \in Ids : Untouched(k)
    BY <2>1 DEF Entries, Writing, Numbers, Untouched, EpisodesOf
  <2>3. Settled'
    BY <2>1, <2>2, QuietStep DEF IInv
  <2>4. SeenOnlyWhile'
    BY <2>1 DEF IInv, SeenOnlyWhile
  <2>5. JustRepaired' => JustRepaired
    BY <2>1 DEF JustRepaired, Started, Repairs
  <2>6. \A k : EpisodesOf(k)' = EpisodesOf(k)
    BY <2>1 DEF EpisodesOf
  <2>7. RepairFirst'
    BY <2>1, <2>2, <2>5, <2>6 DEF IInv, RepairFirst, Repairs
  <2> QED
    BY <2>3, <2>4, <2>7 DEF IInv
<1> QED
  BY <1>1, <1>2

LEMMA AlwaysSettled ==
  ASSUME LibraryAssumption
  PROVE  Spec => []IInv
<1>1. Init => IInv
  BY InitSettled
<1>2. Typed /\ Typed' /\ IInv /\ [Next]_vars => IInv'
  BY NextSettles
<1> QED
  BY <1>1, <1>2, AlwaysTyped, PTL DEF Spec

(* manager.go 614-662, 101-104, 174-176, 603-605: whatever calls overlap, once none
   of them numbers, the episodes of an entry do not all have one number, unless its
   rows were disturbed since; and of every entry once the repair of a start is done. *)
THEOREM NotAllOneNumberHolds ==
  ASSUME LibraryAssumption
  PROVE  Spec => []NotAllOneNumber
<1>1. ASSUME Typed, IInv PROVE NotAllOneNumber
  <2> SUFFICES ASSUME \A t \in Tasks : Kind[t] \in {"scan", "import", "repair"} => Over(t),
                      NEW i \in Entries, i \notin unsettled \/ JustRepaired
               PROVE  Varied(i)
    BY DEF NotAllOneNumber
  <2>1. i \notin unsettled
    BY <1>1 DEF IInv, RepairFirst
  <2>2. SettledAt(i)
    BY <1>1, <2>1 DEF IInv, Settled
  <2>3. ASSUME NEW t \in Tasks PROVE Numbers(t) = {} /\ Writing(t) = {}
    <3>1. MakesSense(t, job[t])
      BY <1>1 DEF Typed, JobsTyped
    <3>2. job[t].pc # "write"
      BY <3>1 DEF MakesSense, Over
    <3>3. job[t].pc \notin Numbering
      BY <3>1, <3>2 DEF MakesSense, Over, Numbering, Reading
    <3>4. job[t].seen = {}
      BY <1>1, <3>3 DEF IInv, SeenOnlyWhile
    <3> QED
      BY <3>2, <3>4 DEF Numbers, Writing
  <2> QED
    BY <2>2, <2>3 DEF SettledAt
<1> QED
  BY <1>1, AlwaysTyped, AlwaysSettled, PTL
=============================================================================
