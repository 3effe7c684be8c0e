------------------------------ MODULE Streams ------------------------------
(***************************************************************************)
(* From an episode to its streams: the chase of one page after another,    *)
(* and the six sources that ask for it; from an entry of AniList to the    *)
(* manga of a source; and from a question to what AniList, or Jikan, knows. *)
(* None of them touches the state of another: what a chase finds is an     *)
(* outcome to a source.                                                    *)
(***************************************************************************)
CONSTANTS
  \* Resolvers
  Playing, Resolving, Urls, KnownPages, Trackers, Junk, Wraps, HostOf, PageShows,
  PageVideos, PageLoads,
  \* AnimeFLV
  FlvCalls, FlvShows, FlvRank, Parallel,
  \* AnimeAV1
  AvEpisodes, Internal, Hls, Deferred, AvStreams, Qualities,
  \* AnimeKai
  KaiServers, Watch, Plays, KaiTries, Enough,
  \* AnimeNinja
  NinServers, NinEmbeds, NinPages, Foreign, NinTries,
  \* JKAnime
  JkHints, JkLists, MaxPages, JkItems, JkUrl, JkEmbeds, JkPriority, JkStreams,
  JkDownloads, JkHostRank, Mediafire,
  \* AnimeGG
  GgPages, GgEmbeds, GgMedia, GgListed, GgInferred, GgQualities, Gated, Manifests,
  \* MangaMatch
  MatchCalls, MatchEntries, MatchItems, TitleForms, Expand, Decorated, NameBudget,
  ItemTitle, ItemNames, EntryNames, SameYear, Finds, Tables, MaxAsks,
  \* MetadataReads
  Labels, Labellings, Media, Anonymous, MediaRank, PerPage, MediaPages, MediaGrade,
  OfSeason, Shelves, Quarters, ThisYear, Fields, AnimeFills, MangaFills, People, Casts, CastLimit,
  Absent

VARIABLES
  embed, cached, chasePc, current, chased, chaseAnswer,
  preferred, flvPc, sorted, flvLow, flvHigh, later, outcome, flvNext, flvAnswer,
  avPage, avPc, avTried, resolved, selected,
  hasWatch, kaiPc, kaiServers, kaiAt, kaiLate, challenged, shown, captured, sources,
  kaiAnswer, kaiAsked, kaiTried,
  ninPage, ninPc, ninAt, ninLate, ninSeen, rendered, ninAsked, ninAnswer,
  jkCall, jkPc, jkShow, jkList, most, jkCount, jkFrom, jkFound, jkAt, jkLow, jkHigh,
  got, jkTried,
  ggTarget, ggPage, ggPc, ggLeft, ggSources, ggSession, ggTried, ggFound, ggAnswer,
  table, searches, matches, mmPc, mmEntry, mmAt, variant, failedVariant, hits, mmLeft,
  best, asks, heard, judged, accepted, silent, proofs,
  degraded, reader, mrWish, when, mrPc, mrLeft, listed, more, fetched, base, extra, mrAnswer,
  lost, replies

RS == INSTANCE Resolvers WITH
        Pages <- KnownPages, Host <- HostOf, Shows <- PageShows, Videos <- PageVideos,
        Loads <- PageLoads, None <- Absent,
        pc <- chasePc, seen <- chased, answer <- chaseAnswer

FLV == INSTANCE AnimeFLV WITH
         Calls <- FlvCalls, Shows <- FlvShows, Rank <- FlvRank, None <- Absent,
         pc <- flvPc, i <- flvLow, j <- flvHigh, next <- flvNext, answer <- flvAnswer

AV1 == INSTANCE AnimeAV1 WITH
         Episodes <- AvEpisodes, Streams <- AvStreams,
         page <- avPage, pc <- avPc, tried <- avTried

Kai == INSTANCE AnimeKai WITH
         Servers <- KaiServers, Tries <- KaiTries, None <- Absent,
         pc <- kaiPc, servers <- kaiServers, at <- kaiAt, late <- kaiLate,
         answer <- kaiAnswer, asked <- kaiAsked, tried <- kaiTried

Nin == INSTANCE AnimeNinja WITH
         Servers <- NinServers, Embeds <- NinEmbeds, Pages <- NinPages, Tries <- NinTries,
         None <- Absent,
         page <- ninPage, pc <- ninPc, at <- ninAt, late <- ninLate, seen <- ninSeen,
         asked <- ninAsked, answer <- ninAnswer

JK == INSTANCE JKAnime WITH
        Hints <- JkHints, Lists <- JkLists, Items <- JkItems, Url <- JkUrl,
        Embeds <- JkEmbeds, Priority <- JkPriority, Streams <- JkStreams,
        Downloads <- JkDownloads, HostRank <- JkHostRank,
        call <- jkCall, pc <- jkPc, show <- jkShow, list <- jkList, count <- jkCount,
        from <- jkFrom, found <- jkFound, at <- jkAt, low <- jkLow, high <- jkHigh,
        tried <- jkTried

GG == INSTANCE AnimeGG WITH
        Pages <- GgPages, Embeds <- GgEmbeds, Media <- GgMedia, Listed <- GgListed,
        Inferred <- GgInferred, Qualities <- GgQualities,
        target <- ggTarget, page <- ggPage, pc <- ggPc, left <- ggLeft,
        sources <- ggSources, session <- ggSession, tried <- ggTried, found <- ggFound,
        answer <- ggAnswer

MM == INSTANCE MangaMatch WITH
        Calls <- MatchCalls, Entries <- MatchEntries, Items <- MatchItems,
        Titles <- TitleForms, Title <- ItemTitle, Own <- ItemNames,
        NamesOf <- EntryNames, None <- Absent,
        pc <- mmPc, entry <- mmEntry, at <- mmAt, failed <- failedVariant, left <- mmLeft

MR == INSTANCE MetadataReads WITH
        Names <- Labels, Wishes <- Labellings, Items <- Media, Rank <- MediaRank,
        Pages <- MediaPages, Grade <- MediaGrade, None <- Absent,
        wish <- mrWish, pc <- mrPc, left <- mrLeft, found <- listed, answer <- mrAnswer

ASSUME StreamsAssumption ==
  /\ RS!ResolversAssumption /\ FLV!AnimeFLVAssumption /\ Kai!AnimeKaiAssumption
  /\ Nin!AnimeNinjaAssumption /\ JK!JKAnimeAssumption
  /\ GG!AnimeGGAssumption /\ MM!MangaMatchAssumption /\ MR!MetadataReadsAssumption

\* Resolvers: what is played was behind the embed, and is no known page.
AnswersAreBehind == RS!AnswersAreBehind

\* A source fails only when it has tried what it may, whatever other calls do:
\* AnimeFLV, AnimeKai, AnimeNinja, JKAnime, AnimeGG; a manga is not found only when
\* each of its names was searched for; and a read of metadata fails only when there
\* is nobody left to ask.
NothingIsLeftUntried ==
  /\ FLV!NoEmbedIsSkipped /\ Kai!NothingIsLeftUntried
  /\ Nin!NothingIsLeftUntried /\ JK!NothingIsLeftUntried
  /\ GG!NothingIsLeftUntried /\ MM!NothingIsLeftUntried /\ MR!NothingIsLeftUntried

\* What it chooses among is complete: both audios of AnimeAV1, the numbers of
\* episodes and the download links of JKAnime, all that AnimeGG has found, the best of
\* the manga that were accepted, and what AniList and Jikan have answered.
ChoicesAreRight ==
  AV1!BothVariantsKept /\ JK!PlannedIsLastResort /\ JK!LinksAreRanked
  /\ GG!StreamsAreMerged /\ MM!BestMatchIsKept /\ MR!ReadsAreRight
=============================================================================
