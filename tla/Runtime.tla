------------------------------ MODULE Runtime ------------------------------
(***************************************************************************)
(* What the application keeps while it runs, beside its library: a key of  *)
(* the cache, the identities of manga, and the streams of episodes.  None  *)
(* of them touches the state of another.                                   *)
(***************************************************************************)
CONSTANTS
  \* Snapshots
  Kinds, Callers, Refreshers, MaxKeyCalls, MaxKeyRestarts,
  \* MangaIdentity
  Manga, AniListIds, MangaChapters, Of, Lookups, Confidence, MaxLookups,
  \* OnlineStreams
  Viewers, Sources, ShortLived, Probed, Offers, Wishes, Limit, MaxOpens,
  Nothing

VARIABLES
  kind, store, window, keyJob, answer, keyCalls, keyRestarts, kept,
  mapping, recent, memory, history, mangaJob, mangaCalls, blind,
  hot, stale, stage, opened, source, way, wish, streams, fromStale, failed, played

SN == INSTANCE Snapshots WITH
        MaxCalls <- MaxKeyCalls, MaxRestarts <- MaxKeyRestarts, None <- Nothing,
        job <- keyJob, calls <- keyCalls, restarts <- keyRestarts

MI == INSTANCE MangaIdentity WITH
        Ids <- AniListIds, Chapters <- MangaChapters, Tasks <- Lookups,
        MaxCalls <- MaxLookups, None <- Nothing,
        job <- mangaJob, calls <- mangaCalls

OS == INSTANCE OnlineStreams WITH
        Callers <- Viewers, MaxCalls <- MaxOpens, None <- Nothing,
        pc <- stage, calls <- opened

ASSUME RuntimeAssumption ==
  SN!SnapshotsAssumption /\ MI!MangaIdentityAssumption /\ OS!OnlineStreamsAssumption

\* Snapshots: no blank takes the place of results.
ResultsSurviveMisses == SN!ResultsSurviveMisses

\* MangaIdentity: what was verified, and what was read, stays so.
MangaKnowledgeIsKept == MI!MangaKnowledgeIsKept

\* OnlineStreams: nothing better than what is opened was passed over.
BestIsPlayed == OS!BestIsPlayed
=============================================================================
