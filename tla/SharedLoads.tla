---------------------------- MODULE SharedLoads ----------------------------
(***************************************************************************)
(* The sources whose calls share what one of them loads: AnimePahe the     *)
(* cookies of a solved challenge, M440 the list a browser renders,         *)
(* MangaFire its inventory and the pages of a chapter, WeebCentral the     *)
(* list of a series; and a search, which asks sources side by side.  None  *)
(* of them touches the state of another.                                   *)
(***************************************************************************)
CONSTANTS
  Calls, Mirrors, Kind, LastPage, Forms, Parallel, MaxCookies,  \* AnimePahe
  Listers, Slugs, Wanted, Browsers, MaxLists,                   \* M440
  Readers, Async, Chapters, MaxReads, MaxStarts,                \* MangaFire
  Fans, Published, Teasers, Listed, MaxSeries,                  \* WeebCentral
  Searches, Engines, Asked,                                     \* OnlineSearch
  Nothing

VARIABLES
  activeBase, cached, kept, inflight, solved, stage, bases, queries, fetch, all,
  refused,
  chapters, rendered, required, flight, shared, leased, timer, firing, m440Pc,
  m440Calls, slug, held, again, m440Answer,
  inventory, stock, loader, shown, owner, firePc, fireCalls, chapter, starts,
  got, fireAnswer,
  cache, weebFlight, weebPc, weebCalls, slice, weebAnswer,
  hits, search, asker, result, box, taken

AP == INSTANCE AnimePahe WITH None <- Nothing

M4 == INSTANCE M440 WITH
        Callers <- Listers, MaxCalls <- MaxLists, None <- Nothing,
        pc <- m440Pc, calls <- m440Calls, answer <- m440Answer

MF == INSTANCE MangaFire WITH
        Callers <- Readers, MaxCalls <- MaxReads, MaxRestarts <- MaxStarts,
        None <- Nothing, file <- stock, pages <- shown, pc <- firePc,
        calls <- fireCalls, restarts <- starts, answer <- fireAnswer

WC == INSTANCE WeebCentral WITH
        Callers <- Fans, Shown <- Teasers, MaxCalls <- MaxSeries, None <- Nothing,
        flight <- weebFlight, pc <- weebPc, calls <- weebCalls, answer <- weebAnswer

ON == INSTANCE OnlineSearch WITH
        Sources <- Engines,
        cache <- hits, pc <- search, worker <- asker, found <- result, got <- taken

ASSUME SharedLoadsAssumption ==
  /\ AP!AnimePaheAssumption /\ M4!M440Assumption /\ MF!MangaFireAssumption
  /\ WC!WeebCentralAssumption /\ ON!OnlineSearchAssumption

\* AnimePahe: cookies a mirror has refused are not sent to it again.
RefusedNotResent == AP!RefusedNotResent

\* AnimePahe: a list of episodes is whole and from one mirror.
EpisodesAreWhole == AP!EpisodesAreWhole

(* One loads what all want at the time: MangaFire's inventory and pages,
   WeebCentral's list of a series.  Who waited for it finds what it loaded, and who
   loads for a search is never held up by one that is gone. *)
WaitersShare == MF!OneLoad /\ MF!WaitersShare /\ WC!OneFlight /\ ON!NobodyIsStuck
=============================================================================
