-------------------------------- MODULE M440 --------------------------------
(***************************************************************************)
(* The chapter lists of the M440 source.  A list comes from the manga's    *)
(* page or, where the page shows a slice only, from a browser that all     *)
(* calls share: a call whose load fails resets it under the others, and a  *)
(* timer closes it when its lease has run out.  One flight per manga       *)
(* loads; the calls that find it on its way share its result.              *)
(***************************************************************************)
EXTENDS Naturals, FiniteSets

CONSTANTS
  Callers,    \* threads that call GetChapters
  Slugs,      \* manga
  Wanted,     \* Wanted[c]: the manga thread c asks for
  Browsers,   \* names for browser processes, reused when nobody holds one
  MaxCalls,   \* bound: MaxCalls[c], the calls of thread c
  None

M440Assumption ==
  /\ MaxCalls \in [Callers -> Nat] /\ Wanted \in [Callers -> SUBSET Slugs]
  /\ None \notin Browsers \cup Callers
  /\ IsFiniteSet(Callers) /\ Cardinality(Browsers) > Cardinality(Callers)

VARIABLES
  chapters,   \* chapterCache[s]: "none", "miss" or the list
  rendered,   \* browserChapterCache[s]: "none" or the list
  required,   \* browserRequired
  flight,     \* chapterGroup: flight[s], the caller that loads s
  shared,     \* sharedBrowser
  leased,     \* sharedBrowserTill lies ahead
  timer,      \* sharedBrowserStop will fire
  firing,     \* callbacks of timers that fired, still to take the lock
  pc, calls, slug,
  held,       \* held[c]: the browser of c's load
  again,      \* again[c]: this load is the second one
  answer      \* answer[c]: the list, or "error"

browserVars == <<shared, leased, timer, firing>>
cacheVars   == <<chapters, rendered, required>>
vars == <<cacheVars, flight, browserVars, pc, calls, slug, held, again, answer>>

Lists   == {"whole", "teaser"}
Loading == {"recheck", "fetch", "ensure", "load", "reset"}
Goto(c, at) == pc' = [pc EXCEPT ![c] = at]

Init ==
  /\ chapters = [s \in Slugs |-> "none"] /\ rendered = [s \in Slugs |-> "none"]
  /\ required = {} /\ flight = [s \in Slugs |-> None]
  /\ shared = None /\ leased = FALSE /\ timer = FALSE /\ firing = 0
  /\ pc = [c \in Callers |-> "idle"] /\ calls = [c \in Callers |-> 0]
  /\ slug = [c \in Callers |-> None] /\ held = [c \in Callers |-> None]
  /\ again = [c \in Callers |-> FALSE] /\ answer = [c \in Callers |-> "none"]

----------------------------------------------------------------------------
(* GetChapters.                                                            *)

GetChapters(c) ==
  /\ pc[c] = "idle" /\ calls[c] < MaxCalls[c]
  /\ calls' = [calls EXCEPT ![c] = @ + 1]
  /\ slug' \in {[slug EXCEPT ![c] = s] : s \in Wanted[c]}
  /\ Goto(c, "cached")
  /\ UNCHANGED <<cacheVars, flight, browserVars, held, again, answer>>

\* readChapterCache in front of the flight.
ReadCache(c) ==
  /\ pc[c] = "cached"
  /\ IF chapters[slug[c]] = "none"
     THEN Goto(c, "join") /\ UNCHANGED answer
     ELSE /\ Goto(c, "idle")
          /\ answer' = [answer EXCEPT ![c] =
                          IF chapters[slug[c]] = "miss" THEN "error" ELSE chapters[slug[c]]]
  /\ UNCHANGED <<cacheVars, flight, browserVars, calls, slug, held, again>>

\* chapterGroup.Do: the first call leads, the others wait for its result.
Join(c) ==
  /\ pc[c] = "join"
  /\ IF flight[slug[c]] = None
     THEN flight' = [flight EXCEPT ![slug[c]] = c] /\ Goto(c, "recheck")
     ELSE Goto(c, "wait") /\ UNCHANGED flight
  /\ UNCHANGED <<cacheVars, browserVars, calls, slug, held, again, answer>>

\* The flight ends: its result goes to all who wait for it.
Land(c, result) ==
  LET aboard == {d \in Callers : slug[d] = slug[c] /\ (d = c \/ pc[d] = "wait")}
  IN  /\ flight' = [flight EXCEPT ![slug[c]] = None]
      /\ pc' = [d \in Callers |-> IF d \in aboard THEN "idle" ELSE pc[d]]
      /\ answer' = [d \in Callers |-> IF d \in aboard THEN result ELSE answer[d]]

\* The leader looks again, then at what a browser rendered within the hour.
\* Where the page was found to be a slice it goes straight to the browser.
Recheck(c) ==
  /\ pc[c] = "recheck"
  /\ LET s == slug[c]
     IN  \/ /\ chapters[s] = "miss" /\ Land(c, "error") /\ UNCHANGED chapters
         \/ /\ chapters[s] \in Lists /\ Land(c, chapters[s]) /\ UNCHANGED chapters
         \/ /\ chapters[s] = "none" /\ rendered[s] # "none"
            /\ chapters' = [chapters EXCEPT ![s] = rendered[s]]
            /\ Land(c, rendered[s])
         \/ /\ chapters[s] = "none" /\ rendered[s] = "none"
            /\ Goto(c, IF s \in required THEN "ensure" ELSE "fetch")
            /\ UNCHANGED <<chapters, flight, answer>>
  /\ again' = [again EXCEPT ![c] = FALSE]
  /\ UNCHANGED <<rendered, required, browserVars, calls, slug, held>>

----------------------------------------------------------------------------
(* The page.                                                               *)

\* Mutant: what the page shows is taken for the list.
PageSuffices(page) == FALSE

\* assessHTMLChapterCompleteness: a slice shows its markers or its gaps.
NeedsBrowser(page) == page = "teaser"

\* What a browser rendered is not looked for again: while this flight is on,
\* nobody else stores it.
FetchPage(c) ==
  /\ pc[c] = "fetch"
  /\ LET s == slug[c]
     IN  \/ Land(c, "error") /\ UNCHANGED <<chapters, required>>
         \/ \E page \in Lists :
              /\ ~NeedsBrowser(page)
              /\ required' = required \ {s}
              /\ chapters' = [chapters EXCEPT ![s] = page]
              /\ Land(c, page)
         \/ \E page \in {"empty", "teaser"} :
              /\ page = "empty" \/ NeedsBrowser(page)
              /\ required' = IF page = "empty" THEN required ELSE required \cup {s}
              /\ Goto(c, "ensure") /\ UNCHANGED <<chapters, flight, answer>>
  /\ UNCHANGED <<rendered, browserVars, calls, slug, held, again>>

----------------------------------------------------------------------------
(* The browser.                                                            *)

\* A name for a new process.
Fresh == CHOOSE b \in Browsers : \A c \in Callers : held[c] # b

\* closeSharedBrowserLocked.
CloseShared ==
  shared' = None /\ leased' = FALSE /\ timer' = FALSE

\* loadBrowserChapters without a list: a miss of fifteen seconds.
GiveUp(c) ==
  /\ chapters' = [chapters EXCEPT ![slug[c]] = "miss"]
  /\ Land(c, "error")

\* ensureSharedBrowser: take the one there is while its lease runs, else close
\* it and launch another, which may fail.
EnsureSharedBrowser(c) ==
  /\ pc[c] = "ensure"
  /\ \/ /\ shared # None /\ leased
        /\ held' = [held EXCEPT ![c] = shared]
        /\ timer' = TRUE /\ Goto(c, "load")
        /\ UNCHANGED <<shared, leased, chapters, flight, answer>>
     \/ /\ ~(shared # None /\ leased)
        /\ shared' = Fresh /\ held' = [held EXCEPT ![c] = Fresh]
        /\ leased' = TRUE /\ timer' = TRUE /\ Goto(c, "load")
        /\ UNCHANGED <<chapters, flight, answer>>
     \/ /\ ~(shared # None /\ leased)
        /\ CloseShared /\ GiveUp(c) /\ UNCHANGED held
  /\ UNCHANGED <<rendered, required, firing, calls, slug, again>>

\* browserChaptersWithBrowser: the pages of the list through the browser, if
\* nobody closed it meanwhile.  The first failure resets the browser, whoever
\* uses it, the second ends the call.
LoadChapters(c) ==
  /\ pc[c] = "load"
  /\ LET s == slug[c]
     IN  \/ /\ shared = held[c]
            /\ required' = required \cup {s}
            /\ rendered' = [rendered EXCEPT ![s] = "whole"]
            /\ chapters' = [chapters EXCEPT ![s] = "whole"]
            /\ Land(c, "whole") /\ UNCHANGED again
         \/ /\ again[c] /\ GiveUp(c) /\ UNCHANGED <<rendered, required, again>>
         \/ /\ ~again[c] /\ Goto(c, "reset")
            /\ again' = [again EXCEPT ![c] = TRUE]
            /\ UNCHANGED <<cacheVars, flight, answer>>
  /\ held' = [held EXCEPT ![c] = None]
  /\ UNCHANGED <<browserVars, calls, slug>>

ResetSharedBrowser(c) ==
  /\ pc[c] = "reset"
  /\ CloseShared /\ Goto(c, "ensure")
  /\ UNCHANGED <<cacheVars, flight, firing, calls, slug, held, again, answer>>

\* Time passes: the lease runs out, and the timer set for its end fires.
LeaseEnds ==
  /\ shared # None /\ leased /\ leased' = FALSE
  /\ timer' = FALSE /\ firing' = firing + (IF timer THEN 1 ELSE 0)
  /\ UNCHANGED <<cacheVars, flight, shared, pc, calls, slug, held, again, answer>>

\* The callback of a timer, which a new lease may have overtaken.
TimerCallback ==
  /\ firing > 0 /\ firing' = firing - 1
  /\ IF shared # None /\ ~leased THEN CloseShared ELSE UNCHANGED <<shared, leased, timer>>
  /\ UNCHANGED <<cacheVars, flight, pc, calls, slug, held, again, answer>>

\* An entry's time is over.
Lapse(s) ==
  /\ \/ /\ chapters[s] # "none" /\ chapters' = [chapters EXCEPT ![s] = "none"]
        /\ UNCHANGED <<rendered, required>>
     \/ /\ rendered[s] # "none" /\ rendered' = [rendered EXCEPT ![s] = "none"]
        /\ UNCHANGED <<chapters, required>>
     \/ /\ rendered[s] = "none" /\ s \in required /\ required' = required \ {s}
        /\ UNCHANGED <<chapters, rendered>>
  /\ UNCHANGED <<flight, browserVars, pc, calls, slug, held, again, answer>>

Step(c) ==
  \/ ReadCache(c) \/ Join(c) \/ Recheck(c) \/ FetchPage(c)
  \/ EnsureSharedBrowser(c) \/ LoadChapters(c) \/ ResetSharedBrowser(c)

Next ==
  \/ \E c \in Callers : GetChapters(c) \/ Step(c)
  \/ LeaseEnds \/ TimerCallback
  \/ \E s \in Slugs : Lapse(s)

Spec == Init /\ [][Next]_vars

----------------------------------------------------------------------------
TypeOK ==
  /\ chapters \in [Slugs -> {"none", "miss"} \cup Lists]
  /\ rendered \in [Slugs -> {"none"} \cup Lists]
  /\ flight \in [Slugs -> Callers \cup {None}]
  /\ pc \in [Callers -> Loading \cup {"idle", "cached", "join", "wait"}]
  /\ slug \in [Callers -> Slugs \cup {None}]
  /\ answer \in [Callers -> {"none", "error"} \cup Lists]
  /\ \A c \in Callers : pc[c] # "idle" => slug[c] \in Slugs

\* No slice of a manga's chapters passes for its list, in an answer or in a
\* cache; and a manga is not reported without chapters while the list a browser
\* rendered is at hand, however flights, resets and lapses follow each other.
ListsAreWhole ==
  /\ \A c \in Callers : answer[c] # "teaser"
  /\ \A s \in Slugs : /\ "teaser" \notin {chapters[s], rendered[s]}
                      /\ chapters[s] = "miss" => rendered[s] = "none"

\* A call is under way.
Busy(c) == pc[c] # "idle"

\* A browser that no load holds on to is still there.
Lingers == shared # None /\ \A c \in Callers : pc[c] # "load"
=============================================================================
