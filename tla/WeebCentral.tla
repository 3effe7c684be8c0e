---------------------------- MODULE WeebCentral ----------------------------
(***************************************************************************)
(* The chapter lists of the WeebCentral source.  A series' page shows a    *)
(* slice of its chapters; the whole list is a second request, made by one  *)
(* flight for all calls that want it at the time.  A list is a set of      *)
(* chapter numbers.                                                        *)
(***************************************************************************)
EXTENDS Naturals, FiniteSets, FiniteSetsExt

CONSTANTS
  Callers,   \* threads that call GetChapters for one series
  Published, \* its chapters
  Shown,     \* Shown, Listed: what its page and the request for the whole list
  Listed,    \*   may bring, the empty set if nothing can be read
  MaxCalls,  \* bound: calls of one thread
  None

WeebCentralAssumption ==
  /\ Shown \cup Listed \subseteq SUBSET Published /\ Published \in Listed
  /\ MaxCalls \in [Callers -> Nat] /\ None \notin Callers

VARIABLES
  cache,   \* chapterCache: a list, {} if there is none
  flight,  \* chapterWarm: the caller that loads
  pc, calls,
  slice,   \* slice[c]: what c read on the page
  answer   \* answer[c]: the list, {} for an error

vars == <<cache, flight, pc, calls, slice, answer>>

Goto(c, at) == pc' = [pc EXCEPT ![c] = at]

Init ==
  /\ cache = {} /\ flight = None
  /\ pc = [c \in Callers |-> "idle"] /\ calls = [c \in Callers |-> 0]
  /\ slice = [c \in Callers |-> {}] /\ answer = [c \in Callers |-> {}]

\* bestContiguousTeaserSlice: the longest run without a gap, the first of those;
\* if no two chapters follow each other, all of them.
Run(from, to) == from .. to
Slice(chapters) ==
  LET runs == {r \in {Run(a, b) : a, b \in chapters} : r # {} /\ r \subseteq chapters}
      best == CHOOSE r \in runs :
                \A s \in runs : \/ Cardinality(r) > Cardinality(s)
                                \/ Cardinality(r) = Cardinality(s) /\ Min(r) <= Min(s)
  IN  IF chapters = {} \/ Cardinality(best) = 1 THEN chapters ELSE best

\* looksLikeBoundaryOnlyChapterSet: a few chapters from both ends.
BoundaryOnly(chapters) ==
  /\ Cardinality(chapters) >= 4 /\ Min(chapters) <= 3
  /\ Max(chapters) - Min(chapters) > 8 * Cardinality(chapters)

\* loadFullChapterList: the list, or {} if it says no more than the page.
Merged(list, seen) == IF list = {} THEN {} ELSE list \cup seen
Accept(list, seen) ==
  LET merged == Merged(list, seen)
  IN  IF seen # {} /\ (merged = seen \/ BoundaryOnly(merged)) THEN {} ELSE merged

----------------------------------------------------------------------------
GetChapters(c) ==
  /\ pc[c] = "idle" /\ calls[c] < MaxCalls[c]
  /\ calls' = [calls EXCEPT ![c] = @ + 1]
  /\ Goto(c, "cached")
  /\ UNCHANGED <<cache, flight, slice, answer>>

ReadCache(c) ==
  /\ pc[c] = "cached"
  /\ IF cache # {} THEN answer' = [answer EXCEPT ![c] = cache] /\ Goto(c, "idle")
     ELSE Goto(c, "page") /\ UNCHANGED answer
  /\ UNCHANGED <<cache, flight, calls, slice>>

\* The page of the series, which may fail.
FetchPage(c) ==
  /\ pc[c] = "page"
  /\ \/ \E shown \in Shown : slice' = [slice EXCEPT ![c] = Slice(shown)] /\ Goto(c, "join")
                             /\ UNCHANGED answer
     \/ answer' = [answer EXCEPT ![c] = {}] /\ Goto(c, "idle") /\ UNCHANGED slice
  /\ UNCHANGED <<cache, flight, calls>>

\* chapterWarm.Do: the leader's slice is the one the list is held against.
Join(c) ==
  /\ pc[c] = "join"
  /\ IF flight = None THEN flight' = c /\ Goto(c, "list")
     ELSE Goto(c, "wait") /\ UNCHANGED flight
  /\ UNCHANGED <<cache, calls, slice, answer>>

\* A list that is refused, empty or does not come fails the calls aboard; the
\* slice is never given in its place.
FetchList(c) ==
  /\ pc[c] = "list" /\ flight' = None
  /\ \E list \in Listed \cup {{}} :
       LET got    == Accept(list, slice[c])
           aboard == {d \in Callers : d = c \/ pc[d] = "wait"}
       IN  /\ cache' = IF got = {} THEN cache ELSE got
           /\ answer' = [d \in Callers |-> IF d \in aboard THEN got ELSE answer[d]]
           /\ pc' = [d \in Callers |-> IF d \in aboard THEN "idle" ELSE pc[d]]
  /\ slice' = [d \in Callers |-> IF pc'[d] = "idle" THEN {} ELSE slice[d]]
  /\ UNCHANGED calls

Lapse ==
  /\ cache # {} /\ cache' = {}
  /\ UNCHANGED <<flight, pc, calls, slice, answer>>

Step(c) == ReadCache(c) \/ FetchPage(c) \/ Join(c) \/ FetchList(c)

Next == (\E c \in Callers : GetChapters(c) \/ Step(c)) \/ Lapse

Spec == Init /\ [][Next]_vars

----------------------------------------------------------------------------
TypeOK ==
  /\ pc \in [Callers -> {"idle", "cached", "page", "join", "wait", "list"}]
  /\ flight \in Callers \cup {None}

\* Where the page of a series showed a slice, no slice passes for its list: not
\* the one on the page, nor one from another end of the series.  All who are
\* aboard the flight are given the whole list or an error, and so is the cache.
WholeOrError ==
  \A c \in Callers :
    pc[c] = "list" /\ slice[c] # {} /\ pc'[c] = "idle" =>
      /\ cache' \in {cache, Published}
      /\ \A d \in Callers : pc'[d] # pc[d] => answer'[d] \in {{}, Published}

(* chapterWarm.Do: the list is loaded by one call at a time, and nobody waits for
   a load that is over. *)
OneFlight ==
  \A c \in Callers :
    /\ pc[c] = "list" <=> flight = c
    /\ pc[c] = "wait" => flight # None

\* A call is under way.
Busy(c) == pc[c] # "idle"
=============================================================================
