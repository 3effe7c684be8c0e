------------------------------ MODULE AnimePahe ------------------------------
(***************************************************************************)
(* The AnimePahe source: a search or a list of episodes, asked of one      *)
(* mirror after the other; every page fetched plainly, then with the       *)
(* cookies of a solved DDoS-Guard challenge, then by a browser.  Cookies   *)
(* are kept per mirror, in memory and in a file, both under cachedMu;      *)
(* callers that need them while a browser solves share its outcome.        *)
(***************************************************************************)
EXTENDS Naturals, FiniteSets, Sequences, Functions

CONSTANTS
  Calls,       \* calls of Search, GetEpisodes or GetStreamSources
  Mirrors,     \* animePaheMirrorBases, in their order
  Kind,        \* Kind[c]: "search", "episodes" or "streams"
  LastPage,    \* LastPage[c]: pages of what c asks for, 1 but for episodes
  Forms,       \* forms of a title to search for, animePaheSearchQueries
  Parallel,    \* fetches at a time of one call, 4 in the code
  MaxCookies,  \* bound: challenges that are solved
  None

Bases == Range(Mirrors)
Jars  == 1 .. MaxCookies     \* the cookies of one solve each
Pages == UNION {1 .. LastPage[c] : c \in Calls}
PageFetches == Calls \X Pages

\* What the constants must be; assumed where the module is instantiated.
AnimePaheAssumption ==
  /\ Mirrors \in Seq(Bases) /\ Mirrors # <<>>
  /\ \A i, j \in DOMAIN Mirrors : Mirrors[i] = Mirrors[j] => i = j
  /\ None \notin Bases \cup Jars \cup PageFetches
  /\ Kind \in [Calls -> {"search", "episodes", "streams"}]
  /\ LastPage \in [Calls -> Nat \ {0}]
  /\ \A c \in Calls : Kind[c] # "episodes" => LastPage[c] = 1
  /\ Forms \in Nat \ {0}
  /\ Parallel \in Nat \ {0} /\ MaxCookies \in Nat

VARIABLES
  activeBase,  \* animePaheActiveBase
  cached,      \* cached[b]: cachedCookiesByBase
  kept,        \* kept[b]: the cookies in the file
  inflight,    \* inflight[b]: the fetch that solves for b
  solved,      \* number of challenges solved
  stage,       \* stage[c]: "idle", "first", "rest", "done", "failed"
  bases,       \* bases[c]: the mirrors c has left, the current one first
  queries,     \* queries[c]: the forms of the title left, for a search
  fetch,       \* fetch[c][p]: where the fetch of a page is
  all,         \* all[c]: the pages c has in hand, each with its mirror
  \* History, read by properties only:
  refused      \* refused[c][p]: cookies the mirror has refused to this fetch

vars == <<activeBase, cached, kept, inflight, solved, stage, bases, queries, fetch,
          all, refused>>

NoFetch    == [at |-> "none", retry |-> TRUE, cookies |-> None, solver |-> None]
NewFetch   == [NoFetch EXCEPT !.at = "plain"]
Base(c)    == Head(bases[c])

Init ==
  /\ activeBase = Mirrors[1]
  /\ cached = [b \in Bases |-> None]
  /\ kept = [b \in Bases |-> None]
  /\ inflight = [b \in Bases |-> None]
  /\ solved = 0
  /\ stage = [c \in Calls |-> "idle"]
  /\ bases = [c \in Calls |-> <<>>]
  /\ queries = [c \in Calls |-> IF Kind[c] = "search" THEN Forms ELSE 1]
  /\ fetch = [c \in Calls |-> [p \in Pages |-> NoFetch]]
  /\ all = [c \in Calls |-> {}]
  /\ refused = [c \in Calls |-> [p \in Pages |-> {}]]

jar == <<cached, kept, inflight, solved>>
own == <<stage, bases, queries, all>>

At(c, p)      == fetch[c][p].at
Set(c, p, f)  == fetch' = [fetch EXCEPT ![c][p] = f]
Goto(c, p, l) == Set(c, p, [fetch[c][p] EXCEPT !.at = l])

\* animePaheBaseCandidates: the mirror that worked last, then the others.
BaseCandidates ==
  LET k == CHOOSE i \in DOMAIN Mirrors : Mirrors[i] = activeBase
  IN  <<activeBase>> \o SubSeq(Mirrors, 1, k - 1) \o SubSeq(Mirrors, k + 1, Len(Mirrors))

----------------------------------------------------------------------------
(* The call: Search, GetEpisodes, GetStreamSources.                        *)

Begin(c) ==
  /\ stage[c] = "idle"
  /\ stage' = [stage EXCEPT ![c] = "first"]
  /\ bases' = [bases EXCEPT ![c] = BaseCandidates]
  /\ Set(c, 1, NewFetch)
  /\ UNCHANGED <<activeBase, queries, jar, all, refused>>

\* Mutant: what came from the mirror before is kept.
EmptiedNever(c) == all' = all

Emptied(c) == all' = [all EXCEPT ![c] = {}]

QueriesLeft(c) == IF Len(bases[c]) > 1 THEN queries[c] ELSE queries[c] - 1

\* The mirror failed or had nothing: the next one, for a search also the next
\* form of the title, from the first mirror on.
NextBase(c) ==
  LET left == IF Len(bases[c]) > 1 THEN Tail(bases[c])
              ELSE IF queries[c] > 1 THEN BaseCandidates ELSE <<>>
  IN  /\ bases' = [bases EXCEPT ![c] = left]
      /\ queries' = [queries EXCEPT ![c] = QueriesLeft(c)]
      /\ stage' = [stage EXCEPT ![c] = IF left = <<>> THEN "failed" ELSE "first"]
      /\ fetch' = [fetch EXCEPT ![c] = [p \in Pages |->
                     IF p = 1 /\ left # <<>> THEN NewFetch ELSE NoFetch]]
      /\ Emptied(c)

\* rememberAnimePaheBase, and the result.
Succeed(c, pages) ==
  /\ activeBase' = Base(c)
  /\ stage' = [stage EXCEPT ![c] = "done"]
  /\ all' = [all EXCEPT ![c] = @ \cup pages]
  /\ fetch' = [fetch EXCEPT ![c] = [p \in Pages |-> NoFetch]]
  /\ UNCHANGED <<bases, queries>>

\* The first page: failed, unreadable, empty, or good.
FirstPage(c) ==
  /\ stage[c] = "first"
  /\ LET first == {<<Base(c), 1>>}
     IN  \/ /\ At(c, 1) \in {"fetched", "failed"}
            /\ NextBase(c)
            /\ \/ UNCHANGED activeBase
               \/ /\ At(c, 1) = "fetched"      \* a search without a result
                  /\ Kind[c] = "search"
                  /\ activeBase' = Base(c)
         \/ /\ At(c, 1) = "fetched"
            /\ LastPage[c] = 1
            /\ Succeed(c, first)
         \/ /\ At(c, 1) = "fetched"
            /\ LastPage[c] > 1
            /\ stage' = [stage EXCEPT ![c] = "rest"]
            /\ all' = [all EXCEPT ![c] = @ \cup first]
            /\ fetch' = [fetch EXCEPT ![c] = [p \in Pages |->
                 IF p \in 2 .. LastPage[c]
                 THEN [NoFetch EXCEPT !.at = "queued"] ELSE NoFetch]]
            /\ UNCHANGED <<activeBase, bases, queries>>
  /\ UNCHANGED <<jar, refused>>

\* wg.Wait(): one page that failed sends the call to the next mirror.
RestOfPages(c) ==
  /\ stage[c] = "rest"
  /\ \A p \in 2 .. LastPage[c] : At(c, p) \in {"fetched", "failed"}
  /\ \/ /\ \A p \in 2 .. LastPage[c] : At(c, p) = "fetched"
        /\ Succeed(c, {<<Base(c), p>> : p \in 2 .. LastPage[c]})
     \/ /\ \E p \in 2 .. LastPage[c] : At(c, p) = "failed"
        /\ NextBase(c)
        /\ UNCHANGED activeBase
  /\ UNCHANGED <<jar, refused>>

\* A page's goroutine passes the semaphore.
Dispatch(c, p) ==
  /\ At(c, p) = "queued"
  /\ Cardinality({q \in Pages : At(c, q) \notin {"none", "queued", "fetched",
                                                 "failed"}}) < Parallel
  /\ Set(c, p, NewFetch)
  /\ UNCHANGED <<activeBase, jar, own, refused>>

----------------------------------------------------------------------------
(* fetchAPIWithBrowserFallback over fetchWithCookies.                      *)

PlainRequest(c, p) ==
  /\ At(c, p) = "plain"
  /\ Goto(c, p, "fetched") \/ Goto(c, p, "lookup")
  /\ UNCHANGED <<activeBase, jar, own, refused>>

\* getValidCookies: memory, the file, a solve under way, a solve of one's own.
GetValidCookies(c, p) ==
  /\ At(c, p) = "lookup"
  /\ LET b == Base(c)
         got == [fetch[c][p] EXCEPT !.at = "send", !.cookies = cached'[b]]
     IN  \/ /\ cached[b] # None \/ kept[b] # None
            /\ cached' = [cached EXCEPT ![b] = IF @ # None THEN @ ELSE kept[b]]
            /\ Set(c, p, got)
            /\ UNCHANGED inflight
         \/ /\ cached[b] = None /\ kept[b] = None
            /\ inflight[b] # None
            /\ Set(c, p, [fetch[c][p] EXCEPT !.at = "waiting", !.solver = inflight[b]])
            /\ UNCHANGED <<cached, inflight>>
         \/ /\ cached[b] = None /\ kept[b] = None
            /\ inflight[b] = None
            /\ inflight' = [inflight EXCEPT ![b] = <<c, p>>]
            /\ Goto(c, p, "solving")
            /\ UNCHANGED cached
  /\ UNCHANGED <<activeBase, kept, solved, own, refused>>

\* Mutant: the waiters are not told.
OutcomeOwn(c, p, f, o) ==
  IF o = <<c, p>>
  THEN [f EXCEPT !.solver = None, !.cookies = cached'[Base(c)],
                 !.at = IF cached'[Base(c)] = None THEN "browser" ELSE "send"]
  ELSE f

\* The waiters of a solve share its cookies or its error.
Outcome(c, p, f, o) ==
  IF o = <<c, p>> \/ (f.at = "waiting" /\ f.solver = <<c, p>>)
  THEN [f EXCEPT !.solver = None, !.cookies = cached'[Base(c)],
                 !.at = IF cached'[Base(c)] = None THEN "browser" ELSE "send"]
  ELSE f

\* solveDDoSGuard has ended, with usable cookies or without.
Solved(c, p) ==
  /\ At(c, p) = "solving"
  /\ LET b == Base(c)
     IN  /\ \/ /\ solved < MaxCookies
               /\ solved' = solved + 1
               /\ cached' = [cached EXCEPT ![b] = solved + 1]
            \/ /\ cached' = [cached EXCEPT ![b] = None]
               /\ UNCHANGED solved
         /\ kept' = [kept EXCEPT ![b] = cached'[b]]
         /\ inflight' = [inflight EXCEPT ![b] = None]
         /\ fetch' = [d \in Calls |-> [q \in Pages |->
              Outcome(c, p, fetch[d][q], <<d, q>>)]]
  /\ UNCHANGED <<activeBase, own, refused>>

\* Mutant: only memory forgets the cookies.
InvalidateMemory(b) == cached' = [cached EXCEPT ![b] = None] /\ UNCHANGED kept

\* invalidateCookies: whatever the mirror's cookies are by now.
InvalidateCookies(b) ==
  /\ cached' = [cached EXCEPT ![b] = None]
  /\ kept' = [kept EXCEPT ![b] = None]

\* The request with cookies; a refusal has them renewed, once.
SendCookies(c, p) ==
  /\ At(c, p) = "send"
  /\ \/ /\ Goto(c, p, "fetched") \/ Goto(c, p, "browser")
        /\ UNCHANGED <<cached, kept, refused>>
     \/ /\ fetch[c][p].retry
        /\ InvalidateCookies(Base(c))
        /\ refused' = [refused EXCEPT ![c][p] = @ \cup {fetch[c][p].cookies}]
        /\ Set(c, p, [NewFetch EXCEPT !.retry = FALSE])
  /\ UNCHANGED <<activeBase, inflight, solved, own>>

BrowserFetch(c, p) ==
  /\ At(c, p) = "browser"
  /\ Goto(c, p, "fetched") \/ Goto(c, p, "failed")
  /\ UNCHANGED <<activeBase, jar, own, refused>>

\* Two hours have passed for the cookies of a mirror.
Expire(b) ==
  /\ cached[b] # None \/ kept[b] # None
  /\ InvalidateCookies(b)
  /\ UNCHANGED <<activeBase, inflight, solved, own, fetch, refused>>

----------------------------------------------------------------------------
Fetch(c, p) ==
  \/ Dispatch(c, p) \/ PlainRequest(c, p) \/ GetValidCookies(c, p)
  \/ Solved(c, p) \/ SendCookies(c, p) \/ BrowserFetch(c, p)

Proceed(c) == FirstPage(c) \/ RestOfPages(c) \/ \E p \in Pages : Fetch(c, p)

Next ==
  \/ \E c \in Calls : Begin(c) \/ Proceed(c)
  \/ \E b \in Bases : Expire(b)

Spec == Init /\ [][Next]_vars

\* Goroutines run and requests and solves have deadlines.  A call has no loop,
\* so that any of its goroutines going on is enough.
Fair == \A c \in Calls : WF_vars(Proceed(c))

----------------------------------------------------------------------------
TypeOK ==
  /\ activeBase \in Bases
  /\ cached \in [Bases -> Jars \cup {None}]
  /\ kept \in [Bases -> Jars \cup {None}]
  /\ inflight \in [Bases -> PageFetches \cup {None}]
  /\ solved \in 0 .. MaxCookies
  /\ stage \in [Calls -> {"idle", "first", "rest", "done", "failed"}]
  /\ bases \in [Calls -> Seq(Bases)]
  /\ fetch \in [Calls -> [Pages ->
       [at : {"none", "queued", "plain", "lookup", "waiting", "solving", "send",
              "browser", "fetched", "failed"},
        retry : BOOLEAN, cookies : Jars \cup {None},
        solver : PageFetches \cup {None}]]]

(* extension.go 868-871, browser.go 148-163: cookies that the mirror has refused
   are renewed: the second try never sends them again, whatever the other
   fetches have put into memory or the file in the meantime. *)
RefusedNotResent ==
  \A c \in Calls, p \in Pages :
    At(c, p) = "send" => fetch[c][p].cookies \notin refused[c][p] \cup {None}

(* extension.go 159-195, 232-273: a list of episodes that is returned is whole
   and from one mirror: pages of a mirror that failed half way never mix with
   those of the next, and no page is missing. *)
EpisodesAreWhole ==
  \A c \in Calls : stage[c] = "done" =>
    \E b \in Bases : all[c] = {b} \X (1 .. LastPage[c])

\* A call is under way.
Busy(c) == stage[c] \in {"first", "rest"}
=============================================================================
