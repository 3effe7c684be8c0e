----------------------------- MODULE MCSources -----------------------------
(* Sources whose calls share what one of them fetches: a browser's cookies   *)
(* (source sessions, AnimePahe), lists and pages (M440, MangaFire,           *)
(* WeebCentral), the results of a search.  The part a behaviour is about is  *)
(* chosen at the start.                                                      *)
EXTENDS SourceSession, SharedLoads, TLC

CONSTANTS t1, t2, t3, x1, x2, b1, b2, b3, m1, m2, bg

\* Two threads: the first calls twice, or as often as the second, or they use a
\* source each.  Three: one solves, one waits, one brings a session from the file.
TwoAndOne == t1 :> 2 @@ t2 :> 1
OneEach   == t1 :> 1 @@ t2 :> 1
Two(p, q) == t1 :> p @@ t2 :> q @@ t3 :> <<>>
SameOrNot == {Two(<<x1, x1>>, <<x1>>), Two(<<x1, x1>>, <<>>), Two(<<x1>>, <<x1>>),
              Two(<<x1>>, <<x2>>), [t \in {t1, t2, t3} |-> <<x1>>]}
Threads2  == {t1, t2}
Threads3  == {t1, t2, t3}
Sources2  == {x1, x2}

\* AnimePahe: a list of two pages beside a search, on two mirrors.
TwoMirrors    == <<b1, b2>>
ListAndSearch == t1 :> "episodes" @@ t2 :> "search"

\* M440: one manga beside either of two; three names for browsers.
OneOrBoth == t1 :> {m1} @@ t2 :> {m1, m2}

\* WeebCentral: 40 chapters; the page shows nothing, an end, or both.
Series   == 1 .. 40
TopEnd   == {39, 40}
BothEnds == {1, 2} \cup TopEnd
Partial  == {{1, 2}, TopEnd, BothEnds}
MayShow  == Partial \cup {{}}
MayList  == Partial \cup {Series}

\* A search of both sources beside a search of one.
BothOrOne == t1 :> Sources2 @@ t2 :> {x1}

VARIABLE part

Crowd  == plan[t3] # <<>>
OnFile == [x \in Sources |->
             IF \E t \in Threads : \E i \in DOMAIN plan[t] : plan[t][i] = x THEN x ELSE None]

paheVars    == <<activeBase, cached, kept, inflight, solved, stage, bases, queries,
                 fetch, all, refused>>
m440Vars    == <<chapters, rendered, required, flight, shared, leased, timer, firing,
                 m440Pc, m440Calls, slug, held, again, m440Answer>>
fireVars    == <<inventory, stock, loader, shown, owner, firePc, fireCalls, chapter,
                 starts, got, fireAnswer>>
weebVars    == <<cache, weebFlight, weebPc, weebCalls, slice, weebAnswer>>
searchVars  == <<hits, search, asker, result, box, taken>>
cookieVars  == <<vars, paheVars>>
loadVars    == <<m440Vars, fireVars, weebVars>>
mcvars      == <<part, cookieVars, loadVars, searchVars>>

MCInit ==
  /\ part \in {"sessions", "pahe", "m440", "mangafire", "weebcentral", "search"}
  /\ Init /\ AP!Init /\ M4!Init /\ MF!Init /\ WC!Init /\ ON!Init
  /\ file \in {Empty, OnFile}
  /\ Crowd => file # Empty
  /\ part # "sessions"  => plan = Two(<<x1>>, <<x2>>) /\ file = Empty
  /\ part # "mangafire" => stock = "none"

Sessions(A) == part = "sessions" /\ A /\ UNCHANGED <<part, paheVars, loadVars, searchVars>>
Pahe(A)     == part = "pahe" /\ A /\ UNCHANGED <<part, vars, loadVars, searchVars>>
Shares(A)   == A /\ UNCHANGED <<part, cookieVars, searchVars>>
Of440(A)    == part = "m440" /\ Shares(A) /\ UNCHANGED <<fireVars, weebVars>>
Fire(A)     == part = "mangafire" /\ Shares(A) /\ UNCHANGED <<m440Vars, weebVars>>
Weeb(A)     == part = "weebcentral" /\ Shares(A) /\ UNCHANGED <<m440Vars, fireVars>>
Search(A)   == part = "search" /\ A /\ UNCHANGED <<part, cookieVars, loadVars>>

\* Bounds: the process ends only where there are two calls in all; of three
\* threads none is sent away with a 429.
Ends   == restarts' # restarts => Len(plan[t1]) + Len(plan[t2]) + Len(plan[t3]) = 2
Calmly == Crowd => \A t \in Threads : attempt'[t] # "again"

MCNext ==
  \/ Sessions(Next /\ Ends /\ Calmly) \/ Pahe(AP!Next) \/ Of440(M4!Next) \/ Fire(MF!Next)
  \/ Weeb(WC!Next) \/ Search(ON!Next)

\* The next step of the calls of thread t.
Proceeds(t) ==
  \/ Sessions(Running(Step(t))) \/ Pahe(AP!Proceed(t)) \/ Of440(M4!Step(t))
  \/ Fire(MF!Step(t)) \/ Weeb(WC!Step(t)) \/ Search(ON!Runs(t))

\* Timers fire, and the goroutine nobody waits for runs.
Behind == Of440(M4!LeaseEnds \/ M4!TimerCallback) \/ Fire(MF!Step(bg))

\* Strong fairness: a mutex of Go goes to who has waited long.
MCSpec ==
  /\ MCInit /\ [][MCNext]_mcvars
  /\ SF_mcvars(Proceeds(t1)) /\ SF_mcvars(Proceeds(t2)) /\ WF_mcvars(Behind)
  /\ SF_mcvars(Crowd /\ Sessions(Running(Step(t3))))

----------------------------------------------------------------------------
\* M440 and WeebCentral: a slice of the chapters is not shown for the list.
SliceIsNotList == [][M4!ListsAreWhole' /\ WC!WholeOrError]_mcvars

(* Every call comes back: who waits for the cookies another solves is woken,
   whatever became of the solve, unless its entry was replaced meanwhile; and so
   is who waits for a load; a search ends though a source never answers.  And the
   browser M440 keeps after its last call is closed.  Each thread makes so many
   calls and no more: all come back, if in the end none is under way. *)
Waits(t) ==
  CASE part = "sessions"    -> Busy(t)    [] part = "pahe"      -> AP!Busy(t)
    [] part = "m440"        -> M4!Busy(t) \/ M4!Lingers
    [] part = "mangafire"   -> MF!Busy(t) [] part = "weebcentral" -> WC!Busy(t)
    [] part = "search"      -> ON!Busy(t)

EveryCallReturns == <>[](~Waits(t1) /\ ~Waits(t2) /\ (Crowd => ~Waits(t3)))
=============================================================================
