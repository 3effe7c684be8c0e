----------------------------- MODULE Resolvers -----------------------------
(* extensions/animeflv/resolvers.go: from the page of an embed to a stream that a
   player can open.  ResolvePlayable follows pages that lead to pages; most
   sources call it, from pools of goroutines that share its cache.  Resolve, which
   looks behind one page only, is called by TioAnime and by the download manager.

   A URL is a page that IsEmbedPageURL knows, a tracker that may wrap another URL,
   junk that is no address of the web, or anything else, which is taken for a
   stream even where it is a page. *)
EXTENDS Naturals, Sequences, FiniteSets

CONSTANTS Playing, Resolving, \* the calls of ResolvePlayable, and of Resolve
          Urls, Pages, Trackers, Junk,
          Wraps,      \* what the query of a tracker holds
          Host,       \* whose page a URL is
          Shows,      \* what the patterns of its resolver match, the first ones first
          Videos,     \* of a page of ok.ru: [size, url], the size from 1, HD, to 4
          Loads,      \* what a browser on the page loads, or finds in it
          None

MaxDepth == 4         \* of ResolvePlayable

Hosts == {"zilla", "page", "streamtape", "okru", "dood", "megaup", "jkplayer"}
Chasers == Playing \cup Resolving

ResolversAssumption ==
  /\ Pages \cup Trackers \cup Junk \subseteq Urls
  /\ Pages \cap Junk = {} /\ Trackers \cap (Pages \cup Junk) = {}
  /\ None \notin Urls \cup {"error", "failed"} /\ {"error", "failed"} \cap Urls = {}
  /\ Playing \cap Resolving = {}
  /\ Wraps \in [Trackers -> (Urls \ Junk) \cup {None}]
  /\ Host \in [Urls -> Hosts]
  /\ Shows \in [Urls -> Seq(Urls \cup {None})]
  /\ Videos \in [Urls -> Seq([size : 1 .. 4, url : Urls])]
  /\ Loads \in [Urls -> SUBSET Urls]

VARIABLES
  embed,    \* the URL a task is given
  cached,   \* resolvePlayableCache: a stream, "failed" or None
  pc,       \* of a task: where it is
  current, seen, \* the URL it is at, and those it has been at
  answer    \* what it returned: a URL, "error", or None yet

vars == <<embed, cached, pc, current, seen, answer>>

Init ==
  /\ embed \in [Chasers -> Urls] /\ cached = [u \in Urls |-> None]
  /\ pc = [t \in Chasers |-> IF t \in Playing THEN "idle" ELSE "resolve"]
  /\ current = embed
  /\ seen = [t \in Chasers |-> {}] /\ answer = [t \in Chasers |-> None]

LooksLikePlayableURL(u) == u \notin Pages \cup Trackers \cup Junk

Goto(t, p) == pc' = [pc EXCEPT ![t] = p] /\ UNCHANGED answer
Return(t, a) == pc' = [pc EXCEPT ![t] = "done"] /\ answer' = [answer EXCEPT ![t] = a]

\* storePlayableStream: the next call finds it, or that there is none.
Store(u, a) == cached' = [cached EXCEPT ![u] = a]

\* cachedPlayableStream: the note that there is none is not honoured.
Lookup(t) ==
  /\ pc[t] = "idle"
  /\ IF cached[embed[t]] \in Urls THEN Return(t, cached[embed[t]]) ELSE Goto(t, "chase")
  /\ UNCHANGED <<embed, cached, current, seen>>

----------------------------------------------------------------------------
(* ResolvePlayable.                                                         *)

\* The head of the loop: too deep, in a circle, at a stream, or on a page.
Arrive(t) ==
  /\ pc[t] = "chase"
  /\ \/ Cardinality(seen[t]) = MaxDepth
        /\ Store(embed[t], "failed") /\ Return(t, "error") /\ UNCHANGED seen
     \/ Cardinality(seen[t]) < MaxDepth /\ current[t] \in seen[t]
        /\ Return(t, "error") /\ UNCHANGED <<cached, seen>>
     \/ /\ Cardinality(seen[t]) < MaxDepth /\ current[t] \notin seen[t]
        /\ seen' = [seen EXCEPT ![t] = @ \cup {current[t]}]
        /\ IF LooksLikePlayableURL(current[t])
           THEN Store(current[t], current[t]) /\ Return(t, current[t])
           ELSE Goto(t, "resolve") /\ UNCHANGED cached
  /\ UNCHANGED <<embed, current>>

\* Nothing is behind the page: a browser is asked, and then nobody.
Missed(t) ==
  /\ \/ t \in Playing /\ pc[t] # "browser" /\ Goto(t, "browser") /\ UNCHANGED cached
     \/ t \in Playing /\ pc[t] = "browser" /\ Store(embed[t], "failed") /\ Return(t, "error")
     \/ t \in Resolving /\ Return(t, "error") /\ UNCHANGED cached
  /\ UNCHANGED <<embed, current, seen>>

\* Mutant: what is no page is taken for a stream, a tracker too.
FoundUnchecked(t, next) ==
  /\ \/ t \in Resolving /\ Return(t, next) /\ UNCHANGED <<cached, current>>
     \/ /\ t \in Playing /\ next \notin Pages
        /\ Store(embed[t], next) /\ Return(t, next) /\ UNCHANGED current
     \/ /\ t \in Playing /\ next \in Pages
        /\ current' = [current EXCEPT ![t] = next]
        /\ Goto(t, "chase") /\ UNCHANGED cached
  /\ UNCHANGED <<embed, seen>>

\* A URL is behind it.
Found(t, next) ==
  /\ \/ t \in Resolving /\ Return(t, next) /\ UNCHANGED <<cached, current>>
     \/ /\ t \in Playing /\ next \in Trackers /\ Wraps[next] # None
        /\ current' = [current EXCEPT ![t] = Wraps[next]]
        /\ Goto(t, "chase") /\ UNCHANGED cached
     \/ t \in Playing /\ next \in Trackers /\ Wraps[next] = None
        /\ Return(t, "error") /\ UNCHANGED <<cached, current>>
     \/ t \in Playing /\ LooksLikePlayableURL(next)
        /\ Store(embed[t], next) /\ Return(t, next) /\ UNCHANGED current
     \/ t \in Playing /\ next \in Junk
        /\ Store(embed[t], "failed") /\ Return(t, "error") /\ UNCHANGED current
     \/ /\ t \in Playing /\ next \in Pages
        /\ current' = [current EXCEPT ![t] = next]
        /\ Goto(t, "chase") /\ UNCHANGED cached
  /\ UNCHANGED <<embed, seen>>

----------------------------------------------------------------------------
(* Resolve: a resolver for each host.                                       *)

At(t, host) == pc[t] = "resolve" /\ Host[current[t]] = host

\* Nothing matches, or what the first pattern that matches gives.
Matches(u) == {k \in DOMAIN Shows[u] : Shows[u][k] # None}
FoundFirst(t) ==
  \E k \in Matches(current[t]) :
    /\ \A l \in Matches(current[t]) : k <= l
    /\ Found(t, Shows[current[t]][k])

\* resolveZillaManifestURL: the address of the manifest is made from that of the
\* page, if it is of the form that is known.
Zilla(t) ==
  /\ At(t, "zilla")
  /\ \/ Matches(current[t]) = {} /\ Missed(t)
     \/ FoundFirst(t)

\* YourUpload, Mp4Upload, Voe, Filemoon, Streamwish, Streamhide and any other
\* host: one fetch, and patterns over the page and what it has packed.
ReadPage(t) == At(t, "page") /\ (Missed(t) \/ FoundFirst(t))

\* HD, SD, mobile, or else the first of the list.
FoundBest(t) ==
  LET videos == Videos[current[t]]
  IN \E k \in DOMAIN videos :
       /\ \A l \in DOMAIN videos :
            videos[k].size < videos[l].size \/ (videos[k].size = videos[l].size /\ k <= l)
       /\ Found(t, videos[k].url)

Okru(t) == At(t, "okru") /\ (Missed(t) \/ FoundBest(t))

\* A frame of ok.ru is looked behind at once; nothing else is tried if that fails.
JKPlayer(t) ==
  /\ At(t, "jkplayer")
  /\ \/ Missed(t)
     \/ FoundBest(t)
     \/ Videos[current[t]] = <<>> /\ FoundFirst(t)

\* The page names a second one; its text and a token make the address.
Dood(t) == At(t, "dood") /\ (Missed(t) \/ FoundFirst(t))

\* Five patterns over the page, or a browser that clicks its button.
Streamtape(t) ==
  /\ At(t, "streamtape")
  /\ \/ FoundFirst(t)
     \/ Goto(t, "capture") /\ UNCHANGED <<embed, cached, current, seen>>
     \/ Missed(t) \* the page cannot be fetched

StreamtapeBrowser(t) ==
  /\ pc[t] = "capture"
  /\ \/ Missed(t)
     \/ \E u \in Loads[current[t]] : Found(t, u)

\* browserResolveMedia: anything but a tracker.
Browser(t) ==
  /\ pc[t] = "browser" \/ At(t, "megaup")
  /\ \/ Missed(t)
     \/ \E u \in Loads[current[t]] \ Trackers : Found(t, u)

----------------------------------------------------------------------------
\* Half an hour, or two minutes, later; or a call that saw an entry expired
\* deletes the one that another has stored since.
Expire ==
  /\ \E u \in Urls : cached[u] # None /\ Store(u, None)
  /\ UNCHANGED <<embed, pc, current, seen, answer>>

Step(t) ==
  \/ Lookup(t) \/ Arrive(t) \/ Zilla(t) \/ ReadPage(t) \/ Okru(t) \/ JKPlayer(t)
  \/ Dood(t) \/ Streamtape(t) \/ StreamtapeBrowser(t) \/ Browser(t)

Next == (\E t \in Chasers : Step(t)) \/ Expire

Spec == Init /\ [][Next]_vars

----------------------------------------------------------------------------
TypeOK ==
  /\ embed \in [Chasers -> Urls]
  /\ cached \in [Urls -> Urls \cup {None, "failed"}]
  /\ pc \in [Chasers -> {"idle", "chase", "resolve", "capture", "browser", "done"}]
  /\ current \in [Chasers -> Urls] /\ seen \in [Chasers -> SUBSET Urls]
  /\ answer \in [Chasers -> Urls \cup {None, "error"}]

\* What lies behind a page, and what a chase may go on to from it.
Behind(u) == {Shows[u][k] : k \in Matches(u)} \cup {Videos[u][k].url : k \in DOMAIN Videos[u]}
             \cup Loads[u]
Beyond(u) == IF LooksLikePlayableURL(u) THEN {}
             ELSE Behind(u) \cup ({Wraps[w] : w \in Behind(u) \cap Trackers} \ {None})

\* How far it may come in n steps.
Further(S) == S \cup UNION {Beyond(v) : v \in S}
Within(n, u) ==
  CASE n = 0 -> {u}
    [] n = 1 -> Further({u})
    [] n = 2 -> Further(Further({u}))
    [] n = 3 -> Further(Further(Further({u})))
    [] OTHER -> Further(Further(Further(Further({u}))))

(* ResolvePlayable, resolvers.go 174-240: a call is handed what a chase of at most
   four pages from its own embed came to, never the page of a known embed nor a
   tracker, though calls that are at other pages of one chase share the cache
   with it. *)
AnswersAreBehind ==
  /\ \A t \in Playing : answer[t] \in Urls =>
       answer[t] \in Within(MaxDepth, embed[t]) /\ LooksLikePlayableURL(answer[t])
  /\ \A u \in Urls : cached[u] \in Urls =>
       cached[u] \in Within(MaxDepth, u) /\ LooksLikePlayableURL(cached[u])
=============================================================================
