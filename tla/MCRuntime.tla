----------------------------- MODULE MCRuntime -----------------------------
(* What the application keeps while it runs, each in a part of its own: the *)
(* local library, a key of the cache, the identities of manga, and the      *)
(* streams of episodes, with the sources they come from.  The part a        *)
(* behaviour is about is chosen at the start; of the library, also the      *)
(* calls that are made.                                                     *)
EXTENDS Library, Runtime, Streams, Naturals, Sequences, TLC

CONSTANTS scan, again, import, repair, list, page, mangas, \* calls
          s1, hA, hB, lib, A, OVA, M, \* a show, titles, folders
          c1, c2, r1, m1, k1, a1, t1, t2, gg, pahe
CONSTANTS p1, p2, ok, za, dd, mg, jk, \* pages
          ta, tb, j1, v1, v2,         \* trackers, junk, streams
          d1, d2, d3,                 \* calls
          e1, e2, e3, e4, w1, f1, f2, n1, n2, n3, \* embeds, pages, calls, servers
          b1, b2,                     \* two downloads
          i1, i2, i3, i4, x1, x2      \* manga of a source, entries

----------------------------------------------------------------------------
(* The library: two videos whose names say the same number, the second in a *)
(* folder that says nothing, and a chapter.                                 *)

MCTasks   == {scan, again, import, repair, list, page, mangas}
MCKind    == scan :> "scan" @@ again :> "scan" @@ import :> "import" @@ repair :> "repair"
             @@ list :> "animes" @@ page :> "detail" @@ mangas :> "mangas"
MCFilesOf == [t \in MCTasks |-> CASE t = scan   -> <<1, 2>>
                                  [] t = again  -> <<1, 2, 9>>
                                  [] t = import -> <<2>>
                                  [] OTHER      -> <<>>]
MCDir     == 1 :> <<lib, A>> @@ 2 :> <<lib, A, OVA>> @@ 9 :> <<lib, M>>
\* What the files share is the show's folder, or each has its own.
MCRoot    == [t \in MCTasks |-> IF t = scan THEN [MCDir EXCEPT ![2] = <<lib, A>>] ELSE MCDir]
MCVideos  == {1, 2}
MCParsed  == 1 :> 1 @@ 2 :> 1
MCHints   == 1 :> <<hA>> @@ 2 :> <<hB, hA>> @@ 9 :> <<hA>>
MCMatch   == hA :> s1 @@ hB :> None
MCNames   == s1 :> {hA}
MCWeak    == {OVA}
Plans     == {{repair, scan, import}, {scan, again}, {repair, scan, list},
              {repair, scan, page}, {repair, again, mangas}}

----------------------------------------------------------------------------
(* Streams: of every audio, of two qualities, one that no player opens.     *)

Stream(url, audio, quality, hls, direct) ==
  [url |-> url, audio |-> audio, quality |-> quality, hls |-> hls, direct |-> direct]
SubHigh  == Stream(1, "sub", 1080, FALSE, TRUE)
SubLow   == Stream(2, "sub", 720, TRUE, TRUE)
Dub      == Stream(3, "dub", 1080, TRUE, TRUE)
Unnamed  == Stream(4, "", 720, FALSE, TRUE)
Embed    == Stream(5, "sub", 1080, TRUE, FALSE)
MCOffers == {<<Embed>>, <<SubLow, SubHigh, Dub>>, <<Unnamed, Dub, SubLow>>,
             <<Dub, Embed, SubHigh, SubHigh>>, <<Unnamed>>}
MCWishes == {[audio |-> "sub", quality |-> 1080], [audio |-> "dub", quality |-> 720],
             [audio |-> "", quality |-> 0]}

----------------------------------------------------------------------------
(* Resolvers: pages that lead to each other, with a tracker on the way.     *)
MCUrls  == {p1, p2, ok, za, dd, mg, jk, ta, tb, j1, v1, v2}
MCWraps == ta :> p1 @@ tb :> Absent
MCHost  == [u \in MCUrls |->
              CASE u = p2 -> "streamtape" [] u = ok -> "okru" [] u = za -> "zilla"
                [] u = dd -> "dood" [] u = mg -> "megaup" [] u = jk -> "jkplayer"
                [] OTHER -> "page"]
MCShows == [u \in MCUrls |->
              CASE u = p1 -> <<Absent, p2, v2>> [] u = p2 -> <<Absent, ta>>
                [] u = za -> <<dd>> [] u = dd -> <<mg>> [] u = jk -> <<p1>> [] OTHER -> <<>>]
MCPageVideos == [u \in MCUrls |->
                   IF u = ok THEN <<[size |-> 2, url |-> v1], [size |-> 1, url |-> j1]>> ELSE <<>>]
MCLoads == [u \in MCUrls |->
              CASE u = p2 -> {p1, v1, tb} [] u = p1 -> {tb, ok} [] u = mg -> {jk, v2} [] OTHER -> {}]

MCRank       == e1 :> 1 @@ e2 :> 2 @@ e3 :> 2 @@ e4 :> 3
MCFlvShows   == f1 :> <<e3, e1, e4>> @@ f2 :> <<e4, e2>>
On(u, track) == [url |-> u, track |-> track]
MCAvEpisodes == {<<On(e1, "SUB"), On(e2, "SUB"), On(e3, "DUB"), On(e4, "DUB")>>,
                 <<On(e1, "SUB"), On(e1, "DUB"), On(e3, "DUB")>>,
                 <<On(e4, "SUB"), On(e2, "LAT"), On(e3, "DUB")>>,
                 <<On(e1, "ENG"), On(e2, "ENG")>>, <<On(n1, "SUB")>>}
MCKaiServers == {<<e1, e2, e3>>, <<e2>>}
MCPlays      == w1 :> {v1} @@ e1 :> {v1, v2} @@ e2 :> {v2} @@ e3 :> {}
MCNinPages   == {[servers |-> <<n1, n2>>, frames |-> <<e1, e2, e4>>],
                 [servers |-> <<n1>>, frames |-> <<>>],
                 [servers |-> <<n1, n2, n3>>, frames |-> <<e3>>]}

MCJkHints    == [total : {0, 3}, marker : {0, 2, 4}, last : {0, 3}, links : {0, 2},
                 cut : BOOLEAN]
MCJkLists    == {<<>>, <<1, 2>>, <<3, 4>>}
MCJkItems    == {e1, e2, b1, b2, e3}
MCJkUrl      == e1 :> "a" @@ e2 :> "a" @@ b1 :> "b" @@ b2 :> "c" @@ e3 :> "d"
MCJkEmbeds   == {[inline |-> <<b1, e1, e2, e3>>, first |-> <<>>, second |-> <<>>],
                 [inline |-> <<>>, first |-> <<e1>>, second |-> <<e3, b1>>]}
MCJkPriority == e1 :> 1 @@ e2 :> 0 @@ b1 :> 1 @@ b2 :> 1 @@ e3 :> 2
MCJkDownloads == {[servers |-> <<e3, b1, e1, b2, e2>>, hrefs |-> <<e1>>],
                  [servers |-> <<>>, hrefs |-> <<e3, b1, e1, b2, e2>>],
                  [servers |-> <<>>, hrefs |-> <<>>]}

Edition(e, audio) == [audio |-> audio, url |-> e]
MCGgPages    == {[embeds |-> {e1, e2}, variants |-> {}, direct |-> {}],
                 [embeds |-> {e1}, direct |-> {},
                  variants |-> {Edition(e1, "sub"), Edition(e2, "dub")}],
                 [embeds |-> {e1}, variants |-> {Edition(e1, "sub")}, direct |-> {v2}]}
MCGgListed   == e1 :> {[url |-> v1, quality |-> 480], [url |-> v2, quality |-> 0]}
                @@ e2 :> {[url |-> v1, quality |-> 0]}
MCGgInferred == v1 :> 0 @@ v2 :> 480

(* MangaMatch: the entry x1 goes by two names; i1 has the second, i2 begins like
   it, i3 is another one's, i4 writes it as one word.                        *)
Short == <<<<1, 2>>, <<3, 4>>>>
Long  == Short \o <<<<5, 6>>>>
Spin  == Short \o <<<<7, 7>>>>
Other == <<<<5, 6>>>>
Joined == <<<<1, 2, 3, 4>>>>
MCTitleForms == {Short, Long, Spin, Other, Joined}
MCExpand     == [x \in MCTitleForms |-> IF x = Long THEN <<Long, Short>> ELSE <<x>>]
MCItemTitle  == i1 :> Short @@ i2 :> Spin @@ i3 :> Other @@ i4 :> Joined
MCItemNames  == [i \in {i1, i2, i3, i4} |-> <<MCItemTitle[i]>>]
MCEntryNames == x1 :> <<Long>> @@ x2 :> <<Other>>
MCSameYear   == {<<i2, x1>>}
MCFinds      == [x \in MCTitleForms |->
                   CASE x = Short -> {<<>>, <<i1>>, <<i4>>}
                     [] x = Long  -> {<<>>, <<i3, i2>>}
                     [] OTHER     -> {}]
MCRow(e, n, now) == [entry |-> e, matched |-> MCEntryNames[e][1], confidence |-> n,
                     current |-> now]
NoRows       == [i \in {i1, i2, i3, i4} |-> Absent]
MCTables     == {[NoRows EXCEPT ![i1] = MCRow(x1, 80, TRUE),
                                ![i2] = MCRow(x1, 86, FALSE),
                                ![i3] = MCRow(x2, 86, TRUE)]}
MCDecorated  == {Spin}

(* MetadataReads: three entries and one without an id, lists that overlap.   *)
MCLabellings == {<<>>, <<n1>>, <<n2, n1, n2>>}
MCMediaRank  == i1 :> 1 @@ i2 :> 2 @@ i3 :> 3 @@ i4 :> 0
MCMediaPages == {[media |-> <<>>, more |-> FALSE], [media |-> <<i1, i2>>, more |-> FALSE],
                 [media |-> <<i3, i4, i2>>, more |-> TRUE], [media |-> <<i3>>, more |-> FALSE]}
MCMediaGrade == i1 :> 45 @@ i2 :> 57 @@ i3 :> 57 @@ i4 :> 40
MCQuarters   == [season : {0, 2, 3}, year : {0, 1}]
Part(k, main) == [who |-> k, main |-> main]
MCCasts      == {<<>>, <<Part(w1, FALSE), Part(f1, TRUE), Part(w1, TRUE), Part(f2, TRUE)>>,
                 <<Part(f2, FALSE), Part(w1, FALSE), Part(f1, FALSE)>>}

----------------------------------------------------------------------------
MCOf       == k1 :> m1
MCMaxOpens == c1 :> 3

chaseVars == <<embed, cached, chasePc, current, chased, chaseAnswer>>
flvVars   == <<preferred, flvPc, sorted, flvLow, flvHigh, later, outcome, flvNext, flvAnswer>>
avVars    == <<avPage, avPc, avTried, resolved, selected>>
kaiVars   == <<hasWatch, kaiPc, kaiServers, kaiAt, kaiLate, challenged, shown, captured,
               sources, kaiAnswer, kaiAsked, kaiTried>>
ninVars   == <<ninPage, ninPc, ninAt, ninLate, ninSeen, rendered, ninAsked, ninAnswer>>
jkVars    == <<jkCall, jkPc, jkShow, jkList, most, jkCount, jkFrom, jkFound, jkAt, jkLow,
               jkHigh, got, jkTried>>
ggVars    == <<ggTarget, ggPage, ggPc, ggLeft, ggSources, ggSession, ggTried, ggFound,
               ggAnswer>>
mmVars    == <<table, searches, matches, mmPc, mmEntry, mmAt, variant, failedVariant,
               hits, mmLeft, best, asks, heard, judged, accepted, silent, proofs>>
mrVars    == <<degraded, reader, mrWish, when, mrPc, mrLeft, listed, more, fetched, base,
               extra, mrAnswer, lost, replies>>
sourceVars == <<chaseVars, flvVars, avVars, kaiVars, ninVars, jkVars, ggVars, mmVars, mrVars>>

SourceParts == {"chase", "flv", "av1", "kai", "ninja", "jk", "gg", "match", "reads"}

\* A chase for each of the calls, and those of the parts that have none.
Chases == {d1 :> u @@ d2 :> p2 @@ d3 :> v : u \in {p1, p2, za}, v \in {dd, mg, jk, ok}}
NoChase == d1 :> p1 @@ d2 :> p1 @@ d3 :> p1
NoHints == [total |-> 0, marker |-> 0, last |-> 0, links |-> 0, cut |-> FALSE]

SourcesInit(part) ==
  /\ embed \in (IF part = "chase" THEN Chases ELSE {NoChase}) /\ RS!Init
  /\ FLV!Init /\ AV1!Init
  /\ hasWatch \in (IF part = "kai" THEN BOOLEAN ELSE {FALSE}) /\ Kai!Init
  /\ Nin!Init
  /\ jkCall \in (IF part = "jk" THEN {"episodes", "streams", "links"} ELSE {"links"})
  /\ jkShow \in (IF jkCall = "episodes" THEN MCJkHints ELSE {NoHints})
  /\ jkList \in (IF jkCall = "episodes" THEN MCJkLists ELSE {<<>>})
  /\ JK!Init
  /\ GG!Init /\ (part # "gg" => ggTarget = "any")
  /\ mmEntry = [c \in MatchCalls |-> x1] /\ MM!Init
  /\ degraded \in (IF part = "reads" THEN BOOLEAN ELSE {TRUE})
  /\ reader \in (IF part = "reads" THEN MR!Readers ELSE {"search"})
  /\ when \in (IF reader = "home" THEN MCQuarters ELSE {[season |-> 0, year |-> 0]})
  /\ mrWish \in (IF reader \in {"anime page", "manga page", "match"} THEN MCLabellings
                 ELSE {<<>>})
  /\ MR!Init

SourcesNext(part) ==
  \/ /\ part = "chase" /\ RS!Next
     /\ UNCHANGED <<flvVars, avVars, kaiVars, ninVars, jkVars, ggVars, mmVars, mrVars>>
  \/ /\ part = "flv" /\ FLV!Next
     /\ UNCHANGED <<chaseVars, avVars, kaiVars, ninVars, jkVars, ggVars, mmVars, mrVars>>
  \/ /\ part = "av1" /\ AV1!Next
     /\ UNCHANGED <<chaseVars, flvVars, kaiVars, ninVars, jkVars, ggVars, mmVars, mrVars>>
  \/ /\ part = "kai" /\ Kai!Next
     /\ UNCHANGED <<chaseVars, flvVars, avVars, ninVars, jkVars, ggVars, mmVars, mrVars>>
  \/ /\ part = "ninja" /\ Nin!Next
     /\ UNCHANGED <<chaseVars, flvVars, avVars, kaiVars, jkVars, ggVars, mmVars, mrVars>>
  \/ /\ part = "jk" /\ JK!Next
     /\ UNCHANGED <<chaseVars, flvVars, avVars, kaiVars, ninVars, ggVars, mmVars, mrVars>>
  \/ /\ part = "gg" /\ GG!Next
     /\ UNCHANGED <<chaseVars, flvVars, avVars, kaiVars, ninVars, jkVars, mmVars, mrVars>>
  \/ /\ part = "match" /\ MM!Next /\ mmEntry' = mmEntry
     \* One call is f1's, the next f2's, whose searches do not fail.  Of the caches,
     \* only the match is forgotten, and only before it is asked for.
     /\ asks' # asks => (asks' = 2 <=> mmPc'[f2] # "idle")
     /\ ~MM!Broken(f2) /\ (mmPc[f2] = "meta" => mmPc'[f2] \in {"meta", "look"})
     /\ \A q \in TitleForms : searches'[q] = Absent => searches[q] = Absent
     /\ asks = MaxAsks => \A e \in MatchEntries : matches'[e] = Absent => matches[e] = Absent
     /\ UNCHANGED <<chaseVars, flvVars, avVars, kaiVars, ninVars, jkVars, ggVars, mrVars>>
  \/ /\ part = "reads" /\ MR!Next
     /\ UNCHANGED <<chaseVars, flvVars, avVars, kaiVars, ninVars, jkVars, ggVars, mmVars>>

----------------------------------------------------------------------------
VARIABLES part, plan

ASSUME LibraryAssumption

keyVars   == <<kind, store, window, keyJob, answer, keyCalls, keyRestarts, kept>>
mangaVars == <<mapping, recent, memory, history, mangaJob, mangaCalls, blind>>
streamVars == <<hot, stale, stage, opened, source, way, wish, streams, fromStale,
                failed, played>>
mcvars    == <<part, plan, vars, keyVars, mangaVars, streamVars,
               sourceVars>>

MCInit ==
  /\ part \in {"library", "key", "manga", "streams"} \cup SourceParts
  /\ plan \in Plans
  /\ Init /\ SN!Init /\ MI!Init /\ OS!Init /\ SourcesInit(part)
  /\ part # "library" => plan = {repair, scan, import}
  /\ part # "key" => kind = "plain"
  /\ part # "manga" => mapping = [m \in {m1} |-> Nothing]

MCNext ==
  \/ /\ part = "library" /\ Next
     /\ \A t \in Tasks \ plan : job'[t].pc = "idle"
     \* After the process ended, an import is not made again.
     /\ restarts = 1 => job'[import].pc = "idle"
     /\ UNCHANGED <<part, plan, keyVars, mangaVars, streamVars, sourceVars>>
  \/ /\ part = "key" /\ SN!Next
     \* The process ends where there are two calls in all.
     /\ keyRestarts' = 0 \/ keyCalls' < MaxKeyCalls
     /\ UNCHANGED <<part, plan, vars, mangaVars, streamVars, sourceVars>>
  \/ /\ part = "manga" /\ MI!Next
     /\ UNCHANGED <<part, plan, vars, keyVars, streamVars, sourceVars>>
  \/ /\ part = "streams" /\ OS!Next
     /\ UNCHANGED <<part, plan, vars, keyVars, mangaVars, sourceVars>>
  \/ /\ SourcesNext(part)
     /\ UNCHANGED <<part, plan, vars, keyVars, mangaVars, streamVars>>

MCSpec == MCInit /\ [][MCNext]_mcvars

----------------------------------------------------------------------------
\* app_desktop_playback_test.go:122-129: "expected animepahe stale stream
\* fallback to be disabled".
NoStaleFallbackForPahe == \A c \in {c1} : source[c] = pahe => ~fromStale[c]
=============================================================================
