--------------------------- MODULE MetadataReads ---------------------------
(***************************************************************************)
(* What a reader of backend/metadata makes of its requests: a search, the  *)
(* home of anime, an entry with what Jikan adds to it, a page of the       *)
(* catalog for several genres, the entry of a folder.  A request is        *)
(* MetadataGateway's: here it is answered or lost, and the gateway may be   *)
(* degraded, or recover, whenever it likes.                                *)
(***************************************************************************)
EXTENDS Integers, Sequences, FiniteSets

CONSTANTS
  Names,      \* genres; queries for a folder
  Wishes,     \* what may be asked for: sequences of names
  Items,      \* what AniList lists
  Anonymous,  \* those without an id
  Rank,       \* Rank[x]: its place in the order that is asked for
  PerPage,
  Pages,      \* what AniList may answer for a name
  Grade,      \* Grade[x]: how well it fits the folder
  OfSeason,   \* those of the season that the folder names
  Shelves,    \* genres that the home has a shelf of
  Quarters,   \* seasons that the home is asked for; a year of 0 is not said
  ThisYear,
  Fields,     \* of an entry, its characters apart
  AnimeFills, MangaFills, \* those that Jikan may fill in
  People, Casts, CastLimit,
  None

\* The shelves that are there whatever the genres.
Order     == <<"featured", "newlyTrending", "upcoming", "topRated", "lastSeason">>
Fixed     == {Order[i] : i \in DOMAIN Order}
Requested == Fixed \cup Shelves
Sections  == Requested \cup {"seasonalPopular"}

MetadataReadsAssumption ==
  /\ Wishes \subseteq Seq(Names)
  /\ Anonymous \subseteq Items
  /\ Rank \in [Items -> Nat] /\ \A x, y \in Items : Rank[x] = Rank[y] => x = y
  /\ PerPage \in Nat \ {0}
  /\ Pages \subseteq [media : Seq(Items), more : BOOLEAN]
  /\ Grade \in [Items -> Int] /\ None \notin Items
  /\ Quarters \subseteq [season : 0 .. 3, year : Nat] /\ ThisYear \in Nat \ {0}
  /\ Casts \subseteq Seq([who : People, main : BOOLEAN]) /\ CastLimit \in Nat
  /\ None \notin {"anilist", "jikan"} /\ None \notin [says : SUBSET Fields, cast : Casts]

VARIABLES
  degraded, \* shouldUseJikanFallback
  reader, wish, when,
  pc,
  left,     \* the places in the wish that are still to be asked for
  found,    \* what AniList listed, request after request
  more,     \* whether one of them has a next page
  fetched,  \* the shelves that Jikan has answered
  base,     \* what AniList says of the entry, or None
  extra,    \* what Jikan says of it
  answer,
  lost,     \* history: why a request was of no use
  replies     \* history: what AniList answered for each place

vars == <<degraded, reader, wish, when, pc, left, found, more, fetched, base, extra, answer,
          lost, replies>>

Readers == {"search", "home", "anime", "manga", "enrichment", "mal", "recommendations",
            "anime page", "manga page", "match"}

\* splitCatalogGenres: a name counts where it is said first; without any, there is
\* one request all the same.
First(s)  == {i \in DOMAIN s : \A j \in DOMAIN s : s[j] = s[i] => i <= j}
Requests  == IF wish = <<>> /\ reader # "match" THEN {0} ELSE First(wish)
Unsaid    == [says |-> {}, cast |-> <<>>]

Init ==
  /\ degraded \in BOOLEAN
  /\ reader \in Readers /\ wish \in Wishes /\ when \in Quarters
  /\ pc = CASE reader = "mal" -> "full" [] reader = "recommendations" -> "recommendations"
            [] OTHER -> "begin"
  /\ left = Requests /\ found = <<>> /\ more = FALSE /\ fetched = {}
  /\ base = None /\ extra = Unsaid /\ answer = None /\ lost = {} /\ replies = <<>>

given     == <<degraded, reader, wish, when>>
collected == <<left, found, more, replies>>
entries   == <<base, extra>>

Goto(p)   == pc' = p /\ UNCHANGED <<answer, lost>>
Return(a) == pc' = "done" /\ answer' = a /\ UNCHANGED lost

\* That a request was lost, and the mode of the gateway when it was.
Noted(why) == lost \cup {why} \cup (IF degraded THEN {"degraded"} ELSE {})
Lose(why)  == pc' = "failed" /\ lost' = Noted(why) /\ UNCHANGED answer

\* The gateway is degraded, or has recovered.
Turn ==
  /\ degraded' = ~degraded
  /\ UNCHANGED <<reader, wish, when, pc, collected, fetched, entries, answer, lost>>

----------------------------------------------------------------------------
(* A search and the home: Jikan is asked instead of a degraded AniList, also
   when that is only found out by asking; not for an answer that is unreadable. *)
Ask == Goto(IF degraded THEN "jikan" ELSE "anilist")

\* Mutant: AniList's failure is the caller's.
RefusedForGood == Lose("anilist")

Refused ==
  IF degraded THEN pc' = "jikan" /\ lost' = Noted("anilist") /\ UNCHANGED answer
  ELSE Lose("anilist")

SearchAniList ==
  /\ reader = "search"
  /\ \/ pc = "begin" /\ Ask
     \/ pc = "anilist" /\ (Return("anilist") \/ Refused \/ Lose("unreadable"))
  /\ UNCHANGED <<given, collected, fetched, entries>>

SearchAnimeViaJikan ==
  /\ reader = "search" /\ pc = "jikan"
  /\ Return("jikan") \/ Lose("jikan")
  /\ UNCHANGED <<given, collected, fetched, entries>>

\* shiftAniListSeason
Shift(q, n) == [season |-> (q.season + n) % 4, year |-> q.year + ((q.season + n) \div 4)]

Shelf(service, s, q) ==
  [from |-> service,
   quarter |-> CASE s \in {"newlyTrending", "seasonalPopular"} -> q
                 [] s = "upcoming" /\ service = "anilist" -> Shift(q, 1)
                 [] s = "lastSeason" -> Shift(q, -1)
                 [] OTHER -> None]

GetAniListAnimeCatalogHome ==
  /\ reader = "home"
  /\ \/ pc = "begin" /\ Ask
     \/ /\ pc = "anilist"
        /\ \/ Return([s \in Sections |-> Shelf("anilist", s, when)])
           \/ Refused
           \/ Lose("unreadable")
  /\ UNCHANGED <<given, collected, fetched, entries>>

\* normalizeJikanHomeSeason
Normalized(q) == IF q.year > 0 THEN q ELSE [q EXCEPT !.year = ThisYear]

\* fetchJikanHomeShelf, fetchJikanGenreShelf: the genres come last, in any order.
FetchShelf(s) ==
  /\ s \in Requested \ fetched /\ (s \in Shelves => Fixed \subseteq fetched)
  /\ \A i, j \in DOMAIN Order : s = Order[j] /\ i < j => Order[i] \in fetched
  /\ \/ fetched' = fetched \cup {s} /\ Goto("jikan")
     \/ Lose("jikan") /\ UNCHANGED fetched

GetAnimeCatalogHomeViaJikan ==
  /\ reader = "home" /\ pc = "jikan"
  /\ \/ \E s \in Requested : FetchShelf(s)
     \/ /\ fetched = Requested /\ UNCHANGED fetched
        /\ Return([s \in Sections |-> Shelf("jikan", s, Normalized(when))])
  /\ UNCHANGED <<given, collected, entries>>

----------------------------------------------------------------------------
(* An entry                                                                  *)

\* limitAnimeCharacters: each once, the main ones first.
Firsts(cast) == {p \in DOMAIN cast : \A q \in DOMAIN cast : cast[q].who = cast[p].who => p <= q}
Sooner(cast, p, q) ==
  \/ cast[p].main /\ ~cast[q].main
  \/ cast[p].main = cast[q].main /\ p < q
Limited(cast) ==
  {p \in Firsts(cast) : Cardinality({q \in Firsts(cast) : Sooner(cast, q, p)}) < CastLimit}
Shown(cast) == {cast[p] : p \in Limited(cast)}

Entry(e, service) ==
  [says |-> [f \in Fields |-> IF f \in e.says THEN service ELSE None], cast |-> Shown(e.cast)]

\* What AniList leaves blank, and the characters, if Jikan knows any.
Merged(e, j, fills) ==
  [says |-> [f \in Fields |-> IF f \in e.says THEN "anilist"
                              ELSE IF f \in j.says \cap fills THEN "jikan" ELSE None],
   cast |-> IF Shown(j.cast) # {} THEN Shown(j.cast) ELSE Shown(e.cast)]
applyJikanAnimeEnrichment(e, j) == Merged(e, j, AnimeFills)
applyJikanMangaEnrichment(e, j) == Merged(e, j, MangaFills)

\* An entry with an id of MyAnimeList is looked up there as well.
Read ==
  \E e \in [says : SUBSET Fields, cast : Casts] :
    /\ base' = e /\ UNCHANGED extra
    /\ Goto("full") \/ Return(Entry(e, "anilist"))

GetAnimeByID ==
  /\ reader = "anime" /\ pc = "begin"
  /\ \/ Read
     \/ Lose("anilist") /\ UNCHANGED entries
  /\ UNCHANGED <<given, collected, fetched>>

\* That there is no such manga is an answer, too.
GetAniListMangaByID ==
  /\ reader = "manga" /\ pc = "begin"
  /\ \/ Read
     \/ (Lose("anilist") \/ Lose("missing")) /\ UNCHANGED entries
  /\ UNCHANGED <<given, collected, fetched>>

GetAnimeEnrichmentByID ==
  /\ reader = "enrichment" /\ pc = "begin"
  /\ \/ \E says \in SUBSET Fields : Return(Entry([says |-> says, cast |-> <<>>], "anilist"))
     \/ Lose("anilist")
  /\ UNCHANGED <<given, collected, fetched, entries>>

\* Who asked for the entry of AniList gets it as it is.
WithoutJikan ==
  /\ IF base = None THEN Lose("jikan")
     ELSE pc' = "done" /\ answer' = Entry(base, "anilist") /\ lost' = Noted("jikan")
  /\ UNCHANGED extra

Detail ==
  \/ \E says \in SUBSET Fields : extra' = [extra EXCEPT !.says = says] /\ Goto("characters")
  \/ WithoutJikan

GetAnimeDetailViaJikan ==
  /\ reader \in {"anime", "mal"} /\ pc = "full" /\ Detail
  /\ UNCHANGED <<given, collected, fetched, base>>

GetMangaDetailViaJikan ==
  /\ reader = "manga" /\ pc = "full" /\ Detail
  /\ UNCHANGED <<given, collected, fetched, base>>

GetAnimeCharactersViaJikan ==
  /\ reader \in {"anime", "mal"} /\ pc = "characters"
  /\ \/ \E cast \in Casts : extra' = [extra EXCEPT !.cast = cast] /\ Goto("recommendations")
     \/ WithoutJikan
  /\ UNCHANGED <<given, collected, fetched, base>>

GetMangaCharactersViaJikan ==
  /\ reader = "manga" /\ pc = "characters"
  /\ \/ \E cast \in Casts :
          /\ extra' = [extra EXCEPT !.cast = cast]
          /\ Return(applyJikanMangaEnrichment(base, extra'))
     \/ WithoutJikan
  /\ UNCHANGED <<given, collected, fetched, base>>

\* Of an entry that is asked for at Jikan, they are part; of one of AniList they are
\* not used, but they may fail.
GetAnimeRecommendationsViaJikan ==
  /\ pc = "recommendations"
  /\ \/ /\ UNCHANGED extra
        /\ CASE reader = "anime" -> Return(applyJikanAnimeEnrichment(base, extra))
             [] reader = "mal"   -> Return(Entry(extra, "jikan"))
             [] OTHER -> Return("jikan")
     \/ WithoutJikan
  /\ UNCHANGED <<given, collected, fetched, base>>

----------------------------------------------------------------------------
(* A page of the catalog, and the entry of a folder: one request for each name. *)

\* sortAnimeCatalogItems, paginateAnimeCatalogUnion
Listed(s)  == {s[i] : i \in DOMAIN s}
Union(s)   == Listed(s) \ Anonymous
Ahead(s, x) == {y \in Union(s) : Rank[y] < Rank[x]}
BestOf(s)  == {x \in Union(s) : Cardinality(Ahead(s, x)) < PerPage}
Page(s, m) == [shown |-> BestOf(s), next |-> m \/ BestOf(s) # Union(s)]

Collect(i, p) ==
  /\ i \in left /\ \A j \in left : i <= j
  /\ left' = left \ {i} /\ found' = found \o p.media /\ more' = (more \/ p.more)
  /\ replies' = [j \in DOMAIN replies \cup {i} |-> IF j = i THEN p ELSE replies[j]]

\* The answer for one name is passed on as it is.
Discover(r) ==
  /\ reader = r /\ pc = "begin"
  /\ \/ \E i \in left, p \in Pages :
          /\ Collect(i, p)
          /\ CASE left' # {} -> Goto("begin")
               [] Requests = {i} -> Return([shown |-> Listed(p.media), next |-> p.more])
               [] OTHER -> Return(Page(found', more'))
     \/ Lose("anilist") /\ UNCHANGED collected
  /\ UNCHANGED <<given, fetched, entries>>
DiscoverAnime == Discover("anime page")
DiscoverManga == Discover("manga page")

Fits(x) == Grade[x] >= (IF x \in OfSeason THEN 40 ELSE 55)
IsBest(s, i) ==
  \A j \in DOMAIN s : /\ Grade[s[j]] <= Grade[s[i]]
                      /\ j < i => Grade[s[j]] < Grade[s[i]]
Chosen(s) == {s[i] : i \in {j \in DOMAIN s : IsBest(s, j) /\ Fits(s[j])}}
Choose(s) ==
  \/ \E x \in Chosen(s) : Return(x)
  \/ Chosen(s) = {} /\ Return(None)

\* Of a name of which nothing is left there is nothing to ask.
MatchAnime ==
  /\ reader = "match" /\ pc = "begin"
  /\ \/ \E i \in left, p \in Pages :
          /\ Collect(i, p)
          /\ IF left' # {} THEN Goto("begin") ELSE Choose(found')
     \/ left = {} /\ Return(None) /\ UNCHANGED collected
     \/ left # {} /\ Lose("anilist") /\ UNCHANGED collected
  /\ UNCHANGED <<given, fetched, entries>>

Next ==
  \/ Turn
  \/ SearchAniList \/ SearchAnimeViaJikan
  \/ GetAniListAnimeCatalogHome \/ GetAnimeCatalogHomeViaJikan
  \/ GetAnimeByID \/ GetAniListMangaByID \/ GetAnimeEnrichmentByID
  \/ GetAnimeDetailViaJikan \/ GetMangaDetailViaJikan
  \/ GetAnimeCharactersViaJikan \/ GetMangaCharactersViaJikan
  \/ GetAnimeRecommendationsViaJikan
  \/ DiscoverAnime \/ DiscoverManga \/ MatchAnime

Spec == Init /\ [][Next]_vars

----------------------------------------------------------------------------
(* manager.go 378-534, 681-895, 1023-1064, jikan.go 835-893: a search or the home
   fails only if Jikan was asked and failed, too, or AniList failed while the gateway
   was not degraded, or gave an answer that cannot be read, which is not asked for
   elsewhere; an entry that AniList knows is shown whatever Jikan does; a home is
   shown when all of its shelves were answered, and a page or a match when every
   name was. *)
NothingIsLeftUntried ==
  /\ pc = "failed" =>
       /\ reader \in {"search", "home"} =>
            \/ lost \cap {"jikan", "unreadable"} # {}
            \/ "anilist" \in lost /\ "degraded" \notin lost
       /\ reader \in {"anime", "manga"} => base = None
  /\ pc = "done" =>
       /\ reader = "home" /\ answer["featured"].from = "jikan" => fetched = Requested
       /\ reader \in {"anime page", "manga page", "match"} => DOMAIN replies = Requests

(* manager.go 897-915, jikan.go 609-697: the last season of a home is the one before the
   season it shows; AniList's word stands, and what Jikan knows is not missing unless
   Jikan failed; no other character is shown before a main one. *)
HomeIsWhole ==
  reader = "home" /\ pc = "done" =>
    LET Place(s) == 4 * answer[s].quarter.year + answer[s].quarter.season
    IN  /\ Place("lastSeason") = Place("newlyTrending") - 1
        /\ Place("seasonalPopular") = Place("newlyTrending")
EntryIsKept ==
  reader \in {"anime", "manga"} /\ pc = "done" =>
    /\ \A f \in base.says : answer.says[f] = "anilist"
    /\ \A f \in Fields \ base.says :
         answer.says[f] = "jikan" <=>
           /\ "jikan" \notin lost
           /\ f \in extra.says \cap (IF reader = "anime" THEN AnimeFills ELSE MangaFills)
    /\ LET cast == IF "jikan" \in lost \/ Shown(extra.cast) = {} THEN base.cast ELSE extra.cast
       IN  /\ answer.cast = Shown(cast)
           /\ \A p \in Firsts(cast) \ Limited(cast) :
                cast[p].main => \A q \in Limited(cast) : cast[q].main

(* catalog_requests.go 150-284, manager.go 258-327: a page for several genres shows
   the first of what was listed for any of them, and is the last only if it shows all
   of it and none of them has a next; a folder's entry is one of the best, and there
   is none only if no name has led to one graded 55: one of the folder's season that
   fits with less goes with a better one that does not (manager.go 297-302). *)
Offered == UNION {Listed(replies[i].media) : i \in DOMAIN replies}
PageIsBest ==
  reader \in {"anime page", "manga page"} /\ pc = "done" /\ Cardinality(Requests) > 1 =>
    LET all == Offered \ Anonymous
    IN  /\ answer.shown \subseteq all /\ Cardinality(answer.shown) <= PerPage
        /\ \A x \in answer.shown, y \in all \ answer.shown : Rank[x] < Rank[y]
        /\ ~answer.next => answer.shown = all /\ \A i \in Requests : ~replies[i].more
MatchIsBest ==
  reader = "match" /\ pc = "done" =>
    IF answer = None THEN \A x \in Offered : Grade[x] < 55
    ELSE /\ answer \in Offered /\ Fits(answer)
         /\ \A x \in Offered : Grade[x] <= Grade[answer]
ReadsAreRight == HomeIsWhole /\ EntryIsKept /\ PageIsBest /\ MatchIsBest
=============================================================================
