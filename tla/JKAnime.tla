------------------------------- MODULE JKAnime -------------------------------
(* extensions/jkanime/extension.go: the number of episodes, from hints that
   contradict each other; the streams of an episode, from embeds that are tried
   until two are found; and its download links, with a sort of their own. *)
EXTENDS Naturals, Sequences, Functions

CONSTANTS Hints,     \* of shows: [total, marker, last, links, cut]; 0 is none
          Lists,     \* what pagination_episodes shows: sequences of highest numbers
          MaxPages,  \* 20
          Items, Url, \* embeds and downloads, and the address of each
          Embeds,    \* pages of episodes: [inline, first, second], sequences of items
          Priority,  \* jkAnimeServerPriority
          Streams,   \* what may be behind embeds
          Downloads, \* pages of episodes: [servers, hrefs], sequences of items
          HostRank,  \* sortDownloadLinks: the priority of a host
          Mediafire  \* the items of that host

JKAnimeAssumption ==
  /\ \A h \in Hints : h.total \in Nat /\ h.marker \in Nat /\ h.last \in Nat /\ h.links \in Nat
                     /\ h.cut \in BOOLEAN
  /\ Lists \subseteq Seq(Nat) /\ MaxPages \in Nat
  /\ Priority \in [Items -> Nat] /\ HostRank \in [Items -> Nat]
  /\ \A p \in Embeds : {p.inline, p.first, p.second} \subseteq Seq(Items)
  /\ \A p \in Downloads : {p.servers, p.hrefs} \subseteq Seq(Items)

VARIABLES
  call, pc,   \* "episodes", "streams" or "links", "hrefs" when the page lists no
              \* servers; where the call is
  show, list, most, \* the page of the show, its list, the highest number seen there
  count,      \* the number of episodes that are listed
  from, found, \* the items on a page, and those of them that are kept
  at,         \* the page of the list, or the item, the call is at
  low, high,  \* the two items that the sort compares
  got, tried  \* the streams found, [stream, item]; history: the embeds tried

vars == <<call, pc, show, list, most, count, from, found, at, low, high, got, tried>>
episodeVars == <<show, list, most, count>>
itemVars    == <<from, found, low, high, got, tried>>

Init ==
  /\ call \in {"episodes", "streams", "links"} /\ pc = "start"
  /\ show \in Hints /\ list \in Lists /\ most = 0 /\ count = 0
  /\ from = <<>> /\ found = <<>> /\ at = 1 /\ low = 1 /\ high = 2
  /\ got = <<>> /\ tried = {}

----------------------------------------------------------------------------
(* GetEpisodes.                                                             *)

\* getEpisodesFromPageHTML: the last number after a mark, or the highest link.
FromPageHTML == IF show.last > 0 THEN show.last ELSE show.links

\* Mutant: a number is taken for right though more are announced than planned.
AnyNumber(n) == n > 0

NoMoreThanPlanned(n) == n > 0 /\ (show.total > 0 => n <= show.total)

\* It takes 300 bytes behind a mark; where the page ends before, that is a panic.
Panic ==
  /\ show.cut
  /\ \/ call = "episodes" /\ pc = "start" /\ show.total = 0 /\ show.marker = 0
     \/ pc = "pages" /\ show.total > 0 /\ ~NoMoreThanPlanned(most)
  /\ pc' = "panicked"
  /\ UNCHANGED <<call, show, list, most, count, at, itemVars>>

Found(n) == pc' = "done" /\ count' = n

\* getEpisodesFromLatestMarker; and the page itself when no total is shown.
ReadShow ==
  /\ call = "episodes" /\ pc = "start"
  /\ \/ pc' = "failed" /\ UNCHANGED count
     \/ NoMoreThanPlanned(show.marker) /\ Found(show.marker)
     \/ show.total = 0 /\ show.marker = 0 /\ FromPageHTML > 0 /\ ~show.cut /\ Found(FromPageHTML)
     \/ /\ ~NoMoreThanPlanned(show.marker) /\ (show.total = 0 => FromPageHTML = 0 /\ ~show.cut)
        /\ pc' = "pages" /\ UNCHANGED count
  /\ UNCHANGED <<call, show, list, most, at, itemVars>>

\* getEpisodesFromPagination: a page with numbers.
ReadList ==
  /\ pc = "pages" /\ at <= MaxPages /\ at <= Len(list)
  /\ most' = IF list[at] > most THEN list[at] ELSE most
  /\ at' = at + 1
  /\ UNCHANGED <<call, pc, show, list, count, itemVars>>

\* A page that fails or shows none ends the list; it is what was seen so far.
EndList ==
  /\ pc = "pages"
  /\ \/ NoMoreThanPlanned(most) /\ Found(most)
     \/ show.total = 0 /\ most = 0 /\ pc' = "failed" /\ UNCHANGED count
     \/ /\ show.total > 0 /\ ~NoMoreThanPlanned(most) /\ ~show.cut
        /\ Found(IF FromPageHTML \in 1 .. show.total THEN FromPageHTML ELSE show.total)
  /\ UNCHANGED <<call, show, list, most, at, itemVars>>

----------------------------------------------------------------------------
(* The items of a page, each address once.                                  *)

UrlsOf(s) == {Url[s[k]] : k \in DOMAIN s}

\* The orders of s by rank, a rank for each position, that keep ties as they are.
StablySorted(s, rank) ==
  {[k \in DOMAIN s |-> s[q[k]]] :
     q \in {q \in Bijection(DOMAIN s, DOMAIN s) : \A k, l \in DOMAIN s :
              k < l => rank[q[k]] < rank[q[l]] \/ (rank[q[k]] = rank[q[l]] /\ q[k] < q[l])}}

\* GetEmbedURLs: the embeds on the page, or those of the first address that
\* lists any; what it asks of the page after them is part of the first.
FindEmbeds ==
  /\ call = "streams" /\ pc = "start"
  /\ \/ pc' = "failed" /\ UNCHANGED from
     \/ \E p \in Embeds :
          /\ from' \in IF p.inline # <<>> THEN {p.inline} ELSE {p.first, p.second} \ {<<>>}
          /\ pc' = "collect"
  /\ UNCHANGED <<call, episodeVars, found, at, low, high, got, tried>>

\* GetDownloadLinks: the servers of the page, or its links.
FindLinks ==
  /\ call = "links" /\ pc = "start"
  /\ \/ pc' = "failed" /\ UNCHANGED <<call, from>>
     \/ \E p \in Downloads :
          /\ from' = IF p.servers # <<>> THEN p.servers ELSE p.hrefs
          /\ call' = IF p.servers # <<>> THEN "links" ELSE "hrefs"
          /\ pc' = "collect"
  /\ UNCHANGED <<episodeVars, found, at, low, high, got, tried>>

Collect ==
  /\ pc = "collect" /\ at <= Len(from)
  /\ found' = IF Url[from[at]] \in UrlsOf(found) THEN found ELSE Append(found, from[at])
  /\ at' = at + 1
  /\ UNCHANGED <<call, pc, episodeVars, from, low, high, got, tried>>

----------------------------------------------------------------------------
(* GetStreamSources.                                                        *)

SortEmbeds ==
  /\ call = "streams" /\ pc = "collect" /\ at > Len(from)
  /\ found' \in StablySorted(found, [k \in DOMAIN found |-> Priority[found[k]]])
  /\ pc' = "resolve" /\ at' = 1
  /\ UNCHANGED <<call, episodeVars, from, low, high, got, tried>>

\* An embed gives nothing, a stream that was found before, or a new one.
TryEmbed ==
  /\ pc = "resolve" /\ at <= Len(found)
  /\ \/ UNCHANGED <<got, pc>>
     \/ \E s \in Streams \ {got[k].stream : k \in DOMAIN got} :
          /\ got' = Append(got, [stream |-> s, item |-> found[at]])
          /\ pc' = IF Len(got') = 2 THEN "done" ELSE pc
  /\ tried' = tried \cup {found[at]} /\ at' = at + 1
  /\ UNCHANGED <<call, episodeVars, from, found, low, high>>

EndEmbeds ==
  /\ pc = "resolve" /\ at > Len(found)
  /\ pc' = IF got = <<>> THEN "failed" ELSE "done"
  /\ UNCHANGED <<call, episodeVars, at, itemVars>>

----------------------------------------------------------------------------
(* GetDownloadLinks.                                                        *)

\* Mediafire first, then the others.
SortHrefs ==
  /\ call = "hrefs" /\ pc = "collect" /\ at > Len(from)
  /\ found' \in StablySorted(found, [k \in DOMAIN found |-> IF found[k] \in Mediafire THEN 0 ELSE 1])
  /\ pc' = "done"
  /\ UNCHANGED <<call, episodeVars, from, at, low, high, got, tried>>

SortServers ==
  /\ call = "links" /\ pc = "collect" /\ at > Len(from) /\ pc' = "sort"
  /\ UNCHANGED <<call, episodeVars, at, itemVars>>

\* sortDownloadLinks: two links are exchanged when the later one ranks lower.
Exchange ==
  /\ pc = "sort" /\ high <= Len(found)
  /\ found' = IF HostRank[found[high]] < HostRank[found[low]]
              THEN [found EXCEPT ![low] = found[high], ![high] = found[low]]
              ELSE found
  /\ high' = high + 1
  /\ UNCHANGED <<call, pc, episodeVars, from, at, low, got, tried>>

NextLow ==
  /\ pc = "sort" /\ high > Len(found)
  /\ \/ low < Len(found) /\ low' = low + 1 /\ high' = low + 2 /\ UNCHANGED pc
     \/ low >= Len(found) /\ pc' = "done" /\ UNCHANGED <<low, high>>
  /\ UNCHANGED <<call, episodeVars, from, found, at, got, tried>>

----------------------------------------------------------------------------
Next ==
  \/ ReadShow \/ ReadList \/ EndList \/ Panic
  \/ FindEmbeds \/ FindLinks \/ Collect
  \/ SortEmbeds \/ TryEmbed \/ EndEmbeds
  \/ SortHrefs \/ SortServers \/ Exchange \/ NextLow

Spec == Init /\ [][Next]_vars

----------------------------------------------------------------------------
(* extension.go 682-698: the episodes that are planned are listed only when
   nothing that was read, the mark, the list or the page, gives a lower number
   that can be right; and never more than are planned. *)
PlannedIsLastResort ==
  call = "episodes" /\ pc = "done" /\ show.total > 0 =>
    /\ count \in 1 .. show.total
    /\ count = show.total =>
         /\ show.marker \notin 1 .. show.total - 1
         /\ most \notin 1 .. show.total - 1
         /\ show.total \notin {show.marker, most} => FromPageHTML \notin 1 .. show.total - 1

(* extension.go 974-1005: a call fails only when each embed was tried; and what it
   answers with came of embeds that no untried one goes before. *)
NothingIsLeftUntried ==
  call = "streams" =>
    /\ pc = "failed" => \A k \in DOMAIN found : found[k] \in tried
    /\ pc = "done" =>
         /\ got # <<>>
         /\ \A k \in DOMAIN found : found[k] \notin tried =>
              \A l \in DOMAIN got : Priority[got[l].item] <= Priority[found[k]]

(* extension.go 1480-1514, 1570-1601, 1457-1470: no link is lost, none comes
   twice, and they come in the order of their hosts. *)
LinksAreRanked ==
  call \in {"links", "hrefs"} /\ pc = "done" =>
    /\ UrlsOf(found) = UrlsOf(from)
    /\ \A k, l \in DOMAIN found : k < l =>
         /\ Url[found[k]] # Url[found[l]]
         /\ call = "links" => HostRank[found[k]] <= HostRank[found[l]]
         /\ call = "hrefs" /\ found[l] \in Mediafire => found[k] \in Mediafire
=============================================================================
