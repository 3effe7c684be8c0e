------------------------------- MODULE AnimeGG -------------------------------
(* GetStreamSources of extensions/animegg/extension.go: the embeds of the wanted
   edition are read for streams, or else resolved; a browser is asked when that
   is not good enough, and what it saw is merged in.  The order of the streams
   is data, and so is how long the browser watches. *)
EXTENDS Naturals, FiniteSets

CONSTANTS Pages,     \* [embeds, variants, direct]: sets of embeds, editions, streams
          Embeds, Media,
          Listed,    \* Listed[e]: the streams that the page of e lists, with labels
          Inferred,  \* animeGGInferQuality
          Qualities,
          Gated,     \* streams that only a session of the site may play
          Manifests, \* streams that are m3u8
          Absent

Audios   == {"sub", "dub"}
Editions == [audio : Audios, url : Embeds]
Entries  == [url : Media, audio : Audios \cup {"any"}, quality : Qualities,
             cookie : BOOLEAN, referer : BOOLEAN]

AnimeGGAssumption ==
  /\ Pages \subseteq [embeds : SUBSET Embeds, variants : SUBSET Editions, direct : SUBSET Media]
  /\ \A p \in Pages : \A x, y \in p.direct : x = y
  /\ Qualities \subseteq Nat /\ Inferred \in [Media -> Qualities]
  /\ Listed \in [Embeds -> SUBSET [url : Media, quality : Qualities]]
  /\ \A e \in Embeds : \A x, y \in Listed[e] : x.url = y.url => x = y
  /\ Absent \notin Pages

VARIABLES
  target,   \* the edition that is asked for, or "any"
  page, pc,
  left,     \* embeds or editions that are still to be tried
  sources, session, \* the streams in hand; those the browser has seen
  tried,    \* history: what has been tried
  found,    \* history: every stream that was found
  answer    \* the streams

vars == <<target, page, pc, left, sources, session, tried, found, answer>>

Init ==
  /\ target \in Audios \cup {"any"} /\ page = Absent /\ pc = "fetch"
  /\ left = {} /\ sources = {} /\ session = {} /\ tried = {} /\ found = {} /\ answer = {}

Goto(p)  == pc' = p /\ UNCHANGED answer
Note(ss) == found' = found \cup ss

\* animeGGOrderVariantEmbeds, animeGGSelectEmbedURLs
Wanted == {v \in page.variants : target = "any" \/ v.audio = target}
Selected == IF page.variants = {} THEN page.embeds ELSE {v.url : v \in Wanted}

Fetch ==
  /\ pc = "fetch"
  /\ \/ Goto("unread") /\ UNCHANGED <<page, left, sources, found>>
     \/ /\ page' \in Pages /\ Goto("variants")
        /\ left' = {v \in page'.variants : target = "any" \/ v.audio = target}
        /\ sources' = {[url |-> u, audio |-> target, quality |-> Inferred[u],
                        cookie |-> FALSE, referer |-> FALSE] : u \in page'.direct}
        /\ Note(sources')
  /\ UNCHANGED <<target, session, tried>>

\* animeGGStreamPriority
Priority(s) ==
  s.quality + (IF s.url \in Manifests THEN 25 ELSE 0)
            + (IF s.cookie THEN 120 ELSE 0) + (IF s.referer THEN 10 ELSE 0)
SameKey(s, t) == s.url = t.url /\ s.audio = t.audio

\* animeGGMergeSources: of two entries for a stream the better one stays; the
\* other fills in what it lacks.
Upgraded(s, t) ==
  IF Priority(t) > Priority(s) THEN t
  ELSE [s EXCEPT !.cookie = @ \/ t.cookie, !.referer = @ \/ t.referer,
                 !.quality = IF @ < t.quality THEN t.quality ELSE @]
Merge(ss, ts) ==
  {s \in ss : \A t \in ts : ~SameKey(s, t)} \cup {t \in ts : \A s \in ss : ~SameKey(s, t)}
  \cup {Upgraded(p[1], p[2]) : p \in {q \in ss \X ts : SameKey(q[1], q[2])}}

Labelled(x, audio) == [url |-> x.url, audio |-> audio, quality |-> x.quality,
                       cookie |-> FALSE, referer |-> TRUE]

\* animeGGFetchEmbedSources: streams that are dead are dropped, unless all are.
AskVariant ==
  /\ pc = "variants"
  /\ \E v \in left :
       /\ left' = left \ {v} /\ tried' = tried \cup {v.url}
       /\ \/ UNCHANGED <<sources, found>>
          \/ \E alive \in SUBSET Listed[v.url] \ {{}} :
               LET streams == {Labelled(x, v.audio) : x \in alive}
               IN  sources' = Merge(sources, streams) /\ Note(streams)
  /\ UNCHANGED <<target, page, pc, session, answer>>

\* The edition is not there; or its embeds have yet to be resolved.
CheckAudio ==
  /\ pc = "variants" /\ left = {}
  /\ IF target # "any" /\ page.variants # {} /\ Selected = {}
       THEN Goto("unavailable") /\ UNCHANGED left
     ELSE IF sources = {} THEN left' = Selected /\ Goto("embeds")
     ELSE Goto("upgrade") /\ UNCHANGED left
  /\ UNCHANGED <<target, page, sources, session, tried, found>>

\* ResolvePlayable, until one can be played.
ResolveEmbed ==
  /\ pc = "embeds"
  /\ \E e \in left :
       /\ tried' = tried \cup {e}
       /\ \/ left' = left \ {e} /\ UNCHANGED <<pc, answer, sources, found>>
          \/ \E x \in [url : Media, quality : Qualities] :
               /\ sources' = {Labelled(x, target)} /\ Note(sources')
               /\ left' = {} /\ Goto("upgrade")
  /\ UNCHANGED <<target, page, session>>

EndEmbeds ==
  /\ pc = "embeds" /\ left = {} /\ Goto("upgrade")
  /\ UNCHANGED <<target, page, left, sources, session, tried, found>>

\* animeGGNeedsBrowserUpgrade: when any edition will do, the first stream that
\* says something decides.
Matching == {s \in sources : s.audio \in {target, "any"}}
Good(s)  == \/ s.cookie
            \/ s.url \notin Gated /\ \/ s.quality >= 720
                                     \/ s.quality >= 480 /\ (s.url \in Manifests \/ s.referer)
Poor(s)  == ~s.cookie /\ s.url \in Gated
NeedsUpgrade ==
  IF target = "any" THEN \/ \A s \in sources : ~Good(s)
                         \/ \E s \in sources : Poor(s)
  ELSE \/ Matching = {}
       \/ (\A s \in Matching : ~s.cookie) /\ \E s \in Matching : s.url \in Gated
GoodEnough ==
  IF target = "any" THEN \E s \in sources : Good(s) ELSE ~NeedsUpgrade

\* browserSessionStream: it may not start; the embed it visits may be resolved.
OpenBrowser ==
  /\ pc = "upgrade" /\ NeedsUpgrade
  /\ \/ Goto("answer") /\ UNCHANGED <<session, found>>
     \/ Goto("session") /\ UNCHANGED <<session, found>>
     \/ \E x \in [url : Media, quality : Qualities], c \in BOOLEAN :
          /\ session' = {[Labelled(x, target) EXCEPT !.cookie = c]}
          /\ Note(session') /\ Goto("session")
  /\ tried' = tried \cup {"browser"}
  /\ UNCHANGED <<target, page, left, sources>>

KeepAsIs ==
  /\ pc = "upgrade" /\ GoodEnough /\ Goto("answer")
  /\ UNCHANGED <<target, page, left, sources, session, tried, found>>

\* A request of the page or of its embed, or a stream that they hold; with the
\* cookies of the session, if they can be read.
Capture ==
  /\ pc = "session"
  /\ \E u \in Media, c, r \in BOOLEAN :
       LET s == [url |-> u, audio |-> target, quality |-> Inferred[u],
                 cookie |-> c, referer |-> r]
       IN  /\ Wanted # {} => r
           /\ session' = Merge(session, {s}) /\ Note({s})
  /\ UNCHANGED <<target, page, pc, left, sources, tried, answer>>

EndSession ==
  /\ pc = "session"
  /\ sources' = Merge(sources, session) /\ session' = {} /\ Goto("answer")
  /\ UNCHANGED <<target, page, left, tried, found>>

\* animeGGPreferSessionBackedSources
Backed(s)   == s.audio = target /\ s.cookie
Unbacked(s) == s.audio = target /\ ~s.cookie /\ s.url \in Gated
Preferred(ss) ==
  LET kept == {s \in ss : ~Unbacked(s)}
  IN  IF target # "any" /\ (\E s \in ss : Backed(s)) /\ kept # {} THEN kept ELSE ss

Answer ==
  /\ pc = "answer"
  /\ IF sources = {} THEN Goto("none") ELSE pc' = "done" /\ answer' = Preferred(sources)
  /\ UNCHANGED <<target, page, left, sources, session, tried, found>>

Next ==
  \/ Fetch \/ AskVariant \/ CheckAudio \/ ResolveEmbed \/ EndEmbeds
  \/ OpenBrowser \/ KeepAsIs \/ Capture \/ EndSession \/ Answer

Spec == Init /\ [][Next]_vars

----------------------------------------------------------------------------
(* extension.go 297-412: a call that fails has read the page of each embed of the
   edition, resolved them and asked a browser; an edition is called unavailable
   only when the page names editions, and not that one. *)
NothingIsLeftUntried ==
  /\ pc = "none" => {v.url : v \in Wanted} \cup Selected \cup {"browser"} \subseteq tried
  /\ pc = "unavailable" => /\ target # "any" /\ page.variants # {}
                                 /\ \A v \in page.variants : v.audio # target

(* extension.go 1615-1695: no stream is lost to another one: what was found is
   offered, once, at least as good as it was found, save a gated one when there
   is another that has a session; and no other edition is offered. *)
StreamsAreMerged ==
  pc = "done" =>
    /\ \A s \in found : \/ \E t \in answer : SameKey(s, t) /\ Priority(t) >= Priority(s)
                        \/ s.url \in Gated /\ \E t \in answer : Backed(t)
    /\ \A s, t \in answer : SameKey(s, t) => s = t
    /\ target # "any" => \A s \in answer : s.audio = target
=============================================================================
