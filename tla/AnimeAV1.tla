------------------------------ MODULE AnimeAV1 ------------------------------
(* GetStreamSources of extensions/animeav1/extension.go: the embeds of an episode,
   subtitled and dubbed, are resolved by a pool; the slow ones afterwards, one by
   one, as long as one of the two is missing.  What ResolvePlayable finds is its
   outcome: a stream of some quality, or nothing. *)
EXTENDS Naturals, Sequences

CONSTANTS Episodes,  \* the pages: sequences of candidates [url, track]
          Internal, Hls, Deferred, \* embeds that are skipped, fast, slow
          Streams, Qualities       \* animeAV1QualityRank: 0 when it is unknown

\* embedTrackAudio and embedTrackRank
Audio(track) ==
  IF track \in {"DUB", "LAT", "ESP"} THEN "dub"
  ELSE IF track \in {"SUB", "VOSE", "CAST", "RAW"} THEN "sub" ELSE ""

TrackRank(track) ==
  IF track \in {"SUB", "VOSE", "CAST"} THEN 0
  ELSE IF track \in {"LAT", "ESP"} THEN 1
  ELSE IF track = "DUB" THEN 3 ELSE 2

VARIABLES
  page,      \* the candidates on the page, in the order they are collected
  pc,        \* where the call is
  tried,     \* the candidates that ResolvePlayable was asked for
  resolved,  \* what it found: [at, url, quality], of the candidate at a place
  selected   \* what is answered

vars == <<page, pc, tried, resolved, selected>>

----------------------------------------------------------------------------
\* collectEmbedCandidates: by track; tracks of one rank in the order of a map.
IsCollected(s) ==
  \A k, l \in DOMAIN s : k < l => TrackRank(s[k].track) <= TrackRank(s[l].track)

\* animeAV1AudioVariantsFromBody
Variants == {"sub"} \cup ({Audio(page[k].track) : k \in DOMAIN page} \ {""})

\* The first candidate with its embed, unless the embed is one of their own.
Kept == {k \in DOMAIN page : /\ page[k].url \notin Internal
                             /\ \A l \in 1 .. k - 1 : page[l].url # page[k].url}

\* animeAV1ShouldResolveSlow, partitionAnimeAV1Candidates
IsSlow(k) ==
  \/ page[k].url \in Deferred
  \/ /\ page[k].url \notin Hls
     /\ \E l \in Kept : page[l].track = page[k].track /\ page[l].url \in Hls
Slow == {k \in Kept : IsSlow(k)}
Fast == Kept \ Slow

AudioOf(x) == Audio(page[x.at].track)
InAudio(audio) == {x \in resolved : AudioOf(x) = audio}

\* animeAV1ResolvedSourceLess, where the slow ones are ordered after the fast.
Earlier(k, l) == IF (k \in Fast) = (l \in Fast) THEN k < l ELSE k \in Fast
Better(x, y) ==
  x.quality > y.quality \/ (x.quality = y.quality /\ Earlier(x.at, y.at))
IsBest(x, R) == x \in R /\ \A y \in R \ {x} : Better(x, y)

\* One stream may be behind two embeds.
Others(x) == {y \in resolved : y.url # x.url \/ AudioOf(y) # AudioOf(x)}

HasBoth == Variants = {"sub", "dub"} /\ InAudio("sub") # {} /\ InAudio("dub") # {}

\* selectAnimeAV1Sources, with animeAV1BestSourceForAudio
IsSelection(s) ==
  \/ resolved = {} /\ s = <<>>
  \/ HasBoth /\ \E x \in InAudio("sub"), y \in InAudio("dub") :
       IsBest(x, InAudio("sub")) /\ IsBest(y, InAudio("dub")) /\ s = <<x, y>>
  \/ /\ resolved # {} /\ ~HasBoth
     /\ \E x \in resolved :
          /\ IsBest(x, resolved)
          /\ \/ Others(x) = {} /\ s = <<x>>
             \/ \E y \in Others(x) : IsBest(y, Others(x)) /\ s = <<x, y>>

Selections == {<<>>} \cup {<<x>> : x \in resolved}
              \cup {<<x, y>> : x \in resolved, y \in resolved}

\* animeAV1NeedsMoreAudioVariants
NeedsMore(s) ==
  \/ s = <<>>
  \/ /\ Variants = {"sub", "dub"}
     /\ \E a \in {"sub", "dub"} : \A k \in DOMAIN s : AudioOf(s[k]) # a

----------------------------------------------------------------------------
Init ==
  /\ page = <<>> /\ pc = "fetch"
  /\ tried = {} /\ resolved = {} /\ selected = <<>>

\* fetchJSON: no page; or the candidates on it.
Fetch ==
  /\ pc = "fetch"
  /\ \/ pc' = "failed" /\ UNCHANGED page
     \/ /\ pc' = "pool"
        /\ \E s \in Episodes : IsCollected(s) /\ page' = s
  /\ UNCHANGED <<tried, resolved, selected>>

\* ResolvePlayable: nothing, or a stream of some quality.
Try(k) ==
  /\ tried' = tried \cup {k}
  /\ \/ UNCHANGED resolved
     \/ \E u \in Streams, q \in Qualities :
          resolved' = resolved \cup {[at |-> k, url |-> u, quality |-> q]}

\* A goroutine of the pool.
Resolve ==
  /\ pc = "pool"
  /\ \E k \in Fast \ tried : Try(k)
  /\ UNCHANGED <<page, pc, selected>>

\* All have ended; the slow ones are tried if that is not enough.
Collect ==
  /\ pc = "pool" /\ Fast \subseteq tried
  /\ selected' \in {s \in Selections : IsSelection(s)}
  /\ pc' = IF NeedsMore(selected') THEN "slow" ELSE "done"
  /\ UNCHANGED <<page, tried, resolved>>

\* The next slow one; a stream that it gives is selected among.
TrySlow ==
  /\ pc = "slow"
  /\ \E k \in Slow \ tried : (\A l \in Slow \ tried : k <= l) /\ Try(k)
  /\ pc' = IF resolved' = resolved THEN "slow" ELSE "select"
  /\ UNCHANGED <<page, selected>>

SelectAgain ==
  /\ pc = "select"
  /\ selected' \in {s \in Selections : IsSelection(s)}
  /\ pc' = IF NeedsMore(selected') THEN "slow" ELSE "done"
  /\ UNCHANGED <<page, tried, resolved>>

\* None is left.
Stop ==
  /\ pc = "slow" /\ Slow \subseteq tried
  /\ pc' = IF selected = <<>> THEN "failed" ELSE "done"
  /\ UNCHANGED <<page, tried, resolved, selected>>

Next == Fetch \/ Resolve \/ Collect \/ TrySlow \/ SelectAgain \/ Stop

Spec == Init /\ [][Next]_vars

----------------------------------------------------------------------------
Failed(k) == k \in tried /\ \A x \in resolved : x.at # k

(* extension.go 351-441, 579-654: when a page has both audios and a stream of each
   was found, fast or slow, the answer is the best subtitled stream and then the
   best dubbed one; one of the two is missing only if every embed of one audio
   was tried in vain, the slow ones too; and a call that read the page fails only
   if every embed was. *)
BothVariantsKept ==
  /\ pc = "done" /\ Variants = {"sub", "dub"} =>
       \/ /\ Len(selected) = 2
          /\ IsBest(selected[1], InAudio("sub")) /\ IsBest(selected[2], InAudio("dub"))
       \/ \E a \in {"sub", "dub"} :
            \A k \in Kept : Audio(page[k].track) = a => Failed(k)
  /\ pc = "failed" => \A k \in Kept : Failed(k)
=============================================================================
