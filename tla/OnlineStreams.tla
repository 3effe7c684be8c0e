--------------------------- MODULE OnlineStreams ---------------------------
(***************************************************************************)
(* From an episode to a stream: the streams a source offers, kept hot and, *)
(* for sources whose links last, as a stale copy for when the source       *)
(* fails; their order by the viewer's preference; and the choice among the *)
(* first of them, by opening or probing one after the other.               *)
(***************************************************************************)
EXTENDS Naturals, FiniteSets, Sequences, Functions

CONSTANTS
  Callers,     \* threads that open an episode; a source stands for its episode
  Sources,
  ShortLived,  \* sources whose links are not kept as a stale copy
  Probed,      \* sources whose candidates the integrated player probes
  Offers,      \* what a source may offer: sequences of streams
  Wishes,      \* preferred [audio, quality]
  Limit,       \* candidates tried at most; 4 in the program
  MaxCalls,    \* bound: calls of one thread
  None

Offered == UNION {Range(o) : o \in Offers}

OnlineStreamsAssumption ==
  /\ Offers \subseteq Seq(Offered)
  /\ ShortLived \subseteq Sources /\ Probed \subseteq Sources
  /\ Limit \in Nat \ {0} /\ MaxCalls \in [Callers -> Nat]
  /\ \A w \in Wishes : w.audio \in {"sub", "dub", ""} /\ w.quality \in Nat

VARIABLES
  hot, stale,  \* the two cache entries of a source: streams, <<>> if none
  pc, calls,
  source,      \* source[c]: what c opens
  way,         \* way[c]: "mpv" or "integrated"
  wish,        \* wish[c]: the preference c goes by
  streams,     \* streams[c]: what c may play
  fromStale,   \* fromStale[c]: c had to take the stale copy
  failed,      \* failed[c]: streams c found not to work
  played       \* played[c]: the stream c opened

vars == <<hot, stale, pc, calls, source, way, wish, streams, fromStale, failed, played>>
callVars == <<calls, source, way, wish>>

Goto(c, at) == pc' = [pc EXCEPT ![c] = at]

Init ==
  /\ hot = [s \in Sources |-> <<>>] /\ stale = [s \in Sources |-> <<>>]
  /\ pc = [c \in Callers |-> "idle"] /\ calls = [c \in Callers |-> 0]
  /\ source = [c \in Callers |-> None] /\ way = [c \in Callers |-> "mpv"]
  /\ wish = [c \in Callers |-> None] /\ streams = [c \in Callers |-> <<>>]
  /\ fromStale = [c \in Callers |-> FALSE] /\ failed = [c \in Callers |-> {}]
  /\ played = [c \in Callers |-> None]

----------------------------------------------------------------------------
(* The order of streams.                                                   *)

\* The members of S in the strict order that is the set of pairs R.
Arranged(S, R) ==
  [k \in 1 .. Cardinality(S) |-> CHOOSE i \in S : Cardinality({j \in S : <<j, i>> \in R}) = k - 1]

\* filterPlayableAnimeStreams: links a player can open, each once per audio.
Playable(offer) ==
  LET Same(s, t) == s.url = t.url /\ s.audio = t.audio
      Good(i)    == offer[i].direct
      first == {i \in DOMAIN offer :
                  Good(i) /\ \A j \in 1 .. i - 1 : ~(Good(j) /\ Same(offer[i], offer[j]))}
      places == Arranged(first, {p \in first \X first : p[1] < p[2]})
  IN  [k \in 1 .. Cardinality(first) |-> offer[places[k]]]

\* audioPreferenceRank: the audio asked for, the other one, an unnamed one;
\* who asks for none gets subtitles.
AudioRank(s, w) ==
  LET asked == IF w.audio = "dub" THEN "dub" ELSE "sub"
  IN  CASE s.audio = asked -> 3 [] s.audio = "" -> 1 [] OTHER -> 2

\* qualityPreferenceScore over qualityRank.
Score(s, w) ==
  LET rank == CASE s.quality = 1080 -> 4 [] s.quality = 720 -> 3 [] s.quality = 480 -> 2
                [] s.quality = 360 -> 1 [] OTHER -> 0
  IN  10 * rank + (IF w.quality # 0 /\ s.quality = w.quality THEN 100 ELSE 0)

Better(s, t, w) ==
  \/ AudioRank(s, w) > AudioRank(t, w)
  \/ AudioRank(s, w) = AudioRank(t, w) /\ Score(s, w) > Score(t, w)

\* sortAnimeStreamsForPreference is stable.
Sorted(list, w) ==
  LET Before(j, i) == \/ Better(list[j], list[i], w)
                      \/ ~Better(list[i], list[j], w) /\ j < i
      places == Arranged(DOMAIN list, {p \in (DOMAIN list) \X (DOMAIN list) : Before(p[1], p[2])})
  IN  [k \in DOMAIN list |-> list[places[k]]]

First(list) == SubSeq(list, 1, IF Len(list) > Limit THEN Limit ELSE Len(list))

\* Mutant: the first of the source's order are taken, and then sorted.
CandidatesCutFirst(c) == Sorted(First(streams[c]), wish[c])

\* playbackCandidateAnimeStreams.
Candidates(c) == First(Sorted(streams[c], wish[c]))

\* What c has not tried yet.  Where the integrated player probes, segmented
\* streams come before the others.
Left(c)   == {i \in DOMAIN Candidates(c) : Candidates(c)[i] \notin failed[c]}
Probes(c) == way[c] = "integrated" /\ source[c] \in Probed /\ Len(Candidates(c)) > 1
Earlier(c, i, j) ==
  LET s == Candidates(c)[i]
      t == Candidates(c)[j]
  IN  \/ Probes(c) /\ s.hls /\ ~t.hls
      \/ (Probes(c) => (s.hls <=> t.hls)) /\ i < j

----------------------------------------------------------------------------
(* cachedAnimeStreams.                                                     *)

Open(c) ==
  /\ pc[c] = "idle" /\ calls[c] < MaxCalls[c]
  /\ calls' = [calls EXCEPT ![c] = @ + 1]
  /\ \E s \in Sources : source' = [source EXCEPT ![c] = s]
  /\ \E how \in {"mpv", "integrated"} : way' = [way EXCEPT ![c] = how]
  /\ \E w \in Wishes : wish' = [wish EXCEPT ![c] = w]
  /\ fromStale' = [fromStale EXCEPT ![c] = FALSE]
  /\ failed' = [failed EXCEPT ![c] = {}] /\ played' = [played EXCEPT ![c] = None]
  /\ Goto(c, "hot")
  /\ UNCHANGED <<hot, stale, streams>>

ReadHot(c) ==
  /\ pc[c] = "hot"
  /\ IF hot[source[c]] # <<>>
     THEN streams' = [streams EXCEPT ![c] = hot[source[c]]] /\ Goto(c, "play")
     ELSE Goto(c, "fetch") /\ UNCHANGED streams
  /\ UNCHANGED <<hot, stale, callVars, fromStale, failed, played>>

\* The source fails, or offers nothing that can be played, or something.
GetStreamSources(c) ==
  /\ pc[c] = "fetch"
  /\ \/ Goto(c, "stale") /\ UNCHANGED streams
     \/ \E offer \in Offers :
          /\ streams' = [streams EXCEPT ![c] = Playable(offer)]
          /\ Goto(c, IF Playable(offer) = <<>> THEN "stale" ELSE "keep hot")
  /\ UNCHANGED <<hot, stale, callVars, fromStale, failed, played>>

\* The cache may drop what it is given.
KeepHot(c) ==
  /\ pc[c] = "keep hot"
  /\ \E kept \in {hot[source[c]], streams[c]} : hot' = [hot EXCEPT ![source[c]] = kept]
  /\ Goto(c, IF source[c] \in ShortLived THEN "play" ELSE "keep stale")
  /\ UNCHANGED <<stale, callVars, streams, fromStale, failed, played>>

KeepStale(c) ==
  /\ pc[c] = "keep stale"
  /\ \E kept \in {stale[source[c]], streams[c]} : stale' = [stale EXCEPT ![source[c]] = kept]
  /\ Goto(c, "play")
  /\ UNCHANGED <<hot, callVars, streams, fromStale, failed, played>>

FallBack(c) ==
  /\ pc[c] = "stale"
  /\ IF source[c] \notin ShortLived /\ stale[source[c]] # <<>>
     THEN /\ streams' = [streams EXCEPT ![c] = stale[source[c]]]
          /\ fromStale' = [fromStale EXCEPT ![c] = TRUE]
          /\ Goto(c, "play")
     ELSE Goto(c, "idle") /\ UNCHANGED <<streams, fromStale>>
  /\ UNCHANGED <<hot, stale, callVars, failed, played>>

----------------------------------------------------------------------------
(* openOnlineEpisodeWithCandidates and chooseIntegratedPlaybackStreamSource. *)

Play(c, s) ==
  /\ played' = [played EXCEPT ![c] = s]
  /\ streams' = [streams EXCEPT ![c] = <<>>]
  /\ Goto(c, "idle")
  /\ UNCHANGED failed

\* The next stream in the order works or not; mpv is given up when none is
\* left, the integrated player is then handed the first candidate.  A stream
\* that is not probed is taken as it is.
TryNext(c) ==
  /\ pc[c] = "play"
  /\ \/ \E i \in Left(c) :
          /\ \A j \in Left(c) \ {i} : Earlier(c, i, j)
          /\ \/ Play(c, Candidates(c)[i])
             \/ /\ way[c] = "mpv" \/ Probes(c)
                /\ failed' = [failed EXCEPT ![c] = @ \cup {Candidates(c)[i]}]
                /\ UNCHANGED <<pc, streams, played>>
     \/ Left(c) = {} /\ way[c] = "integrated" /\ Play(c, Candidates(c)[1])
     \/ /\ Left(c) = {} /\ way[c] = "mpv" /\ Goto(c, "idle")
        /\ streams' = [streams EXCEPT ![c] = <<>>] /\ UNCHANGED <<failed, played>>
  /\ UNCHANGED <<hot, stale, callVars, fromStale>>

Expire ==
  /\ \E s \in Sources :
       \/ hot[s] # <<>> /\ hot' = [hot EXCEPT ![s] = <<>>] /\ UNCHANGED stale
       \/ stale[s] # <<>> /\ stale' = [stale EXCEPT ![s] = <<>>] /\ UNCHANGED hot
  /\ UNCHANGED <<pc, callVars, streams, fromStale, failed, played>>

Step(c) ==
  \/ ReadHot(c) \/ GetStreamSources(c) \/ KeepHot(c) \/ KeepStale(c)
  \/ FallBack(c) \/ TryNext(c)

Next == (\E c \in Callers : Open(c) \/ Step(c)) \/ Expire

Spec == Init /\ [][Next]_vars

----------------------------------------------------------------------------
TypeOK ==
  /\ hot \in [Sources -> Seq(Offered)] /\ stale \in [Sources -> Seq(Offered)]
  /\ pc \in [Callers -> {"idle", "hot", "fetch", "keep hot", "keep stale", "stale", "play"}]
  /\ source \in [Callers -> Sources \cup {None}] /\ wish \in [Callers -> Wishes \cup {None}]
  /\ streams \in [Callers -> Seq(Offered)] /\ failed \in [Callers -> SUBSET Offered]

\* What is opened can be opened, and no stream of the list that the viewer
\* would rather have was passed over: whatever is better failed when it was
\* tried, or is a file beside a segmented stream that works; and a stream that
\* failed is opened only if nothing else was left to try.
BestIsPlayed ==
  [][\A c \in Callers :
       pc[c] = "play" /\ played'[c] # played[c] =>
         LET chosen == played'[c]
         IN  /\ chosen.direct
             /\ \A s \in Range(streams[c]) :
                  Better(s, chosen, wish[c]) =>
                    \/ s \in failed[c]
                    \/ source[c] \in Probed /\ way[c] = "integrated" /\ chosen.hls /\ ~s.hls
             /\ chosen \in failed[c] =>
                  /\ Cardinality(failed[c]) \in {Len(streams[c]), Limit}
                  /\ \A s \in Range(streams[c]) : ~Better(s, chosen, wish[c])]_vars
=============================================================================
