------------------------------ MODULE AnimeKai ------------------------------
(* GetStreamSources of extensions/animekai/extension.go: an episode is opened in
   a browser, on its watch page, and what its player requests is captured by a
   goroutine that listens to the network.  If that gives nothing, its servers
   are asked one by one, the embed of each in a browser of its own or by
   ResolvePlayable, and at last the watch page once more.

   Not modelled: the branch for an id that names no server episode, which
   composeAnimeKaiEpisodeID never makes. *)
EXTENDS Naturals, Sequences, FiniteSets

CONSTANTS Servers,  \* what the page may list: sequences of embeds
          Watch,    \* the watch page
          Plays,    \* of a page: the streams its player requests
          Tries, Enough, \* 8 servers are asked, until 3 streams are found
          None

AnimeKaiAssumption ==
  /\ Tries \in Nat \ {0} /\ Enough \in Nat \ {0}
  /\ Watch \in DOMAIN Plays /\ None \notin DOMAIN Plays
  /\ Servers \subseteq Seq(DOMAIN Plays) \ {<<>>}

Sessions == {"instead", "watch", "embed", "last"} \* what a browser is opened for

VARIABLES
  hasWatch,  \* the id of the episode holds the address of the watch page
  pc, servers, at, \* where the call is; the servers listed and the one it is at
  late,      \* ten seconds have passed
  challenged, \* sawCloudflare
  shown,     \* the page the browser shows; None when there is none
  captured,  \* capturedURLs
  sources,   \* the streams that were found
  answer,    \* what the call returned, or "none" yet
  asked, tried \* history: the servers that were asked, and what browsers were for

vars == <<hasWatch, pc, servers, at, late, challenged, shown, captured, sources,
          answer, asked, tried>>

Init ==
  /\ hasWatch \in BOOLEAN
  /\ pc = "list" /\ servers = <<>> /\ at = 1 /\ late = FALSE /\ challenged = FALSE
  /\ shown = None /\ captured = {} /\ sources = {} /\ answer = "none"
  /\ asked = {} /\ tried = {}

Goto(p) == pc' = p /\ UNCHANGED answer
Return(a) == pc' = "done" /\ answer' = a

\* The list fails or is empty; it is a challenge; or it shows servers.
ListServers ==
  /\ pc = "list"
  /\ \/ /\ IF hasWatch THEN Goto("instead") ELSE Return("unlisted")
        /\ UNCHANGED servers
     \/ Return("challenge") /\ UNCHANGED servers
     \/ servers' \in Servers /\ Goto(IF hasWatch THEN "watch" ELSE "ajax")
  /\ UNCHANGED <<hasWatch, at, late, challenged, shown, captured, sources, asked, tried>>

----------------------------------------------------------------------------
(* A session in the browser.                                                *)

\* It found nothing; its error may name a challenge.
GoOn ==
  \/ pc = "watch" /\ Goto("ajax") /\ challenged' \in {challenged, TRUE}
  \/ pc = "embed" /\ Goto("resolve") /\ UNCHANGED challenged
  \/ pc = "instead" /\ Return("unlisted") /\ UNCHANGED challenged
  \/ /\ pc = "last" /\ challenged' \in {challenged, TRUE}
     /\ Return(IF challenged' THEN "challenge" ELSE "nothing")

\* Launch, Connect, EachEvent and the watch page; any of them may fail.
OpenBrowser ==
  /\ pc \in Sessions /\ shown = None
  /\ \/ shown' = Watch /\ UNCHANGED <<pc, challenged, answer>>
     \/ GoOn /\ UNCHANGED shown
  /\ captured' = {} /\ tried' = tried \cup {pc}
  /\ UNCHANGED <<hasWatch, servers, at, late, sources, asked>>

\* browserAnimeKaiEmbedSession: from the watch page on to the embed.
Navigate ==
  /\ pc = "embed" /\ shown = Watch
  /\ \/ shown' = servers[at] /\ UNCHANGED <<pc, challenged, answer>>
     \/ shown' = None /\ GoOn
  /\ UNCHANGED <<hasWatch, servers, at, late, captured, sources, asked, tried>>

\* The goroutine of EachEvent.
Capture ==
  /\ shown # None
  /\ \E u \in Plays[shown] : captured' = captured \cup {u}
  /\ UNCHANGED <<hasWatch, pc, servers, at, late, challenged, shown, sources, answer,
                 asked, tried>>

\* The browser is closed and the call ends, with what earlier servers gave.
Finish(found) ==
  /\ shown' = None /\ sources' = sources \cup found
  /\ Return("streams")
  /\ UNCHANGED <<hasWatch, servers, at, late, challenged, captured, asked, tried>>

\* A session for an embed looks at the embed only.
Polls == shown # None /\ (pc = "embed" => shown # Watch)

\* The frames of the watch page, or the embed itself.
Frames == IF pc = "embed" THEN {servers[at]}
          ELSE {servers[k] : k \in DOMAIN servers} \cup {Watch}

\* What was captured; or what stands in the page or behind its frames:
\* animekaiStreamCandidates.
ShowCaptured == Polls /\ captured # {} /\ Finish(captured)

ShowCandidates ==
  Polls /\ \E S \in SUBSET UNION {Plays[p] : p \in Frames} : S # {} /\ Finish(S)

\* The deadline of the polls, more than ten seconds after the call began; what
\* was captured since the last of them is lost.
TimeOut ==
  /\ Polls /\ shown' = None /\ late' = TRUE /\ GoOn
  /\ UNCHANGED <<hasWatch, servers, at, captured, sources, asked, tried>>

----------------------------------------------------------------------------
(* The servers, one by one.                                                 *)

\* Mutant: the last server of the list is left out.
MoreButOne == at < Len(servers) /\ at <= Tries /\ ~late /\ Cardinality(sources) < Enough

More == at <= Len(servers) /\ at <= Tries /\ ~late /\ Cardinality(sources) < Enough

\* The server gives no address; the answer is a challenge; or an embed.
Ask ==
  /\ pc = "ajax" /\ More
  /\ \/ at' = at + 1 /\ challenged' \in {challenged, TRUE} /\ UNCHANGED <<pc, answer>>
     \/ Goto(IF hasWatch THEN "embed" ELSE "resolve") /\ UNCHANGED <<at, challenged>>
  /\ asked' = asked \cup {at}
  /\ UNCHANGED <<hasWatch, servers, late, shown, captured, sources, tried>>

\* One that was found before adds nothing.
Resolve ==
  /\ pc = "resolve" /\ at' = at + 1 /\ Goto("ajax")
  /\ \/ UNCHANGED sources
     \/ \E u \in Plays[servers[at]] : sources' = sources \cup {u}
  /\ UNCHANGED <<hasWatch, servers, late, challenged, shown, captured, asked, tried>>

\* Three streams are enough.
Stop ==
  /\ pc = "ajax" /\ ~More
  /\ \/ sources # {} /\ Return("streams")
     \/ sources = {} /\ hasWatch /\ Goto("last")
     \/ sources = {} /\ ~hasWatch /\ Return(IF challenged THEN "challenge" ELSE "nothing")
  /\ UNCHANGED <<hasWatch, servers, at, late, challenged, shown, captured, sources, asked, tried>>

\* The tenth second passes, in a request or in a session.
Pass ==
  /\ ~late /\ pc # "done" /\ late' = TRUE
  /\ UNCHANGED <<hasWatch, pc, servers, at, challenged, shown, captured, sources,
                 answer, asked, tried>>

Step ==
  \/ ListServers \/ OpenBrowser \/ Navigate \/ ShowCaptured \/ ShowCandidates
  \/ TimeOut \/ Ask \/ Resolve \/ Stop

Next == Step \/ Capture \/ Pass

Spec == Init /\ [][Next]_vars

----------------------------------------------------------------------------
(* extension.go 405-513: a call that gives up has asked every server it may ask,
   unless time ran out, and has opened the watch page before and again after
   them; one that succeeds brings streams. *)
NothingIsLeftUntried ==
  /\ answer \in {"nothing", "challenge"} /\ servers # <<>> =>
       /\ hasWatch => {"watch", "last"} \subseteq tried
       /\ ~late => \A k \in DOMAIN servers : k <= Tries => k \in asked
  /\ answer = "streams" => sources # {}
=============================================================================
