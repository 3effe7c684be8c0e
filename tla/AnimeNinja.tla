----------------------------- MODULE AnimeNinja -----------------------------
(* GetStreamSources of extensions/animeninja/extension.go: the servers of an
   episode are asked for their embeds, then the frames of its page are tried,
   and at last those that a browser sees on it.  What ResolvePlayable finds, if
   anything, is its outcome. *)
EXTENDS Naturals, Sequences

CONSTANTS Servers,  \* what a page may list
          Embeds,   \* what a server answers
          Pages,    \* [servers, frames]: sequences of servers and of embeds
          Foreign,  \* frames of the site itself, of google and of trackers
          Tries,    \* 4 servers are asked
          None

AnimeNinjaAssumption ==
  /\ Tries \in Nat \ {0} /\ Foreign \subseteq Embeds
  /\ Embeds \cap {None, "unread", "error"} = {} /\ None \notin {"unread", "error"} /\ None \notin Pages
  /\ \A p \in Pages : p.servers \in Seq(Servers) /\ p.frames \in Seq(Embeds)

VARIABLES
  page,     \* the page, or None before it is read
  pc, at,   \* where the call is, and the server or frame it is at
  late,     \* five seconds have passed
  seen,     \* the embeds that were tried
  rendered, \* those tried in the browser
  asked,    \* history: the servers that were asked
  answer    \* the embed whose stream is played, an error, or None yet

vars == <<page, pc, at, late, seen, rendered, asked, answer>>

Init ==
  /\ page = None /\ pc = "fetch" /\ at = 1 /\ late = FALSE
  /\ seen = {} /\ rendered = {} /\ asked = {} /\ answer = None

Return(a) == pc' = "done" /\ answer' = a
Goto(p) == pc' = p /\ UNCHANGED answer

\* parseDooPlayServers: when the page lists none, 36 are guessed.
Fetch ==
  /\ pc = "fetch"
  /\ \/ Return("unread") /\ UNCHANGED page
     \/ page' \in Pages /\ Goto("servers")
  /\ UNCHANGED <<at, late, seen, rendered, asked>>

MoreServers == at <= Len(page.servers) /\ at <= Tries /\ ~late

\* An embed is tried once: its stream is the answer, or it gives none.
Try(e, tried) ==
  /\ e \notin tried
  /\ \/ Return(e)
     \/ at' = at + 1 /\ UNCHANGED <<pc, answer>>

\* fetchEmbedURL: by one address, or else by another.
AskServer ==
  /\ pc = "servers" /\ MoreServers
  /\ asked' = asked \cup {page.servers[at]}
  /\ \/ at' = at + 1 /\ UNCHANGED <<pc, answer, seen>> \* no embed, or one that was seen
     \/ \E e \in Embeds : /\ Try(e, seen) /\ seen' = seen \cup {e}
                          /\ pc' = "done" => UNCHANGED at
  /\ UNCHANGED <<page, late, rendered>>

EndServers ==
  /\ pc = "servers" /\ ~MoreServers /\ Goto("frames") /\ at' = 1
  /\ UNCHANGED <<page, late, seen, rendered, asked>>

TryFrame ==
  /\ pc = "frames" /\ at <= Len(page.frames)
  /\ LET e == page.frames[at]
     IN \/ e \in seen /\ at' = at + 1 /\ UNCHANGED <<pc, answer>>
        \/ Try(e, seen) /\ (pc' = "done" => UNCHANGED at)
  /\ seen' = seen \cup {page.frames[at]}
  /\ UNCHANGED <<page, late, rendered, asked>>

\* ninjaaBrowserSources: it may not start, or its script may fail.
OpenBrowser ==
  /\ pc = "frames" /\ at > Len(page.frames)
  /\ Goto("browser") \/ Return("error")
  /\ UNCHANGED <<page, at, late, seen, rendered, asked>>

\* A frame that the script or one of the polls finds on the page.
TryRendered ==
  /\ pc = "browser"
  /\ \E e \in Embeds \ rendered :
       /\ rendered' = rendered \cup {e}
       /\ \/ UNCHANGED <<pc, answer>>
          \/ e \notin Foreign /\ Return(e)
  /\ UNCHANGED <<page, at, late, seen, asked>>

\* Four seconds of polls.
TimeOut ==
  /\ pc = "browser" /\ Return("error")
  /\ UNCHANGED <<page, at, late, seen, rendered, asked>>

Pass ==
  /\ pc = "servers" /\ ~late /\ late' = TRUE
  /\ UNCHANGED <<page, pc, at, seen, rendered, asked, answer>>

Step ==
  \/ Fetch \/ AskServer \/ EndServers \/ TryFrame
  \/ OpenBrowser \/ TryRendered \/ TimeOut

Next == Step \/ Pass

Spec == Init /\ [][Next]_vars

----------------------------------------------------------------------------
(* extension.go 262-331: a browser is started, and the call fails, only when each
   server it may ask was asked, unless five seconds passed, and each frame of the
   page was tried; what the browser shows of the site itself, of google or of a
   tracker is not played. *)
NothingIsLeftUntried ==
  /\ pc = "browser" \/ answer = "error" =>
       /\ ~late => \A k \in DOMAIN page.servers : k <= Tries => page.servers[k] \in asked
       /\ \A k \in DOMAIN page.frames : page.frames[k] \in seen
  /\ answer \in Foreign => answer \notin rendered
=============================================================================
