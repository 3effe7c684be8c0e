----------------------------- MODULE OAuthLogin ----------------------------
(***************************************************************************)
(* Logging in to AniList: a server on a fixed local port waits for the     *)
(* page the browser is sent back to, then the code it brings is exchanged. *)
(* A page reaches whichever login has the port when it is sent back, if    *)
(* any has: it may be a late page of a login that has given up.            *)
(***************************************************************************)
EXTENDS Naturals, FiniteSets

CONSTANTS
  Logins,   \* calls of LoginAniList, each made at most once
  MaxPages, \* bound: times a page is sent back
  None

OAuthLoginAssumption == MaxPages \in Nat /\ None \notin Logins

VARIABLES
  port,    \* the login whose server has the port
  channel, \* channel[l]: what its server was told: "code", "error" or None
  told,    \* logins whose server has passed something on: sendOnce
  login,   \* login[l]: where a login is
  token,   \* the login whose account is stored
  pages

vars == <<port, channel, told, login, token, pages>>

Init ==
  /\ port = None
  /\ channel = [l \in Logins |-> None]
  /\ told = {}
  /\ login = [l \in Logins |-> "idle"]
  /\ token = None
  /\ pages = 0

Becomes(l, s) == login' = [login EXCEPT ![l] = s]

\* StartCallbackServer: the port is taken or there is no login.
Start(l) ==
  /\ login[l] = "idle"
  /\ \/ port = None /\ port' = l /\ Becomes(l, "waiting")
     \/ port # None /\ Becomes(l, "failed") /\ UNCHANGED port
  /\ UNCHANGED <<channel, told, token, pages>>

\* The page comes back, with a code or an error: the first one is passed on,
\* the ones after it are only answered.
Page ==
  /\ port # None
  /\ pages < MaxPages
  /\ pages' = pages + 1
  /\ \E r \in {"code", "error"} :
       channel' = IF port \in told THEN channel ELSE [channel EXCEPT ![port] = r]
  /\ told' = told \cup {port}
  /\ UNCHANGED <<port, login, token>>

\* defer cs.Close()
Close(s) == None

\* WaitForCode: what the server was told, or three minutes have passed; either,
\* when both are so.
WaitForCode(l) ==
  /\ login[l] = "waiting"
  /\ \E s \in {"exchanging", "failed"} :
       /\ s = "exchanging" => channel[l] = "code"
       /\ Becomes(l, s)
       /\ port' = Close(s)
  /\ channel' = [channel EXCEPT ![l] = None]
  /\ UNCHANGED <<told, token, pages>>

\* AniListExchangeCode, AniListGetViewer and SaveOAuthToken.
Advance(l, from, to) ==
  /\ login[l] = from
  /\ Becomes(l, to) \/ Becomes(l, "failed")
  /\ UNCHANGED <<port, channel, told, token, pages>>

Exchange(l) == Advance(l, "exchanging", "viewing")
View(l)     == Advance(l, "viewing", "saving")

Save(l) ==
  /\ login[l] = "saving"
  /\ \/ Becomes(l, "done") /\ token' = l
     \/ Becomes(l, "failed") /\ UNCHANGED token
  /\ UNCHANGED <<port, channel, told, pages>>

Logout ==
  /\ token # None
  /\ token' = None
  /\ UNCHANGED <<port, channel, told, login, pages>>

Step(l) == WaitForCode(l) \/ Exchange(l) \/ View(l) \/ Save(l)
Next    == (\E l \in Logins : Start(l) \/ Step(l)) \/ Page \/ Logout
Spec == Init /\ [][Next]_vars

----------------------------------------------------------------------------
Running(l) == login[l] \notin {"idle", "done", "failed"}

\* The port is with the one login that waits for a page, or with none.
TypeOK ==
  /\ port \in Logins \cup {None} /\ told \subseteq Logins
  /\ login \in [Logins -> {"idle", "waiting", "exchanging", "viewing", "saving",
                           "done", "failed"}]
  /\ \A l \in Logins : login[l] = "waiting" <=> port = l
  /\ channel \in [Logins -> {"code", "error", None}]
  /\ token \in Logins \cup {None}
  /\ pages \in 0 .. MaxPages

\* A login is under way, or holds the port.
Busy(l) == Running(l) \/ port = l
=============================================================================
