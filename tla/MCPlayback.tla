----------------------------- MODULE MCPlayback -----------------------------
(* Two openings, of an online episode, a library episode or a file, and a   *)
(* thread of the integrated player, under four plans.                       *)
EXTENDS Playback, TLC

CONSTANTS s1, s2, u1, e1, l1, f1

TwoSessions == {s1, s2}
OneCall     == {u1}
Episode     == {e1}
Local       == {l1}
File        == {f1}

Plan(a, b, q, u, x) ==
  [opens |-> (s1 :> a @@ s2 :> b),
   reports |-> (s1 :> q @@ s2 :> {} @@ u1 :> u), others |-> x]

\* One opening through any call, with every position, menu and shutdown.
Player     == Plan(Apis \ {"integrated"}, {}, {1, 2}, {}, {"shutdown"})
Integrated == Plan({"integrated"}, {}, {}, 0 .. Length, {"menus", "pictures"})
\* Two mpv at once: the socket, the connection, the ends.
Quiet      == Plan({"stream"}, {"file"}, {}, {}, {})
\* The mpv of a file reports while the integrated player does.
Mixed      == Plan({"file"}, {"integrated"}, {2}, {1}, {})

ThePlans == {Player, Integrated, Quiet, Mixed}
=============================================================================
