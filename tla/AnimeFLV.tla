------------------------------ MODULE AnimeFLV ------------------------------
(* GetStreamSources of extensions/animeflv/extension.go: the embeds of an episode
   are sorted, the first ones resolved by a pool of goroutines and the others one
   after another.  Calls for one show share the note of the embed that last
   worked.  What ResolvePlayable finds is its outcome. *)
EXTENDS Naturals, Sequences

CONSTANTS Calls,     \* calls for episodes of one show
          Shows,     \* extractEmbeds: the embeds on the page of a call, in order
          Rank,      \* providerPriority
          Parallel,  \* size of the pool: 3
          None

ShownBy(c) == {Shows[c][k] : k \in DOMAIN Shows[c]}
AllEmbeds == UNION {ShownBy(c) : c \in Calls}

AnimeFLVAssumption ==
  /\ Parallel \in Nat \ {0}
  /\ \A c \in Calls :
       /\ Shows[c] \in Seq(AllEmbeds) /\ Shows[c] # <<>>
       /\ \A k, l \in DOMAIN Shows[c] : Shows[c][k] = Shows[c][l] => k = l
  /\ AllEmbeds \cap {None, "unread", "error"} = {} /\ None \notin {"unread", "error"}
  /\ Rank \in [AllEmbeds -> Nat]

VARIABLES
  preferred,  \* animeflvPreferredProvider of the show
  pc, sorted, \* of a call: where it is; its embeds
  i, j, later, \* the sort: the two it compares, and what it read of the later one
  outcome,    \* of each embed: "open", "resolved" or "failed"
  next,       \* the embed to try after the pool
  answer      \* an embed whose stream is played, an error, or None yet

vars == <<preferred, pc, sorted, i, j, later, outcome, next, answer>>

Init ==
  /\ preferred = None
  /\ pc = [c \in Calls |-> "idle"] /\ sorted = [c \in Calls |-> Shows[c]]
  /\ i = [c \in Calls |-> 1] /\ j = [c \in Calls |-> 2]
  /\ later = [c \in Calls |-> 0]
  /\ outcome = [c \in Calls |-> [e \in AllEmbeds |-> "open"]]
  /\ next = [c \in Calls |-> Parallel + 1]
  /\ answer = [c \in Calls |-> None]

Count(c) == Len(Shows[c])
Width(c) == IF Count(c) < Parallel THEN Count(c) ELSE Parallel

Goto(c, p) == pc' = [pc EXCEPT ![c] = p]
Return(c, a) == Goto(c, "done") /\ answer' = [answer EXCEPT ![c] = a]

\* No page or no embeds on it; or those it shows.
Fetch(c) ==
  /\ pc[c] = "idle"
  /\ \/ Return(c, "unread")
     \/ Goto(c, IF Count(c) = 1 THEN "pool" ELSE "read") /\ UNCHANGED answer
  /\ UNCHANGED <<preferred, sorted, i, j, later, outcome, next>>

\* preferredProviderPriority: 0 stands for its -1, below every rank.
Priority(e) == IF preferred = e THEN 0 ELSE Rank[e] + 1

\* The comparison reads the note twice.
ReadLater(c) ==
  /\ pc[c] = "read"
  /\ later' = [later EXCEPT ![c] = Priority(sorted[c][j[c]])]
  /\ Goto(c, "compare")
  /\ UNCHANGED <<preferred, sorted, i, j, outcome, next, answer>>

Swapped(s, a, b) == [s EXCEPT ![a] = s[b], ![b] = s[a]]

Compare(c) ==
  LET a == i[c]
      b == j[c]
  IN /\ pc[c] = "compare"
     /\ sorted' = [sorted EXCEPT ![c] =
                     IF later[c] < Priority(sorted[c][a]) THEN Swapped(sorted[c], a, b)
                     ELSE sorted[c]]
     /\ \/ b < Count(c)
           /\ j' = [j EXCEPT ![c] = b + 1] /\ Goto(c, "read") /\ UNCHANGED i
        \/ b = Count(c) /\ a + 1 < Count(c)
           /\ i' = [i EXCEPT ![c] = a + 1] /\ j' = [j EXCEPT ![c] = a + 2] /\ Goto(c, "read")
        \/ b = Count(c) /\ a + 1 = Count(c)
           /\ Goto(c, "pool") /\ UNCHANGED <<i, j>>
     /\ UNCHANGED <<preferred, later, outcome, next, answer>>

SetOutcome(c, e, o) == outcome' = [outcome EXCEPT ![c] = [@ EXCEPT ![e] = o]]

\* A goroutine of the pool.
Resolve(c) ==
  /\ pc[c] = "pool"
  /\ \E k \in 1 .. Width(c), o \in {"resolved", "failed"} :
       outcome[c][sorted[c][k]] = "open" /\ SetOutcome(c, sorted[c][k], o)
  /\ UNCHANGED <<preferred, pc, sorted, i, j, later, next, answer>>

\* All are waited for; the first in the order of the sort is taken.
Collect(c) ==
  /\ pc[c] = "pool"
  /\ \A k \in 1 .. Width(c) : outcome[c][sorted[c][k]] # "open"
  /\ \/ \E k \in 1 .. Width(c) :
          /\ outcome[c][sorted[c][k]] = "resolved"
          /\ \A l \in 1 .. k - 1 : outcome[c][sorted[c][l]] # "resolved"
          /\ preferred' = sorted[c][k] /\ Return(c, sorted[c][k])
     \/ /\ \A k \in 1 .. Width(c) : outcome[c][sorted[c][k]] # "resolved"
        /\ Goto(c, "rest") /\ UNCHANGED <<preferred, answer>>
  /\ UNCHANGED <<sorted, i, j, later, outcome, next>>

\* The others, one after another.
TryNext(c) ==
  /\ pc[c] = "rest" /\ next[c] <= Count(c)
  /\ LET e == sorted[c][next[c]]
     IN \/ SetOutcome(c, e, "resolved")
           /\ preferred' = e /\ Return(c, e) /\ UNCHANGED next
        \/ SetOutcome(c, e, "failed") /\ next' = [next EXCEPT ![c] = @ + 1]
           /\ UNCHANGED <<preferred, pc, answer>>
  /\ UNCHANGED <<sorted, i, j, later>>

GiveUp(c) ==
  /\ pc[c] = "rest" /\ next[c] > Count(c) /\ Return(c, "error")
  /\ UNCHANGED <<preferred, sorted, i, j, later, outcome, next>>

Step(c) ==
  \/ Fetch(c) \/ ReadLater(c) \/ Compare(c) \/ Resolve(c)
  \/ Collect(c) \/ TryNext(c) \/ GiveUp(c)

Next == \E c \in Calls : Step(c)

Spec == Init /\ [][Next]_vars

----------------------------------------------------------------------------
(* extension.go 239-335: whatever other calls note while this one sorts, no embed
   is lost: an answer is the first of the sorted embeds that can be resolved, and
   an error after the page was read means that each was tried in vain. *)
NoEmbedIsSkipped ==
  \A c \in Calls :
    /\ answer[c] \in AllEmbeds =>
         \E k \in DOMAIN Shows[c] :
           /\ sorted[c][k] = answer[c] /\ outcome[c][answer[c]] = "resolved"
           /\ \A l \in 1 .. k - 1 : outcome[c][sorted[c][l]] = "failed"
    /\ answer[c] = "error" =>
         \A k \in DOMAIN Shows[c] : outcome[c][Shows[c][k]] = "failed"
=============================================================================
