----------------------------- MODULE MangaFire -----------------------------
(***************************************************************************)
(* What the MangaFire source loads once for all its callers: the inventory *)
(* of the site, which a search needs, kept in memory and in a file; and    *)
(* the pages of a chapter, which a browser renders.  The first caller      *)
(* loads, the others wait on its channel and look again when it closes.    *)
(***************************************************************************)
EXTENDS Naturals

CONSTANTS
  Callers,      \* threads that search or open a chapter
  Async,        \* the goroutine of refreshInventoryAsync
  Chapters,     \* chapters they open
  MaxCalls,     \* bound: calls of one thread
  MaxRestarts,  \* bound
  None

MangaFireAssumption ==
  MaxCalls \in [Callers -> Nat] /\ MaxRestarts \in Nat /\ Async \notin Callers
    /\ None \notin Callers \cup {Async}

VARIABLES
  inventory,  \* inventoryState: "none", "fresh" or "expired"
  file,       \* the inventory file: "none", "good", or "torn" by a crash
  loader,     \* who loads the inventory: inventoryLoading and inventoryWaitCh
  pages,      \* pages[p]: the chapter is in pageState
  owner,      \* owner[p]: who loads the pages of p, in pageLoading
  pc, calls, chapter, restarts,
  got,        \* got[a]: what the load of a or the one it waited for gave
  answer      \* answer[c]: "ok" or "error"

vars == <<inventory, file, loader, pages, owner, pc, calls, chapter, restarts,
          got, answer>>
pageVars == <<pages, owner, chapter>>
inventoryVars == <<inventory, file, loader>>

Fetching == {"fetch", "save", "saving", "close"}  \* the inventory
Browsing == {"browse", "store", "finish"}         \* for pages
Opening  == {"pages", "claim", "browse", "store", "finish", "awaitPages", "lookPages"}
Places == {"idle", "inventory", "check", "refresh", "fetch", "save", "saving", "close",
           "awaitFresh", "awaitAny", "lookFresh", "lookAny", "pages", "claim",
           "browse", "store", "finish", "awaitPages", "lookPages"}

Actors == Callers \cup {Async}
Goto(a, at) == pc' = [pc EXCEPT ![a] = at]
Return(a, with) ==
  /\ Goto(a, "idle")
  /\ answer' = [answer EXCEPT ![a] = with]
  /\ got' = [got EXCEPT ![a] = "none"]

Init ==
  /\ inventory = "none" /\ file \in {"none", "good"} /\ loader = None
  /\ pages = [p \in Chapters |-> FALSE] /\ owner = [p \in Chapters |-> None]
  /\ pc = [a \in Actors |-> "idle"] /\ calls = [c \in Callers |-> 0]
  /\ chapter = [c \in Callers |-> None] /\ restarts = 0
  /\ got = [a \in Actors |-> "none"] /\ answer = [a \in Actors |-> "none"]

Call(c, at) ==
  /\ pc[c] = "idle" /\ calls[c] < MaxCalls[c]
  /\ calls' = [calls EXCEPT ![c] = @ + 1]
  /\ Goto(c, at)

----------------------------------------------------------------------------
(* The inventory.                                                          *)

Search(c) ==
  /\ Call(c, "inventory")
  /\ UNCHANGED <<inventoryVars, pageVars, restarts, got, answer>>

\* loadInventory: from memory; if that is empty, from the file, to be refreshed
\* behind the caller's back; or by waiting for the load in hand; or by loading.
LoadInventory(c) ==
  /\ pc[c] = "inventory"
  /\ \/ /\ inventory = "fresh" /\ Return(c, "ok") /\ UNCHANGED inventory
     \/ /\ inventory = "none" /\ file = "good"
        /\ inventory' = "fresh"
        /\ pc' = [pc EXCEPT ![c] = "idle", ![Async] = "check"]
        /\ answer' = [answer EXCEPT ![c] = "ok"] /\ UNCHANGED got
     \/ /\ inventory = "expired" \/ (inventory = "none" /\ file # "good")
        /\ Goto(c, IF loader = None THEN "refresh" ELSE "awaitFresh")
        /\ UNCHANGED <<inventory, got, answer>>
  /\ UNCHANGED <<file, loader, pageVars, calls, restarts>>

\* refreshInventoryAsync leaves it to a load that is under way.
CheckAsync ==
  /\ pc[Async] = "check"
  /\ Goto(Async, IF loader = None THEN "refresh" ELSE "idle")
  /\ UNCHANGED <<inventoryVars, pageVars, calls, restarts, got, answer>>

\* Mutant: it goes by what loadInventory saw.
RefreshUnchecked(a) ==
  /\ pc[a] = "refresh"
  /\ loader' = a /\ Goto(a, "fetch")
  /\ UNCHANGED <<inventory, file, pageVars, calls, restarts, got, answer>>

\* refreshInventoryNow takes the lock anew: another may load by now.
Refresh(a) ==
  /\ pc[a] = "refresh"
  /\ IF loader = None THEN loader' = a /\ Goto(a, "fetch")
     ELSE Goto(a, "awaitAny") /\ UNCHANGED loader
  /\ UNCHANGED <<inventory, file, pageVars, calls, restarts, got, answer>>

\* The sitemaps; lists among them that fail are left out.
FetchInventory(a) ==
  /\ pc[a] = "fetch"
  /\ \/ inventory' = "fresh" /\ Goto(a, "save") /\ got' = [got EXCEPT ![a] = "ok"]
     \/ Goto(a, "close") /\ got' = [got EXCEPT ![a] = "error"] /\ UNCHANGED inventory
  /\ UNCHANGED <<file, loader, pageVars, calls, restarts, answer>>

\* storePersistedInventory truncates the file and writes it; either may fail.
SaveInventory(a) ==
  /\ \/ pc[a] = "save" /\ file' = "torn" /\ Goto(a, "saving")
     \/ pc[a] = "save" /\ Goto(a, "close") /\ UNCHANGED file
     \/ pc[a] = "saving" /\ file' \in {"torn", "good"} /\ Goto(a, "close")
  /\ UNCHANGED <<inventory, loader, pageVars, calls, restarts, got, answer>>

\* The load is over: those who wait for it look at what there is.
Look(at) == IF at = "awaitFresh" THEN "lookFresh"
            ELSE IF at = "awaitAny" THEN "lookAny" ELSE "lookPages"

Close(a, waiting) ==
  /\ pc' = [d \in Actors |-> IF d = a THEN "idle"
                             ELSE IF d \in waiting THEN Look(pc[d]) ELSE pc[d]]
  /\ got' = [d \in Actors |-> IF d = a THEN "none"
                              ELSE IF d \in waiting THEN got[a] ELSE got[d]]
  /\ answer' = [answer EXCEPT ![a] = got[a]]

CloseInventory(a) ==
  /\ pc[a] = "close" /\ loader = a
  /\ loader' = None
  /\ Close(a, {d \in Actors : pc[d] \in {"awaitFresh", "awaitAny"}})
  /\ UNCHANGED <<inventory, file, pageVars, calls, restarts>>

\* One who waited takes what there is; loadInventory insists on a fresh one.
LookAtInventory(a) ==
  /\ pc[a] \in {"lookFresh", "lookAny"}
  /\ Return(a, IF inventory = "fresh" \/ (pc[a] = "lookAny" /\ inventory # "none")
               THEN "ok" ELSE "error")
  /\ UNCHANGED <<inventoryVars, pageVars, calls, restarts>>

----------------------------------------------------------------------------
(* The pages of a chapter.                                                 *)

GetPages(c) ==
  /\ Call(c, "pages")
  /\ \E p \in Chapters : chapter' = [chapter EXCEPT ![c] = p]
  /\ UNCHANGED <<inventoryVars, pages, owner, restarts, got, answer>>

CachedPages(c) ==
  /\ pc[c] = "pages"
  /\ IF pages[chapter[c]] THEN Return(c, "ok")
     ELSE Goto(c, "claim") /\ UNCHANGED <<got, answer>>
  /\ UNCHANGED <<inventoryVars, pageVars, calls, restarts>>

\* waitForChapterPages; what was stored since CachedPages is not looked at.
ClaimPages(c) ==
  /\ pc[c] = "claim"
  /\ IF owner[chapter[c]] = None
     THEN owner' = [owner EXCEPT ![chapter[c]] = c] /\ Goto(c, "browse")
     ELSE Goto(c, "awaitPages") /\ UNCHANGED owner
  /\ UNCHANGED <<inventoryVars, pages, chapter, calls, restarts, got, answer>>

LoadPages(c) ==
  /\ pc[c] = "browse"
  /\ \/ Goto(c, "store") /\ got' = [got EXCEPT ![c] = "ok"]
     \/ Goto(c, "finish") /\ got' = [got EXCEPT ![c] = "error"]
  /\ UNCHANGED <<inventoryVars, pageVars, calls, restarts, answer>>

StorePages(c) ==
  /\ pc[c] = "store"
  /\ pages' = [pages EXCEPT ![chapter[c]] = TRUE]
  /\ Goto(c, "finish")
  /\ UNCHANGED <<inventoryVars, owner, chapter, calls, restarts, got, answer>>

\* finishChapterPages.
FinishPages(c) ==
  /\ pc[c] = "finish"
  /\ owner' = [owner EXCEPT ![chapter[c]] = None]
  /\ Close(c, {d \in Callers : chapter[d] = chapter[c] /\ pc[d] = "awaitPages"})
  /\ UNCHANGED <<inventoryVars, pages, chapter, calls, restarts>>

LookAtPages(c) ==
  /\ pc[c] = "lookPages"
  /\ Return(c, IF pages[chapter[c]] THEN "ok" ELSE "error")
  /\ UNCHANGED <<inventoryVars, pageVars, calls, restarts>>

----------------------------------------------------------------------------
\* Six hours pass, or the day of the file; not between a wake-up and the look.
Lapse ==
  /\ \A a \in Actors : pc[a] \notin {"lookFresh", "lookAny", "lookPages", "save",
                                     "saving", "close", "store", "finish"}
  /\ \/ inventory = "fresh" /\ inventory' = "expired" /\ UNCHANGED <<file, pages>>
     \/ inventory # "fresh" /\ file = "good" /\ file' = "none" /\ UNCHANGED <<inventory, pages>>
     \/ \E p \in Chapters : /\ pages[p] /\ pages' = [pages EXCEPT ![p] = FALSE]
                            /\ UNCHANGED <<inventory, file>>
  /\ UNCHANGED <<loader, owner, chapter, pc, calls, restarts, got, answer>>

\* The program ends, in the middle of anything, and starts again.
Restart ==
  /\ restarts < MaxRestarts /\ restarts' = restarts + 1
  /\ inventory' = "none" /\ loader' = None
  /\ pages' = [p \in Chapters |-> FALSE] /\ owner' = [p \in Chapters |-> None]
  /\ pc' = [a \in Actors |-> "idle"] /\ got' = [a \in Actors |-> "none"]
  /\ answer' = [a \in Actors |-> "none"]
  /\ UNCHANGED <<file, chapter, calls>>

Step(a) ==
  \/ LoadInventory(a) \/ Refresh(a) \/ FetchInventory(a) \/ SaveInventory(a)
  \/ CloseInventory(a) \/ LookAtInventory(a)
  \/ CachedPages(a) \/ ClaimPages(a) \/ LoadPages(a) \/ StorePages(a)
  \/ FinishPages(a) \/ LookAtPages(a)

Next ==
  \/ \E c \in Callers : Search(c) \/ GetPages(c)
  \/ \E a \in Actors : Step(a)
  \/ CheckAsync \/ Lapse \/ Restart

Spec == Init /\ [][Next]_vars

----------------------------------------------------------------------------
TypeOK ==
  /\ pc \in [Actors -> Places]
  /\ \A a \in Actors : pc[a] \in Opening => a \in Callers
  /\ inventory \in {"none", "fresh", "expired"} /\ file \in {"none", "good", "torn"}
  /\ loader \in Actors \cup {None} /\ pages \in [Chapters -> BOOLEAN]
  /\ owner \in [Chapters -> Callers \cup {None}]
  /\ chapter \in [Callers -> Chapters \cup {None}]
  /\ got \in [Actors -> {"none", "ok", "error"}]
  /\ answer \in [Actors -> {"none", "ok", "error"}]
  /\ restarts \in 0 .. MaxRestarts
  /\ calls \in [Callers -> Nat]

\* The inventory, and the pages of a chapter, are loaded by one actor at a time.
OneLoad ==
  /\ \A a, b \in Actors : {pc[a], pc[b]} \subseteq Fetching => a = b
  /\ \A c, d \in Callers :
       {pc[c], pc[d]} \subseteq Browsing /\ chapter[c] = chapter[d] => c = d

\* Who waited for a load that succeeded finds what it loaded: nothing is
\* announced before it is stored.
WaitersShare ==
  \A c \in Callers :
    got[c] = "ok" => /\ pc[c] \in {"lookFresh", "lookAny"} => inventory = "fresh"
                     /\ pc[c] = "lookPages" => pages[chapter[c]]

\* A call is under way.
Busy(c) == pc[c] # "idle"
=============================================================================
