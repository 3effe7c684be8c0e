----------------------------- MODULE MCLibrary -----------------------------
(* A scan of two files in one folder, beside GetAnimeList over an entry an  *)
(* earlier import has left with a cover and no blurhash.                   *)
EXTENDS Library, TLC

CONSTANTS imp, scan, list, repair, h1, s1, Shelf

ListTasks   == {imp, scan, list}
ListKind    == imp :> "import" @@ scan :> "scan" @@ list :> "animes"
ListFilesOf == imp :> <<1>> @@ scan :> <<1>> @@ list :> <<>>
ListDir     == 1 :> <<Shelf>>
ListRoot    == [t \in ListTasks |-> ListDir]
OneVideo    == {1}
OneNumber   == 1 :> 0
OneHint     == 1 :> <<h1>>
ListMatch   == h1 :> None
NoNames     == <<>>
=============================================================================
