---------------------------- MODULE MCDownloads ----------------------------
(* Two downloads of the same episode, so one file; until the second starts *)
(* the first has it alone.                                                 *)
EXTENDS Downloads, TLC

CONSTANTS d1, d2, p1

MCIds    == {d1, d2}
MCPaths  == {p1}
Symmetry == Permutations(MCIds)
=============================================================================
