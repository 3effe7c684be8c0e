-------------------------- MODULE MCMetadataGateway --------------------------
(* Three calls over two AniList queries.                                   *)
EXTENDS MetadataGateway, TLC

CONSTANTS r1, r2, r3, a1, a2

MCRequests == {r1, r2, r3}
Pair       == {a1, a2}
Symmetry   == Permutations(MCRequests)
=============================================================================
