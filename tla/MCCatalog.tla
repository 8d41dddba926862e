----------------------------- MODULE MCCatalog ------------------------------
(***************************************************************************)
(* Instance of Catalog: two boards that exist together or after each other *)
(* under one slug, two collections that share a slug, two requests; the    *)
(* references do not depend on each other, so there is one.                *)
(***************************************************************************)
EXTENDS Catalog, TLC

CONSTANTS b1, b2, c1, c2, i1, x, y, s, v1, v2, r1, r2

MCBoardIds   == {b1, b2}
MCCollIds    == {c1, c2}
MCRefIds     == {i1}
MCBoardSlugs == {x, y}
MCCollSlugs  == {s}
MCValues     == {v1, v2}
MCRequests   == {r1, r2}
MCSymmetry   == Permutations(MCBoardIds) \cup Permutations(MCBoardSlugs)
                \cup Permutations(MCCollIds) \cup Permutations(MCRequests)
                \cup Permutations(MCValues)
=============================================================================
