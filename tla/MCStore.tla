------------------------------ MODULE MCStore ------------------------------
(* Instances of Store for TLC.                                             *)
EXTENDS Store, TLC

CONSTANTS s1, s2, t1, t2, b1, b2

MCSlugs == {s1, s2}
MCBoardIds == {b1, b2}
MCTiers == {t1, t2}
MCTierConfigs == {None, t1 :> 1, t2 :> 1}
Place(slug, score, tier) == [slug |-> slug, pos |-> None, score |-> score, tier |-> tier]

Board(type, accum, tiers) == [type |-> type, accum |-> accum, dir |-> "desc", tiers |-> tiers]

(* Boards written directly: a scored one and a tiered one.                 *)
DirectConfigs == {Board("scored", FALSE, (t1 :> 1)), Board("tiered", FALSE, (t1 :> 1))}

DirectLists == {<<Place(s1, 1, t1), Place(s2, 2, t1)>>, <<Place(s1, 2, None)>>}

(* The second takes away the tier the lists use.                           *)
DirectPatches == {[dir |-> "asc", tiers |-> Absent], [dir |-> Absent, tiers |-> (t2 :> 1)]}

(* Boards that accumulate scores.                                          *)
AccumConfigs == {Board("scored", TRUE, None)}
NoLists == {}
NoScores == {}
NoPatches == {}

Symmetry == Permutations(Handlers)
=============================================================================
