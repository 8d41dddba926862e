------------------------------- MODULE MCSync -------------------------------
(* Instances of Sync for TLC.                                              *)
EXTENDS Sync, TLC

CONSTANTS s1, s2, t1, t2

BothTiers == (t1 :> 1) @@ (t2 :> 2)

AllTierConfigs == {None, (t1 :> 1), (t2 :> 1), BothTiers}

Put(slug, pos, score, tier) == [slug |-> slug, pos |-> pos, score |-> score, tier |-> tier]

Board(type, dir, tiers, list) ==
    [type |-> type, dir |-> dir, tiers |-> tiers, list |-> list, accum |-> FALSE]

Scored(dir, list) == Board("scored", dir, None, list)
Ordered(list) == Board("ordered", "desc", None, list)
Tiered(tiers, list) == Board("tiered", "desc", tiers, list)

TwoScores == <<Put(s1, None, 1, None), Put(s2, None, 2, None)>>
Upside == <<Put(s1, 1, 1, None), Put(s2, 2, 2, None)>>
Tie == <<Put(s1, None, 2, None), Put(s2, None, 2, None)>>

(* Boards of the three types with lists the sync accepts, whose direction, *)
(* order, scores or tiers change.                                          *)
ValidFiles == {Scored("asc", TwoScores), Scored("desc", TwoScores), Scored("asc", Tie),
               Scored("desc", Upside),
               Ordered(TwoScores), Ordered(<<Put(s1, 2, 1, None), Put(s2, 1, 2, None)>>),
               Tiered((t1 :> 1), <<Put(s1, None, None, t1)>>),
               Tiered(BothTiers, <<Put(s1, None, None, t1), Put(s2, None, None, t2)>>),
               Tiered(BothTiers, <<Put(s1, None, None, t2), Put(s2, None, None, t2)>>)}

(* Files that a statement of the sync rejects, that skip or that are empty.*)
OtherFiles == {Scored("desc", <<Put(s1, None, NotFinite, None)>>),
               Scored("desc", << >>), Scored("up", TwoScores),
               Ordered(<<Put(s1, None, 1, None), Put(s1, None, 1, None)>>),
               Board("ordered", "asc", None, TwoScores),
               Tiered((t2 :> 1), <<Put(s1, None, None, t1)>>),
               [Scored("desc", TwoScores) EXCEPT !.accum = TRUE]}

AllFiles == ValidFiles \cup OtherFiles

Symmetry == Permutations(Syncers)
=============================================================================
