----------------------------- MODULE MCTransfer -----------------------------
(* Instances of Transfer for TLC.                                          *)
EXTENDS Transfer

CONSTANTS s1, s2, s3, t1, t2

MCSlugs == {s1, s2, s3}

Put(slug, pos, score, tier) == [slug |-> slug, pos |-> pos, score |-> score, tier |-> tier]

Board(type, dir, tiers) == [type |-> type, dir |-> dir, tiers |-> tiers]

OneTier == [t \in {t1} |-> 1]
TwoTiers == [t \in {t1, t2} |-> 1]

AllConfigs == {Board("ordered", "desc", None), Board("scored", "desc", None),
               Board("tiered", "desc", TwoTiers)}

MCTiers == {t1, t2}

AllTierConfigs == {None, OneTier, TwoTiers}

(* Both directions, and a tier that is taken away.                         *)
AllPatches == {[dir |-> "asc", tiers |-> TwoTiers], [dir |-> "desc", tiers |-> TwoTiers],
               [dir |-> "desc", tiers |-> OneTier]}

AllLists == {<<Put(s1, None, 1, t1), Put(s2, None, 2, t1), Put(s3, None, 2, t2)>>,
             <<Put(s2, None, 2, t1), Put(s1, None, 1, t2)>>,
             <<Put(s1, 2, 3, t2), Put(s2, 1, 2, t2)>>,
             <<Put(s2, None, 2, t2), Put(s1, None, 1, t1)>>,
             <<Put(s2, None, 1, t2), Put(s3, 3, 3, t1)>>,
             <<Put(s1, None, None, None)>>}
=============================================================================
