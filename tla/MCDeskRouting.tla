--------------------------- MODULE MCDeskRouting ---------------------------
(***************************************************************************)
(* Instances of DeskRouting for TLC.  Pools are scaled to one or two slots *)
(* so that they fill up, overflow and leave mixes past the end.            *)
(***************************************************************************)
EXTENDS DeskRouting, TLC

SmallPools(n) == [p \in Pools |-> n]

MCCapacity == [m \in RealModels |-> 
    CASE m = "x32" -> [SmallPools(1) EXCEPT !["bus"] = 2]
      [] m = "lv1_16" -> [SmallPools(1) EXCEPT !["subgroup"] = 0, !["monitor"] = 0]
      [] m = "lv1_80m" -> [SmallPools(1) EXCEPT !["monitor"] = 2]
      [] OTHER -> SmallPools(2)]

NoTracks == [m \in RealModels |-> 0]

MCTrackCount == [m \in RealModels |-> IF m = "x32" THEN 2 ELSE 1]

Symmetry == Permutations(Consoles) \cup Permutations(Channels) \cup Permutations(Outputs)
=============================================================================
