--------------------------- MODULE MC_TopoLevels ---------------------------
(***************************************************************************)
(* Every plan of three nodes whose deps() slices have at most two entries, *)
(* each a node (before, after or the node itself) or the id 3, which the   *)
(* plan does not have: chains, diamonds with a shortcut, duplicates,       *)
(* self-dependencies, cycles with and without a tail.                      *)
(***************************************************************************)
EXTENDS TopoLevels

DepIds == 0 .. 3
DepLists == {<<>>} \cup {<<d>> : d \in DepIds} \cup (DepIds \X DepIds)
SmallPlans == [0 .. 2 -> DepLists]

=============================================================================
