-------------------------- MODULE MCTreeBarrierTSO ---------------------------
(* TREE_BARRIER with groups of GROUP threads on MAX threads and store      *)
(* buffers.                                                                *)
EXTENDS GroupBarrierTSO, TreeShape

CONSTANT GROUP

MCTop == TreeTop(GROUP, MAX)
MCMaster == [l \in 0 .. MCTop - 1 |-> [t \in 0 .. MAX - 1 |-> TreeMaster(GROUP, l, t)]]
MCStride == [l \in 0 .. MCTop - 1 |-> TreeStride(GROUP, l)]
MCSetSize == [l \in 0 .. MCTop - 1 |-> GROUP]

=============================================================================
