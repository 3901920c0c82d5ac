---------------------------- MODULE MCUserBarrier ----------------------------
(* USER_BARRIER with groups of WIDTH threads on MAX <= 2 * WIDTH threads.  *)
EXTENDS GroupBarrier, UserShape

CONSTANT WIDTH

MCTop == UserTop(WIDTH, MAX)
MCMaster == [l \in 0 .. MCTop - 1 |-> [t \in 0 .. MAX - 1 |-> UserMaster(WIDTH, l, t)]]
MCStride == [l \in 0 .. MCTop - 1 |-> UserStride(WIDTH, l)]
MCSetSize == [l \in 0 .. MCTop - 1 |-> UserSet(WIDTH, l)]

=============================================================================
