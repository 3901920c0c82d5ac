---------------------------- MODULE BarrierShapes -----------------------------
(***************************************************************************)
(* The tables of TREE_BARRIER for every number of threads its arrays hold  *)
(* (256) and those of USER_BARRIER for every number its INIT accepts (24): *)
(* the behaviours step through the sizes, the invariants judge each size.  *)
(* This is what GroupBarrier assumes of its tables.                        *)
(***************************************************************************)
EXTENDS Naturals, TreeShape, UserShape

CONSTANTS
  GROUP,      \* threads of a group of TREE_BARRIER
  MaxTree,    \* threads its arrays have room for
  WIDTH,      \* threads of a group of USER_BARRIER
  Levels      \* rows of FLAG and COUNT

ASSUME ShapeAssumption ==
  /\ GROUP \in Nat \ {0, 1} /\ MaxTree \in Nat \ {0} /\ WIDTH \in Nat \ {0}
  /\ Levels \in Nat \ {0, 1} /\ MaxTree <= TreeStride(GROUP, Levels)

VARIABLE shape

Tables(kind, max, top, master(_, _), stride(_), setsize(_)) ==
  [kind |-> kind, max |-> max, top |-> top,
   master |-> [l \in 0 .. top - 1 |-> [t \in 0 .. max - 1 |-> master(l, t)]],
   stride |-> [l \in 0 .. top - 1 |-> stride(l)],
   setsize |-> [l \in 0 .. top - 1 |-> setsize(l)]]

TreeTables(max) ==
  Tables("tree", max, TreeTop(GROUP, max), LAMBDA l, t : TreeMaster(GROUP, l, t),
         LAMBDA l : TreeStride(GROUP, l), LAMBDA l : GROUP)
UserTables(max) ==
  Tables("user", max, UserTop(WIDTH, max), LAMBDA l, t : UserMaster(WIDTH, l, t),
         LAMBDA l : UserStride(WIDTH, l), LAMBDA l : UserSet(WIDTH, l))

Init == shape \in {TreeTables(1), UserTables(1)}

GrowTree ==
  /\ shape.kind = "tree" /\ shape.max < MaxTree
  /\ shape' = TreeTables(shape.max + 1)

GrowUser ==
  /\ shape.kind = "user" /\ shape.max < 2 * WIDTH
  /\ shape' = UserTables(shape.max + 1)

Next == GrowTree \/ GrowUser

Spec == Init /\ [][Next]_shape

Groups == INSTANCE GroupTree WITH
  MAX <- shape.max, TOP <- shape.top,
  MASTER <- shape.master, STRIDE <- shape.stride, SETSIZE <- shape.setsize

(* The groups form a tree with thread 0 at its root and no thread is left  *)
(* out of, or collected twice by, the group loops: the assumption under    *)
(* which the barrier separates rounds.                                     *)
GroupsFormATree == Groups!IsTable /\ Groups!IsTree

(* The climb never needs more levels than FLAG and COUNT have rows.        *)
LevelsFit == shape.top <= Levels

=============================================================================
