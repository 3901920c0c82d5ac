------------------------------ MODULE TreeShape ------------------------------
(***************************************************************************)
(* How TREE_BARRIER finds the group of a thread: STRIDE is 1 at level 0    *)
(* and GROUP times larger at each level, MASK selects the digit of the     *)
(* level in the base-GROUP numeral of the ID (GROUP is a power of two, so  *)
(* that ID & MASK is a digit), WAITER is a non-zero digit and SUBSET the   *)
(* ID with the digit cleared.  The climb ends when STRIDE >= MAX.          *)
(***************************************************************************)
EXTENDS Naturals

(* STRIDE = 1 at level 0; STRIDE *= GROUP with every LEVEL++               *)
TreeStride(group, l) ==
  LET stride[k \in Nat] == IF k = 0 THEN 1 ELSE stride[k - 1] * group
  IN  stride[l]

(* ID & MASK with MASK = (GROUP - 1) * STRIDE *)
TreeDigit(group, l, id) ==
  ((id \div TreeStride(group, l)) % group) * TreeStride(group, l)

(* SUBSET = ID & (~MASK): the master of the group, ID itself if the digit  *)
(* is zero.                                                                *)
TreeMaster(group, l, id) == id - TreeDigit(group, l, id)

(* Mutant: the climb ends at STRIDE > MAX. *)
TreeTop_Strict(group, max) ==
  CHOOSE l \in 1 .. max + 1 :
    /\ TreeStride(group, l) > max
    /\ \A k \in 1 .. l - 1 : TreeStride(group, k) <= max

(* The value of LEVEL at which STRIDE >= MAX ends the climb; the first     *)
(* test comes after LEVEL++, so it is at least 1.                          *)
TreeTop(group, max) ==
  CHOOSE l \in 1 .. max :
    /\ TreeStride(group, l) >= max
    /\ \A k \in 1 .. l - 1 : TreeStride(group, k) < max

=============================================================================
