------------------------------ MODULE UserShape ------------------------------
(***************************************************************************)
(* The tables USER_BARRIER_INIT fills: two groups of `width' threads       *)
(* (cores, 12 in the source) with masters 0 and `width', which meet at     *)
(* level 1.  The entries of level 1 that INIT leaves alone belong to       *)
(* threads that never reach level 1; they are 0 as in zeroed storage.      *)
(***************************************************************************)
EXTENDS Naturals

(* Mutant: the second group begins one thread late. *)
UserMaster_Late(width, l, id) == IF l = 0 /\ id > width THEN width ELSE 0

UserMaster(width, l, id) == IF l = 0 /\ id >= width THEN width ELSE 0
UserSet(width, l) == IF l = 0 THEN width ELSE 2
UserStride(width, l) == IF l = 0 THEN 1 ELSE width

(* `max', the number of levels.  More than 2 * width threads: exit (-1).   *)
UserTop(width, max) == IF max <= width THEN 1 ELSE 2

=============================================================================
