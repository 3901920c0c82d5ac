---------------------------- MODULE PointerChase ----------------------------
(***************************************************************************)
(* The pointer-chasing benchmark of generic/random-and-cache/main.cpp: the *)
(* array is initialised so that each element holds the index drawn after   *)
(* its own, and uBench_ReadMemory_12PointerChasing follows it from twelve  *)
(* places at once, one load each per iteration.  An index is the word of   *)
(* XorShift; element 0 has an index but is never drawn.                    *)
(***************************************************************************)
EXTENDS XorShift

CONSTANT Sizes    \* log2 of array_length; 25 in the source

Parameters == Sizes \subseteq 4 .. 30

VARIABLES
  bits,            \* log2 of array_length, and the bits of the generator
  pc,
  i,               \* draws made, then iterations of the chase made
  state,           \* the generator
  prevIndex,
  data,
  initialVector,   \* where the chasers start
  at               \* the twelve registers

vars == <<bits, pc, i, state, prevIndex, data, initialVector, at>>

array_length == 2 ^ bits
Chaser == 0 .. 11

(* The word of a number. *)
Index(n) == {k \in 0 .. bits - 1 : (n \div 2 ^ k) % 2 = 1}

(* class XorShift at this size; row 17 is not among the sizes checked.     *)
Shift == CHOOSE s \in ClassShifts(bits) : TRUE

(* memset, data[0] = 1, prevIndex = 1 and XorShift(1u, 25). *)
Init ==
  /\ bits \in Sizes
  /\ pc = "fill"
  /\ i = 0
  /\ state = One
  /\ prevIndex = One
  /\ data = [[w \in Word(bits) |-> {}] EXCEPT ![{}] = One]
  /\ initialVector = [c \in Chaser |-> {}]
  /\ at = [c \in Chaser |-> {}]

(* Mutant: as many draws as the GPU hosts make. *)
DrawsLeft_TwoLess == i < array_length - 2

DrawsLeft == i < array_length

(* index = rng.next(); data[prevIndex] = index; prevIndex = index *)
Fill ==
  /\ pc = "fill" /\ DrawsLeft
  /\ i' = i + 1
  /\ state' = Draw(Shift, bits, state)
  /\ data' = [data EXCEPT ![prevIndex] = state']
  /\ prevIndex' = state'
  /\ UNCHANGED <<bits, pc, initialVector, at>>

(* initialVector[i] = (array_length / 12) * i + 1, loaded into registers.  *)
Place ==
  /\ pc = "fill" /\ ~DrawsLeft
  /\ pc' = "chase"
  /\ i' = 0
  /\ initialVector' = [c \in Chaser |-> Index((array_length \div 12) * c + 1)]
  /\ at' = initialVector'
  /\ UNCHANGED <<bits, state, prevIndex, data>>

(* One iteration: twelve loads, SUB rdi, 1, JNZ .loop *)
Chase ==
  /\ pc = "chase"
  /\ at' = [c \in Chaser |-> data[at[c]]]
  /\ i' = i + 1
  /\ pc' = IF i' = array_length THEN "done" ELSE "chase"
  /\ UNCHANGED <<bits, state, prevIndex, data, initialVector>>

Next == Fill \/ Place \/ Chase \/ (pc = "done" /\ UNCHANGED vars)

Spec == Init /\ [][Next]_vars

-----------------------------------------------------------------------------

TypeOK ==
  /\ bits \in Sizes
  /\ pc \in {"fill", "chase", "done"}
  /\ i \in 0 .. array_length
  /\ state \in Word(bits) /\ prevIndex \in Word(bits)
  /\ data \in [Word(bits) -> Word(bits)]
  /\ initialVector \in [Chaser -> Word(bits)]
  /\ at \in [Chaser -> Word(bits)]

(* The chain is a single cycle: a chaser is back where it started after    *)
(* array_length - 1 loads, and at no time before, so it has been at every  *)
(* element but 0 and its working set is the whole array.                   *)
OneCycle ==
  pc # "fill" => \A c \in Chaser : at[c] = initialVector[c] <=> i \in {0, array_length - 1}

(* No two chasers ever load the same element in the same iteration: one    *)
(* would be served by the other's cache line.                              *)
Apart == pc # "fill" => \A c, d \in Chaser : at[c] = at[d] => c = d

=============================================================================
