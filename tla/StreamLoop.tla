----------------------------- MODULE StreamLoop ------------------------------
(***************************************************************************)
(* The assembly kernels of the generic CPU benchmark that read an array    *)
(* once: uBench_ReadMemory_Sequential_*, _SemiSequential_* and _2KRandom_* *)
(* of x64-sequential.asm, k1om-sequential.asm, arm-sequential.asm,         *)
(* x64-random.asm, k1om-random.asm and arm-random.asm.  They share a loop: *)
(* the size of a block is subtracted from the bytes left before the first  *)
(* turn and after every one, and added again when that has borrowed; what  *)
(* is left then must be nothing, or is read word by word.                  *)
(*                                                                         *)
(* One turn reads one block; the order of the loads within it, which the   *)
(* 2KRandom kernels shuffle, is left out, as are prefetches.               *)
(***************************************************************************)
EXTENDS Integers, FiniteSets

CONSTANTS
  Turns,     \* sizes of up to so many blocks, and some words more
  Width      \* bits of the register that counts the bytes

(* The kernels: bytes of a block, bytes of a load, whether half of the     *)
(* loads come from the end of the array, and whether words left over are   *)
(* read.  Kernels that differ in prefetching alone are one.                *)
Entry(name, block, load, semi, tail) ==
  [name |-> name, block |-> block, load |-> load, semi |-> semi, tail |-> tail]

X64Sequential ==
  { Entry("AVX", 256, 32, FALSE, FALSE), Entry("SSE", 256, 16, FALSE, FALSE),
    Entry("MMX", 64, 8, FALSE, FALSE) }

X64SemiSequential ==
  { Entry("AVX", 256, 32, TRUE, FALSE), Entry("SSE", 128, 16, TRUE, FALSE) }

X64SemiMMX == {Entry("MMX", 64, 8, TRUE, FALSE)}

KNC == {Entry("KNC", 256, 64, semi, FALSE) : semi \in BOOLEAN}

ArmLDR == {Entry("LDR", 48 * n, 4, FALSE, TRUE) : n \in {1, 2, 4, 8}}

ArmLDM ==
  {Entry("LDM", 48, 48, FALSE, TRUE)}
    \union {Entry("LDM", 32 * n, 32, FALSE, FALSE) : n \in {1, 2, 4}}

ArmVector ==
  {Entry(v[1], 256, v[2], FALSE, FALSE) : v \in {<<"VLDR", 8>>, <<"VLDM", 64>>, <<"VLD1", 32>>}}

ArmSemi == {Entry("VLDR", 256, 8, TRUE, FALSE), Entry("VLDM", 256, 128, TRUE, FALSE)}

(* Those whose loads from the end begin with the bytes at its address. *)
ArmSemiAtEnd ==
  { Entry("LDR", 32, 4, TRUE, FALSE), Entry("LDM", 32, 16, TRUE, FALSE),
    Entry("VLD1", 256, 32, TRUE, FALSE) }

Random2K == {Entry("2KRandom", 2048, 4, FALSE, FALSE)}

(* The kernels whose addresses are off. *)
Misplaced == X64SemiMMX \union ArmSemiAtEnd

Kernels ==
  UNION { X64Sequential, X64SemiSequential, KNC, ArmLDR, ArmLDM, ArmVector, ArmSemi,
          Random2K, Misplaced }

(* The register holds the size of the array. *)
Parameters ==
  /\ Turns \in Nat \ {0} /\ Width \in Nat
  /\ \A k \in Kernels : k.block * Turns + 8 < 2 ^ Width

VARIABLES
  kernel, bytes,
  left,           \* rsi, r1
  front, back,    \* rdi, r0 and rdx, r2, relative to the array
  pc,
  reads           \* history: how often each word was read, by its address

vars == <<kernel, bytes, left, front, back, pc, reads>>

Sizes(k) == {k.block * n + extra : n \in 0 .. Turns, extra \in {0, 4, 8}}

(* The words of the array, and those next to it. *)
Near(size) == {4 * x : x \in -64 .. (size \div 4) + 63}

(* SUB sets the carry flag if it borrows. *)
Sub(n, d) == (n - d + 2 ^ Width) % 2 ^ Width
Borrows(n, d) == n < d

Init ==
  /\ kernel \in Kernels
  /\ bytes \in Sizes(kernel)
  /\ left = bytes
  /\ front = 0 /\ back = bytes
  /\ pc = "enter"
  /\ reads = [a \in Near(bytes) |-> 0]

(* SUB rsi, 256; JB .restore *)
EntersLoop == ~Borrows(left, kernel.block)

Enter ==
  /\ pc = "enter"
  /\ left' = Sub(left, kernel.block)
  /\ pc' = IF EntersLoop THEN "loop" ELSE "restore"
  /\ UNCHANGED <<kernel, bytes, front, back, reads>>

Loads == 0 .. kernel.block \div kernel.load - 1
Half == Cardinality(Loads) \div 2

(* The addresses of the loads of a turn.  All but the first load of the    *)
(* SemiSequential MMX kernel are relative to the front; LDR and VLD1       *)
(* decrement the address after the load, LDMDA likewise by words.          *)
FrontLoads ==
  IF ~kernel.semi THEN {front + i * kernel.load : i \in Loads}
  ELSE {front + i * kernel.load : i \in 0 .. Half - 1}
         \union (IF kernel \in X64SemiMMX THEN {front - i * 8 : i \in 2 .. 4} ELSE {})

BackLoads ==
  IF ~kernel.semi THEN {}
  ELSE IF kernel \in X64SemiMMX THEN {back - 8}
  ELSE LET End == IF kernel \notin ArmSemiAtEnd THEN back
                  ELSE IF kernel.name = "LDM" THEN back + 4 ELSE back + kernel.load
       IN  {End - i * kernel.load : i \in 1 .. Half}

Covers(loads, a) == Cardinality({x \in loads : a \in x .. x + kernel.load - 1})

(* ADD rdi, rdx, or half of it where two pointers share the block *)
Moved == IF kernel.semi THEN kernel.block \div 2 ELSE kernel.block

(* One turn, with SUB rsi, 256; JAE .process_256 at its end. *)
Turn ==
  /\ pc = "loop"
  /\ reads' = [a \in Near(bytes) |-> reads[a] + Covers(FrontLoads, a) + Covers(BackLoads, a)]
  /\ front' = front + Moved
  /\ back' = IF kernel.semi THEN back - Moved ELSE back
  /\ left' = Sub(left, kernel.block)
  /\ pc' = IF Borrows(left, kernel.block) THEN "restore" ELSE "loop"
  /\ UNCHANGED <<kernel, bytes>>

(* Mutant: what is left is not looked at. *)
Rest_None == 0

(* ADD rsi, 256 *)
Rest == (left + kernel.block) % 2 ^ Width

(* JE .finish; INT 3, or BEQ 4f *)
Restore ==
  /\ pc = "restore"
  /\ left' = Rest
  /\ pc' = IF Rest = 0 THEN "finish" ELSE IF kernel.tail THEN "tail" ELSE "trap"
  /\ UNCHANGED <<kernel, bytes, front, back, reads>>

(* LDR ip, [r0], #4; SUBS r1, #4; BNE 3b *)
Tail ==
  /\ pc = "tail"
  /\ reads' = [reads EXCEPT ![front] = @ + 1]
  /\ front' = front + 4
  /\ left' = Sub(left, 4)
  /\ pc' = IF Sub(left, 4) = 0 THEN "finish" ELSE "tail"
  /\ UNCHANGED <<kernel, bytes, back>>

Next == Enter \/ Turn \/ Restore \/ Tail \/ (pc \in {"finish", "trap"} /\ UNCHANGED vars)

Spec == Init /\ [][Next]_vars

-----------------------------------------------------------------------------

TypeOK ==
  /\ kernel \in Kernels /\ bytes \in Sizes(kernel)
  /\ left \in 0 .. 2 ^ Width - 1
  /\ front \in 0 .. bytes /\ back \in 0 .. bytes
  /\ pc \in {"enter", "loop", "restore", "tail", "finish", "trap"}
  /\ \A a \in Near(bytes) : reads[a] \in Nat

(* No kernel reads outside the array.                                      *)
InArray == \A a \in Near(bytes) : a \notin 0 .. bytes - 1 => reads[a] = 0

(* A kernel that returns has read every word of the array, and none twice: *)
(* the bandwidth is the size of the array divided by the time.             *)
ReadsOnce == pc = "finish" => \A a \in Near(bytes) : a \in 0 .. bytes - 1 => reads[a] = 1

=============================================================================
