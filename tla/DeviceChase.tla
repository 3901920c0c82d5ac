----------------------------- MODULE DeviceChase -----------------------------
(***************************************************************************)
(* The random-access benchmark of the GPU hosts: gpu/amd/hd7340/random.cpp,*)
(* gpu/arm/mali_t-604/jni/random.cpp and jeerandmem.cu of both NVIDIA      *)
(* cards.  The host links the elements of an array of any size N with      *)
(* N - 2 draws, element 0 in front, and copies it to the device; work item *)
(* id starts at input[id], makes nIter further loads and stores where it   *)
(* has come to in output[id]; the host follows the same chains and counts  *)
(* the items that differ.                                                  *)
(*                                                                         *)
(* h_Input comes from malloc and is not cleared.  The arrays are large     *)
(* enough (4 MB and more) for malloc to map fresh pages, which hold zeros, *)
(* and no large block has been freed before: Init says so.                 *)
(***************************************************************************)
EXTENDS XorShift

CONSTANTS
  Hosts,      \* "opencl" and "cuda"
  Sizes,      \* the values of arraySize
  Threads,    \* the numbers of threads asked for
  bSize,
  nIter

Parameters ==
  /\ Hosts \subseteq {"opencl", "cuda"}
  /\ Sizes \subseteq 16 .. 2 ^ 20
  /\ Threads \subseteq Nat \ {0} /\ bSize \in Nat \ {0} /\ nIter \in Nat

VARIABLES
  host,       \* the program
  N,          \* arraySize
  shifter,    \* the shift amounts of the generator
  nThreads,
  pc,         \* the host
  i, index,   \* the initialisation loop
  input,      \* h_Input, and d_Input from the copy on
  temp,       \* temp[id]: the register of work item id
  loads,      \* loads[id]: loads it has made
  output,     \* d_Output
  diffCount

vars == <<host, N, shifter, nThreads, pc, i, index, input, temp, loads, output, diffCount>>

(* (uint32_t) Log2 (N), the fraction cut off. *)
nBits == CHOOSE b \in 4 .. 30 : 2 ^ b <= N /\ N < 2 ^ (b + 1)

(* findShifter.  Of an array of 2^17 elements the CUDA program leaves the  *)
(* third amount as it was, and nobody has set it.                          *)
Shifters(program, bits) == IF program = "cuda" THEN CudaShifts(bits) ELSE OpenCLShifts(bits)

(* Element n of the array, as the word an index is.                        *)
Element(n) == {k \in 0 .. 20 : (n \div 2 ^ k) % 2 = 1}
Array == {Element(n) : n \in 0 .. N - 1}

(* The grid: CUDA rounds up to whole blocks and the kernel does not look   *)
(* at nThreads; clEnqueueNDRangeKernel wants a multiple of the block.      *)
Blocks == (nThreads + bSize - 1) \div bSize
Accepted == host = "cuda" \/ nThreads % bSize = 0
Item == IF host = "cuda" THEN 0 .. Blocks * bSize - 1 ELSE 0 .. nThreads - 1

Zero == {}

Init ==
  /\ host \in Hosts /\ N \in Sizes
  /\ shifter \in Shifters(host, nBits)
  /\ nThreads \in Threads
  /\ pc = "fill"
  /\ i = 0
  /\ index = One
  /\ input = [[e \in Array |-> Zero] EXCEPT ![Zero] = One]
  /\ temp = [id \in Item |-> Zero]
  /\ loads = [id \in Item |-> 0]
  /\ output = [id \in 0 .. nThreads - 1 |-> Zero]
  /\ diffCount = 0

(* Mutant: one draw more, so that the last link closes on 1. *)
DrawsLeft_OneMore == i < N - 1

(* for(i = 0; i < arraySize - 2; i++) *)
DrawsLeft == i < N - 2

(* temp = index; index is drawn; h_Input[temp] = index *)
Fill ==
  /\ pc = "fill" /\ DrawsLeft
  /\ i' = i + 1
  /\ index' = Draw(shifter, nBits, index)
  /\ input' = [input EXCEPT ![index] = index']
  /\ UNCHANGED <<host, N, shifter, nThreads, pc, temp, loads, output, diffCount>>

(* The copy to the device and the launch; a failed launch ends the program.*)
Launch ==
  /\ pc = "fill" /\ ~DrawsLeft
  /\ pc' = IF Accepted THEN "kernel" ELSE "exit"
  /\ UNCHANGED <<host, N, shifter, nThreads, i, index, input, temp, loads, output, diffCount>>

(* temp = input[id], then nIter times temp = input[temp]. *)
Load(id) ==
  /\ pc = "kernel"
  /\ loads[id] <= nIter
  /\ temp' = [temp EXCEPT ![id] = input[IF loads[id] = 0 THEN Element(id) ELSE temp[id]]]
  /\ loads' = [loads EXCEPT ![id] = @ + 1]
  /\ UNCHANGED <<host, N, shifter, nThreads, pc, i, index, input, output, diffCount>>

(* output[id] = temp *)
Store(id) ==
  /\ pc = "kernel"
  /\ loads[id] = nIter + 1
  /\ output' = [output EXCEPT ![id] = temp[id]]
  /\ loads' = [loads EXCEPT ![id] = @ + 1]
  /\ UNCHANGED <<host, N, shifter, nThreads, pc, i, index, input, temp, diffCount>>

(* The host's own walk along the chain of item id. *)
Walk(id) ==
  LET w[n \in 0 .. nIter] == IF n = 0 THEN input[Element(id)] ELSE input[w[n - 1]]
  IN  w[nIter]

(* Mutant: the results are read before the kernel is through. *)
Verify_Early ==
  /\ pc = "kernel"
  /\ \E id \in Item : loads[id] = nIter + 2
  /\ \E bad \in SUBSET (0 .. nThreads - 1) :
       /\ \A id \in 0 .. nThreads - 1 : id \in bad <=> Walk(id) # output[id]
       /\ diffCount' = IF bad = {} THEN 0 ELSE 1
  /\ pc' = "done"
  /\ UNCHANGED <<host, N, shifter, nThreads, i, index, input, temp, loads, output>>

(* clFinish or cudaThreadSynchronize, the copy back and the comparison.    *)
Verify ==
  /\ pc = "kernel"
  /\ \A id \in Item : loads[id] = nIter + 2
  /\ \E bad \in SUBSET (0 .. nThreads - 1) :
       /\ \A id \in 0 .. nThreads - 1 : id \in bad <=> Walk(id) # output[id]
       /\ diffCount' = IF bad = {} THEN 0 ELSE 1
  /\ pc' = "done"
  /\ UNCHANGED <<host, N, shifter, nThreads, i, index, input, temp, loads, output>>

Next ==
  \/ Fill \/ Launch \/ Verify
  \/ \E id \in Item : Load(id) \/ Store(id)
  \/ pc \in {"done", "exit"} /\ UNCHANGED vars

Spec == Init /\ [][Next]_vars

-----------------------------------------------------------------------------

TypeOK ==
  /\ host \in Hosts /\ N \in Sizes
  /\ shifter \in Shifters(host, nBits)
  /\ nThreads \in Threads
  /\ pc \in {"fill", "kernel", "done", "exit"}
  /\ i \in 0 .. N
  /\ index \in Word(nBits)
  /\ input \in [Array -> Array]
  /\ temp \in [Item -> Array]
  /\ loads \in [Item -> 0 .. nIter + 2]
  /\ output \in [0 .. nThreads - 1 -> Array]
  /\ diffCount \in {0, 1}

(* What an item loads from and stores to lies in the arrays: the grid and  *)
(* the links stay inside what was allocated.  The grid of CUDA does not if *)
(* the threads do not fill the last block.                                 *)
InBounds ==
  pc = "kernel" =>
    /\ \A id \in Item : Element(id) \in Array /\ temp[id] \in Array
    /\ (\A id \in Item : id < nThreads) <=> (host = "opencl" \/ nThreads % bSize = 0)

(* The chain closes through element 0, which no draw returns, into a cycle *)
(* over the whole array: an item comes back to the first element it loaded *)
(* from after N loads, and at no time before.                              *)
OneCycle ==
  pc = "kernel" /\ N = 2 ^ nBits =>
    \A id \in Item : loads[id] \in 1 .. nIter + 1 =>
      (temp[id] = Element(id) <=> loads[id] % N = 0)

(* Of an array of any other size, no item ever gets beyond the largest     *)
(* power of two in it.                                                     *)
Confined == pc = "kernel" => \A id \in Item : temp[id] \in Word(nBits)

(* Whatever the order in which the work items run, the host's check finds  *)
(* nothing.                                                                *)
Verified == pc = "done" => diffCount = 0

=============================================================================
