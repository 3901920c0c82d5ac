----------------------------- MODULE SharedChase -----------------------------
(***************************************************************************)
(* The shared-memory benchmark (jeesmtest.cu, sm_kernel.cu) and the cache  *)
(* benchmark (jeecachetest.cu, cache_kernel.cu) of both NVIDIA cards.  A   *)
(* thread loads its link from the array in global memory, in the           *)
(* shared-memory kernels puts it into the block's shared array, and then   *)
(* follows the chain.  Of the thirteen shared-memory kernels only the      *)
(* first and the last have a __syncthreads between the put and the chain.  *)
(*                                                                         *)
(* The threads of a block run at their own pace.  (Those of one warp run   *)
(* in step; a thread here is a warp of the device.)                        *)
(***************************************************************************)
EXTENDS Integers, FiniteSets

CONSTANTS
  Kinds,     \* "sm" and "cache"
  Words,     \* the values of wordsPerThread
  nThreads,
  bSize

ASSUME ChaseAssumption ==
  /\ Kinds \subseteq {"sm", "cache"}
  /\ Words \subseteq Nat \ {0}
  /\ nThreads \in Nat \ {0} /\ bSize \in Nat \ {0}

Thread == 0 .. ((nThreads + bSize - 1) \div bSize) * bSize - 1
threadIdx(t) == t % bSize
Block(t) == t \div bSize
Word == 0 .. bSize - 1
Garbage == -1     \* shared memory no thread of the block has written

VARIABLES
  kind, wordsPerThread,
  pc,        \* per thread
  tmp,       \* per thread
  loads,     \* per thread: loads made, the first included
  s,         \* per block: the shared array
  out,
  errors     \* what validateResults finds; -1 before it has run

vars == <<kind, wordsPerThread, pc, tmp, loads, s, out, errors>>

(* Mutant: a chain that goes through the block. *)
Chase_Next(i) == (i + 1) % bSize

(* Mutant: the last link is not closed. *)
Chase_Open(i) == i + 1

(* h_pchase[i] = i, for every i: each link leads back to itself. *)
Chase(i) == i

Synchronized == kind = "sm" /\ wordsPerThread \in {1, 4096}

Init ==
  /\ kind \in Kinds
  /\ wordsPerThread \in Words
  /\ pc = [t \in Thread |-> "load"]
  /\ tmp = [t \in Thread |-> 0]
  /\ loads = [t \in Thread |-> 0]
  /\ s = [t \in Thread |-> [i \in Word |-> Garbage]]
  /\ out = [t \in 0 .. nThreads - 1 |-> 0]
  /\ errors = -1

(* tmp = chase[threadIdx.x] *)
Load(t) ==
  /\ pc[t] = "load"
  /\ tmp' = [tmp EXCEPT ![t] = Chase(threadIdx(t))]
  /\ loads' = [loads EXCEPT ![t] = 1]
  /\ pc' = [pc EXCEPT ![t] = IF kind = "sm" THEN "put" ELSE "chase"]
  /\ UNCHANGED <<kind, wordsPerThread, s, out, errors>>

(* s[threadIdx.x] = tmp *)
Put(t) ==
  /\ pc[t] = "put"
  /\ s' = [s EXCEPT ![Block(t)][threadIdx(t)] = tmp[t]]
  /\ pc' = [pc EXCEPT ![t] = IF Synchronized THEN "sync" ELSE "chase"]
  /\ UNCHANGED <<kind, wordsPerThread, tmp, loads, out, errors>>

(* Mutant: the threads with nothing to do do not come to the barrier. *)
Sync_Active(b) ==
  /\ \A t \in Thread : Block(t) = b => pc[t] = "sync" /\ t < nThreads
  /\ \E t \in Thread : Block(t) = b
  /\ pc' = [t \in Thread |-> IF Block(t) = b THEN "chase" ELSE pc[t]]
  /\ UNCHANGED <<kind, wordsPerThread, tmp, loads, s, out, errors>>

(* __syncthreads (): the threads of block b go on together. *)
Sync(b) ==
  /\ \A t \in Thread : Block(t) = b => pc[t] = "sync"
  /\ \E t \in Thread : Block(t) = b
  /\ pc' = [t \in Thread |-> IF Block(t) = b THEN "chase" ELSE pc[t]]
  /\ UNCHANGED <<kind, wordsPerThread, tmp, loads, s, out, errors>>

(* The cache kernels have the first of their loads commented out.          *)
LastLoad == IF kind = "sm" THEN wordsPerThread + 1 ELSE wordsPerThread

(* The word a thread loads next. *)
Link(t) ==
  IF kind = "cache" THEN Chase(tmp[t])
  ELSE IF tmp[t] = Garbage THEN Garbage ELSE s[Block(t)][tmp[t]]

(* tmp = s[tmp], or tmp = chase[tmp] *)
Follow(t) ==
  /\ pc[t] = "chase" /\ t < nThreads
  /\ loads[t] < LastLoad
  /\ tmp' = [tmp EXCEPT ![t] = Link(t)]
  /\ loads' = [loads EXCEPT ![t] = @ + 1]
  /\ UNCHANGED <<kind, wordsPerThread, pc, s, out, errors>>

(* out[tid] = tmp *)
Store(t) ==
  /\ pc[t] = "chase" /\ t < nThreads
  /\ loads[t] = LastLoad
  /\ out' = [out EXCEPT ![t] = tmp[t]]
  /\ pc' = [pc EXCEPT ![t] = "end"]
  /\ UNCHANGED <<kind, wordsPerThread, tmp, loads, s, errors>>

(* The threads of the last block beyond nThreads do nothing more. *)
Skip(t) ==
  /\ pc[t] = "chase" /\ t >= nThreads
  /\ pc' = [pc EXCEPT ![t] = "end"]
  /\ UNCHANGED <<kind, wordsPerThread, tmp, loads, s, out, errors>>

(* The host's chain: in[i % bSize], then wordsPerThread links. *)
Expected(t) ==
  LET chain[n \in 0 .. wordsPerThread] ==
        IF n = 0 THEN Chase(threadIdx(t)) ELSE Chase(chain[n - 1])
  IN  chain[wordsPerThread]

(* cudaThreadSynchronize, the copy of the results, and validateResults. *)
Validate ==
  /\ errors = -1
  /\ \A t \in Thread : pc[t] = "end"
  /\ errors' = Cardinality({t \in 0 .. nThreads - 1 : out[t] # Expected(t)})
  /\ UNCHANGED <<kind, wordsPerThread, pc, tmp, loads, s, out>>

(* The host in cudaThreadSynchronize, or at its end. *)
Waiting ==
  /\ UNCHANGED vars

Next ==
  \/ \E t \in Thread : Load(t) \/ Put(t) \/ Sync(Block(t)) \/ Follow(t) \/ Store(t) \/ Skip(t)
  \/ Validate
  \/ Waiting

Spec == Init /\ [][Next]_vars /\ WF_vars(Next)

-----------------------------------------------------------------------------

TypeOK ==
  /\ kind \in Kinds /\ wordsPerThread \in Words
  /\ pc \in [Thread -> {"load", "put", "sync", "chase", "end"}]
  /\ tmp \in [Thread -> Word \union {Garbage}]
  /\ \A t \in Thread : loads[t] \in 0 .. LastLoad
  /\ s \in [Thread -> [Word -> Word \union {Garbage}]]
  /\ out \in [0 .. nThreads - 1 -> Word \union {Garbage}]
  /\ errors \in -1 .. nThreads

(* Although eleven kernels have no barrier, no thread follows a link into  *)
(* a word of shared memory that has not been written: a link leads to the  *)
(* word the thread has put there itself.                                   *)
NoStaleRead ==
  \A t \in Thread :
    kind = "sm" /\ pc[t] = "chase" => tmp[t] # Garbage /\ s[Block(t)][tmp[t]] # Garbage

(* Whatever the pace of the threads, validateResults finds no error.       *)
Validated == errors \in {-1, 0}

(* The number of links the host follows to "make sure the kernel ran       *)
(* correctly" (jeecachetest.cu:58), which is also what the bandwidth is    *)
(* computed from, is the number of loads each thread makes.                *)
LoadsChecked ==
  errors # -1 => \A t \in 0 .. nThreads - 1 : loads[t] = wordsPerThread + 1

(* It is for the shared-memory benchmark.                                  *)
SharedLoadsChecked == kind = "sm" => LoadsChecked

=============================================================================
