------------------------------ MODULE StreamCopy -----------------------------
(***************************************************************************)
(* The bandwidth kernels of both NVIDIA cards (bandwidthilp_kernel2.cu):   *)
(* each thread copies num_streams elements.  Kernels for up to eight       *)
(* streams give each block a contiguous part of the array, which its       *)
(* threads share in strides of a block; those for more step through the    *)
(* whole array in strides of num_threads.                                  *)
(***************************************************************************)
EXTENDS Integers, FiniteSets

CONSTANTS
  Configurations    \* the launches: <<num_threads, block_size, num_streams>>

Parameters ==
  \A c \in Configurations :
    /\ c[1] \in Nat \ {0} /\ c[2] \in Nat \ {0}
    /\ c[3] \in {1, 2, 4, 8, 16, 32, 64, 128}

VARIABLES
  config,
  k,       \* k[t]: elements thread t has copied
  out      \* the elements of the array written, each with the threads that have

vars == <<config, k, out>>

num_threads == config[1]
blockDim == config[2]
num_streams == config[3]

num_blocks == (num_threads + blockDim - 1) \div blockDim

Thread == 0 .. num_blocks * blockDim - 1
threadIdx(tid) == tid % blockDim
blockIdx(tid) == tid \div blockDim

(* Mutant: the block's part starts as if it had one stream. *)
Index_NoStreams(tid, n) == blockIdx(tid) * blockDim + n * blockDim + threadIdx(tid)

(* The n-th element of thread tid. *)
Index(tid, n) ==
  IF num_streams <= 8
  THEN blockIdx(tid) * blockDim * num_streams + n * blockDim + threadIdx(tid)
  ELSE n * num_threads + tid

Init ==
  /\ config \in Configurations
  /\ k = [tid \in Thread |-> 0]
  /\ out = [i \in {} |-> {}]

(* if(tid < num_threads) *)
Active(tid) == tid < num_threads

(* The statements of the kernel that are still to come. *)
Left(tid) == k[tid] < num_streams

(* out[i] = in[i] *)
Copy(tid) ==
  LET i == Index(tid, k[tid])
  IN  /\ Active(tid)
      /\ Left(tid)
      /\ k' = [k EXCEPT ![tid] = @ + 1]
      /\ out' = [j \in DOMAIN out \union {i} |->
                   (IF j \in DOMAIN out THEN out[j] ELSE {}) \union (IF j = i THEN {tid} ELSE {})]
      /\ UNCHANGED config

Done == \A tid \in Thread : Active(tid) => k[tid] = num_streams

Next == (\E tid \in Thread : Copy(tid)) \/ (Done /\ UNCHANGED vars)

Spec == Init /\ [][Next]_vars

-----------------------------------------------------------------------------

(* The elements of the arrays. *)
Element == 0 .. num_threads * num_streams - 1

TypeOK ==
  /\ config \in Configurations
  /\ k \in [Thread -> 0 .. num_streams]
  /\ \A i \in DOMAIN out : out[i] \subseteq Thread

(* No element is copied by two threads: no traffic is saved in a cache or  *)
(* by combining writes.                                                    *)
CopiedOnce == \A i \in DOMAIN out : Cardinality(out[i]) = 1

(* The amount of data the bandwidth is computed from, num_threads *        *)
(* num_streams elements, is what has been moved.                           *)
AllCopied == Done => DOMAIN out = Element

=============================================================================
