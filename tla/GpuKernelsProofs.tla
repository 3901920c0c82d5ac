-------------------------- MODULE GpuKernelsProofs ---------------------------
(***************************************************************************)
(* The kernels of the GPU benchmarks for every grid, every size of the     *)
(* arrays and every length of the chains:                                  *)
(*                                                                         *)
(*   - no thread of the shared-memory benchmark reads a word before it is  *)
(*     written, with a barrier or without: each follows the link it has    *)
(*     put into the shared array itself, and whatever another thread puts  *)
(*     there is the same;                                                  *)
(*   - the hosts' checks of the results find nothing;                      *)
(*   - the bandwidth kernels copy each element once;                       *)
(*   - a work item of the random chase goes round all of the array.        *)
(*                                                                         *)
(* There is an invariant for each of the three kinds of kernel; GpuInv     *)
(* joins them.                                                             *)
(***************************************************************************)
EXTENDS GpuKernels, WellFoundedInduction, FunctionTheorems, FiniteSetTheorems, TLAPS

LEMMA Lowest ==
  ASSUME NEW D \in SUBSET Nat, D # {}
  PROVE  \E t \in D : \A u \in D : t <= u
<1>1. IsWellFoundedOn(OpToRel(<, Nat), Nat)
  BY NatLessThanWellFounded
<1>2. PICK t \in D : \A u \in D : ~(<<u, t>> \in OpToRel(<, Nat))
  BY <1>1, WFMin
<1>3. \A u \in D : ~(u < t)
  BY <1>2 DEF OpToRel
<1> QED
  BY <1>3

LEMMA Quotient ==
  ASSUME NEW p \in Nat \ {0}, NEW q \in Nat, NEW r \in 0 .. p - 1
  PROVE  (p * q + r) \div p = q /\ (p * q + r) % p = r
<1> DEFINE a == p * q + r
<1>1. PICK d \in Nat : d = a \div p /\ p * d <= a /\ a < p * d + p
  OBVIOUS
<1>2. ~(d < q)
  <2> SUFFICES ASSUME d < q PROVE FALSE
    OBVIOUS
  <2>1. p * (d + 1) <= p * q
    OBVIOUS
  <2>2. QED
    BY <1>1, <2>1
<1>3. ~(d > q)
  <2> SUFFICES ASSUME d > q PROVE FALSE
    OBVIOUS
  <2>1. p * (q + 1) <= p * d
    OBVIOUS
  <2>2. QED
    BY <1>1, <2>1
<1>4. d = q
  BY <1>2, <1>3
<1>5. QED
  BY <1>1, <1>4

(* A number is a multiple of the divisor and a remainder below it. *)
LEMMA Division ==
  ASSUME NEW a \in Nat, NEW d \in Nat \ {0}
  PROVE  \E q \in Nat, r \in 0 .. d - 1 : q = a \div d /\ r = a % d /\ q <= a /\ a = d * q + r
<1>1. PICK q \in Nat : q = a \div d /\ d * q <= a /\ a < d * q + d
  OBVIOUS
<1>2. q <= d * q
  <2>1. 1 * q <= d * q
    OBVIOUS
  <2>2. QED
    BY <2>1
<1>3. PICK e \in Nat : e = d * q
  OBVIOUS
<1>4. e <= a /\ a < e + d
  BY <1>1, <1>3
<1>5. PICK r \in 0 .. d - 1 : a = d * q + r
  <2>1. a - e \in 0 .. d - 1 /\ a = e + (a - e)
    BY <1>4
  <2>2. QED
    BY <1>3, <2>1
<1>6. a % d = r
  BY <1>5, Quotient
<1>7. q <= a
  BY <1>1, <1>2
<1>8. QED
  BY <1>1, <1>5, <1>6, <1>7

(* A grid is rounded up to whole blocks. *)
LEMMA Rounded ==
  ASSUME NEW a \in Nat \ {0}, NEW d \in Nat \ {0}
  PROVE  \E b \in Nat \ {0} : /\ b = (a + d - 1) \div d
                              /\ b * d \in Nat /\ a <= b * d /\ b * d < a + d
                              /\ (a % d = 0 => b * d = a)
<1>1. PICK b \in Nat : b = (a + d - 1) \div d /\ d * b <= a + d - 1 /\ a + d - 1 < d * b + d
  <2>1. a + d - 1 \in Nat
    OBVIOUS
  <2>2. QED
    BY <2>1
<1>2. b * d = d * b /\ b * d \in Nat
  OBVIOUS
<1>3. a <= b * d /\ b * d < a + d
  BY <1>1, <1>2
<1>4. b # 0
  BY <1>2, <1>3
<1>5. ASSUME a % d = 0 PROVE b * d = a
  <2>1. PICK q \in Nat : a = d * q
    <3>1. PICK q \in Nat, r \in 0 .. d - 1 : r = a % d /\ a = d * q + r
      BY Division
    <3>2. a = d * q
      BY <1>5, <3>1
    <3>3. QED
      BY <3>2
  <2>2. ~(b > q)
    <3>1. ASSUME b > q PROVE FALSE
      <4>1. d * (q + 1) <= d * b
        BY <3>1
      <4>2. QED
        BY <1>2, <1>3, <2>1, <4>1
    <3>2. QED
      BY <3>1
  <2>3. d * b <= d * q
    BY <2>2
  <2>4. QED
    BY <1>2, <1>3, <2>1, <2>3
<1>6. QED
  BY <1>1, <1>2, <1>3, <1>4, <1>5

-----------------------------------------------------------------------------
(* SharedChase: the shared-memory and cache chases.                        *)

(* The index of a thread is one of the shared array, and its block is one  *)
(* of those s has an array for; there is a thread for every result.        *)
LEMMA Places ==
  /\ \A t \in Thread : t \in Nat /\ threadIdx(t) \in Word /\ Block(t) \in Thread
  /\ 0 .. nThreads - 1 \subseteq Thread
<1>1. bSize \in Nat \ {0} /\ nThreads \in Nat \ {0}
  BY ChaseAssumption
<1>2. PICK size \in Nat \ {0}, last \in Nat \ {0} : size = bSize /\ last = nThreads
  BY <1>1
<1>3. PICK b \in Nat \ {0} : b = (last + size - 1) \div size /\ b * size \in Nat /\ last <= b * size
  BY Rounded
<1>4. Thread = 0 .. b * size - 1
  BY <1>2, <1>3 DEF Thread
<1>5. ASSUME NEW t \in Thread PROVE t \in Nat /\ threadIdx(t) \in Word /\ Block(t) \in Thread
  <2>1. t \in Nat /\ t <= b * size - 1
    BY <1>3, <1>4
  <2>2. PICK q \in Nat, r \in 0 .. size - 1 : q = t \div size /\ r = t % size /\ q <= t
    BY <2>1, Division
  <2>3. q \in 0 .. b * size - 1
    BY <1>3, <2>1, <2>2
  <2>4. QED
    BY <1>2, <1>4, <2>1, <2>2, <2>3 DEF threadIdx, Word, Block
<1>6. 0 .. nThreads - 1 \subseteq Thread
  BY <1>2, <1>3, <1>4
<1>7. QED
  BY <1>5, <1>6

(* What has been loaded is the thread's own index, which it holds on to. *)
TmpInv == \A t \in Thread : pc[t] # "load" => tmp[t] = threadIdx(t)

(* The thread's own word of the shared array holds it, from the put on. *)
OwnWord ==
  \A t \in Thread :
    kind = "sm" /\ pc[t] \in {"sync", "chase", "end"}
      => s[Block(t)][threadIdx(t)] = threadIdx(t)

(* A thread that has stored its result has made all its loads; the results *)
(* are compared when all have.                                             *)
Results ==
  \A t \in 0 .. nThreads - 1 : pc[t] = "end" => loads[t] = LastLoad /\ out[t] = threadIdx(t)
Compared == errors # -1 => errors = 0 /\ \A t \in Thread : pc[t] = "end"

SharedInv == TypeOK /\ DOMAIN loads = Thread /\ TmpInv /\ OwnWord /\ Results /\ Compared

LEMMA LoadNumbers ==
  ASSUME kind \in Kinds, wordsPerThread \in Words
  PROVE  LastLoad \in Nat \ {0} /\ (kind = "sm" => LastLoad = wordsPerThread + 1)
BY ChaseAssumption DEF LastLoad

LEMMA SharedInit == Init => SharedInv
<1>1. SUFFICES ASSUME Init PROVE SharedInv
  OBVIOUS
<1>2. LastLoad \in Nat \ {0}
  BY <1>1, LoadNumbers DEF Init
<1>3. 0 \in Word /\ -1 \in -1 .. nThreads
  BY ChaseAssumption DEF Word
<1>4. TypeOK /\ DOMAIN loads = Thread
  BY <1>1, <1>2, <1>3 DEF Init, TypeOK
<1>5. TmpInv /\ OwnWord /\ Results /\ Compared
  BY <1>1, Places DEF Init, TmpInv, OwnWord, Results, Compared
<1>6. QED
  BY <1>4, <1>5 DEF SharedInv

(* What most steps leave alone. *)
LEMMA Kept ==
  ASSUME SharedInv, UNCHANGED <<kind, wordsPerThread>>
  PROVE  /\ LastLoad' = LastLoad /\ LastLoad \in Nat \ {0}
         /\ (kind \in Kinds)' /\ (wordsPerThread \in Words)'
         /\ errors \in -1 .. nThreads
BY LoadNumbers DEF SharedInv, TypeOK, LastLoad

LEMMA LoadStep ==
  ASSUME SharedInv, NEW u \in Thread, Load(u)
  PROVE  SharedInv'
<1>1. /\ pc[u] = "load" /\ pc' = [pc EXCEPT ![u] = IF kind = "sm" THEN "put" ELSE "chase"]
      /\ tmp' = [tmp EXCEPT ![u] = threadIdx(u)]
      /\ loads' = [loads EXCEPT ![u] = 1]
      /\ UNCHANGED <<kind, wordsPerThread, s, out, errors>>
  BY DEF Load, Chase
<1>2. threadIdx(u) \in Word /\ 0 .. nThreads - 1 \subseteq Thread
  BY Places
<1>3. TypeOK' /\ DOMAIN loads' = Thread
  BY <1>1, <1>2, Kept DEF SharedInv, TypeOK
<1>4. TmpInv' /\ OwnWord'
  BY <1>1 DEF SharedInv, TypeOK, TmpInv, OwnWord, Block, threadIdx
<1>5. Results' /\ Compared'
  BY <1>1, <1>2, Kept DEF SharedInv, TypeOK, Results, Compared, threadIdx
<1>6. QED
  BY <1>3, <1>4, <1>5 DEF SharedInv

(* The put writes into one word what every thread of that index puts. *)
LEMMA PutStep ==
  ASSUME SharedInv, NEW u \in Thread, Put(u)
  PROVE  SharedInv'
<1>1. pc[u] = "put" /\ pc' = [pc EXCEPT ![u] = IF Synchronized THEN "sync" ELSE "chase"]
  BY DEF Put
<1>2. s' = [s EXCEPT ![Block(u)][threadIdx(u)] = threadIdx(u)]
  BY <1>1 DEF Put, SharedInv, TmpInv
<1>3. UNCHANGED <<kind, wordsPerThread, tmp, loads, out, errors>>
  BY DEF Put
<1>4. \A t \in Thread : Block(t) \in Thread /\ threadIdx(t) \in Word
  BY Places
<1>5. \A b \in Thread, x \in Word :
        s'[b][x] = IF b = Block(u) /\ x = threadIdx(u) THEN threadIdx(u) ELSE s[b][x]
  BY <1>2, <1>4 DEF SharedInv, TypeOK
<1>6. s' \in [Thread -> [Word -> Word \union {Garbage}]]
  BY <1>2, <1>4 DEF SharedInv, TypeOK
<1>7. TypeOK' /\ DOMAIN loads' = Thread
  BY <1>1, <1>3, <1>6, Kept DEF SharedInv, TypeOK
<1>8. TmpInv'
  BY <1>1, <1>3 DEF SharedInv, TypeOK, TmpInv, threadIdx
<1>9. OwnWord'
  <2>1. SUFFICES ASSUME NEW t \in Thread, kind = "sm", pc'[t] \in {"sync", "chase", "end"}
                 PROVE  s'[Block(t)][threadIdx(t)] = threadIdx(t)
    BY <1>3 DEF OwnWord, Block, threadIdx
  <2>2. CASE t = u
    BY <1>4, <1>5, <2>2
  <2>3. CASE t # u
    <3>1. s[Block(t)][threadIdx(t)] = threadIdx(t)
      BY <1>1, <2>1, <2>3 DEF SharedInv, TypeOK, OwnWord
    <3>2. QED
      BY <1>4, <1>5, <3>1
  <2>4. QED
    BY <2>2, <2>3
<1>10. Results' /\ Compared'
  <2>1. 0 .. nThreads - 1 \subseteq Thread
    BY Places
  <2>2. QED
    BY <1>1, <1>3, <2>1, Kept DEF SharedInv, TypeOK, Results, Compared, threadIdx
<1>11. QED
  BY <1>7, <1>8, <1>9, <1>10 DEF SharedInv

(* A link leads a thread back to its own index. *)
LEMMA FollowStep ==
  ASSUME SharedInv, NEW u \in Thread, Follow(u)
  PROVE  SharedInv'
<1>1. /\ tmp[u] = threadIdx(u) /\ pc[u] = "chase" /\ loads[u] < LastLoad
      /\ UNCHANGED <<kind, wordsPerThread, pc, s, out, errors>>
      /\ loads' = [loads EXCEPT ![u] = loads[u] + 1]
  BY DEF Follow, SharedInv, TmpInv
<1>2. threadIdx(u) # Garbage /\ threadIdx(u) \in Word /\ 0 .. nThreads - 1 \subseteq Thread
  BY Places DEF Word, Garbage
<1>3. Link(u) = threadIdx(u)
  <2>1. CASE kind = "cache"
    BY <1>1, <2>1 DEF Link, Chase
  <2>2. CASE kind # "cache"
    <3>1. kind = "sm"
      BY <2>2, ChaseAssumption DEF SharedInv, TypeOK
    <3>2. QED
      BY <1>1, <1>2, <2>2, <3>1 DEF Link, SharedInv, OwnWord
  <2>3. QED
    BY <2>1, <2>2
<1>4. tmp' = [tmp EXCEPT ![u] = threadIdx(u)]
  BY <1>3 DEF Follow
<1>5. loads'[u] \in 0 .. LastLoad
  BY <1>1, Kept DEF SharedInv, TypeOK
<1>6. TypeOK' /\ DOMAIN loads' = Thread
  BY <1>1, <1>2, <1>4, <1>5, Kept DEF SharedInv, TypeOK
<1>7. TmpInv' /\ OwnWord'
  BY <1>1, <1>4 DEF SharedInv, TypeOK, TmpInv, OwnWord, Block, threadIdx
<1>8. Results' /\ Compared'
  BY <1>1, <1>2, Kept DEF SharedInv, TypeOK, Results, Compared, threadIdx
<1>9. QED
  BY <1>6, <1>7, <1>8 DEF SharedInv

(* out[tid] = tmp stores the index of the thread. *)
LEMMA StoreStep ==
  ASSUME SharedInv, NEW u \in Thread, Store(u)
  PROVE  SharedInv'
<1>1. /\ pc[u] = "chase" /\ u < nThreads /\ loads[u] = LastLoad
      /\ out' = [out EXCEPT ![u] = threadIdx(u)]
      /\ pc' = [pc EXCEPT ![u] = "end"]
      /\ UNCHANGED <<kind, wordsPerThread, tmp, loads, s, errors>>
  BY DEF Store, SharedInv, TmpInv
<1>2. threadIdx(u) \in Word /\ 0 .. nThreads - 1 \subseteq Thread /\ u \in Nat
  BY Places
<1>3. u \in 0 .. nThreads - 1
  BY <1>1, <1>2, ChaseAssumption
<1>4. TypeOK' /\ DOMAIN loads' = Thread
  BY <1>1, <1>2, Kept DEF SharedInv, TypeOK
<1>5. TmpInv' /\ OwnWord'
  BY <1>1 DEF SharedInv, TypeOK, TmpInv, OwnWord, Block, threadIdx
<1>6. Results' /\ Compared'
  BY <1>1, <1>2, <1>3, Kept DEF SharedInv, TypeOK, Results, Compared, threadIdx
<1>7. QED
  BY <1>4, <1>5, <1>6 DEF SharedInv

LEMMA SkipStep ==
  ASSUME SharedInv, NEW u \in Thread, Skip(u)
  PROVE  SharedInv'
<1>1. /\ pc[u] = "chase" /\ u >= nThreads
      /\ pc' = [pc EXCEPT ![u] = "end"]
      /\ UNCHANGED <<kind, wordsPerThread, tmp, loads, s, out, errors>>
  BY DEF Skip
<1>2. 0 .. nThreads - 1 \subseteq Thread /\ u \notin 0 .. nThreads - 1
  BY <1>1, Places, ChaseAssumption
<1>3. TypeOK' /\ DOMAIN loads' = Thread
  BY <1>1, Kept DEF SharedInv, TypeOK
<1>4. TmpInv' /\ OwnWord'
  BY <1>1 DEF SharedInv, TypeOK, TmpInv, OwnWord, Block, threadIdx
<1>5. Results' /\ Compared'
  BY <1>1, <1>2, Kept DEF SharedInv, TypeOK, Results, Compared, threadIdx
<1>6. QED
  BY <1>3, <1>4, <1>5 DEF SharedInv

LEMMA SyncStep ==
  ASSUME SharedInv, NEW b, Sync(b)
  PROVE  SharedInv'
<1>1. /\ \A t \in Thread : Block(t) = b => pc[t] = "sync"
      /\ pc' = [t \in Thread |-> IF Block(t) = b THEN "chase" ELSE pc[t]]
      /\ UNCHANGED <<kind, wordsPerThread, tmp, loads, s, out, errors>>
  BY DEF Sync
<1>2. 0 .. nThreads - 1 \subseteq Thread
  BY Places
<1>3. TypeOK' /\ DOMAIN loads' = Thread
  BY <1>1, Kept DEF SharedInv, TypeOK
<1>4. TmpInv' /\ OwnWord'
  BY <1>1 DEF SharedInv, TypeOK, TmpInv, OwnWord, Block, threadIdx
<1>5. \A t \in Thread : pc'[t] = "end" => pc[t] = "end"
  BY <1>1
<1>6. \A t \in Thread : pc[t] = "end" => pc'[t] = "end"
  BY <1>1
<1>7. Results' /\ Compared'
  BY <1>1, <1>2, <1>5, <1>6, Kept DEF SharedInv, TypeOK, Results, Compared, threadIdx
<1>8. QED
  BY <1>3, <1>4, <1>7 DEF SharedInv

(* The host's chain leads nowhere else either. *)
LEMMA ExpectedIs ==
  ASSUME wordsPerThread \in Nat
  PROVE  \A t : Expected(t) = threadIdx(t)
<1> SUFFICES ASSUME NEW t PROVE Expected(t) = threadIdx(t)
  OBVIOUS
<1> DEFINE Follows(f) ==
             [n \in 0 .. wordsPerThread |-> IF n = 0 THEN Chase(threadIdx(t)) ELSE Chase(f[n - 1])]
           still == [n \in 0 .. wordsPerThread |-> threadIdx(t)]
           chain == CHOOSE f : f = Follows(f)
<1>1. still = Follows(still)
  BY DEF Chase
<1>2. chain = Follows(chain)
  BY <1>1
<1>3. \A n \in 0 .. wordsPerThread :
        chain[n] = IF n = 0 THEN threadIdx(t) ELSE chain[n - 1]
  <2> HIDE DEF chain, still
  <2>1. \A n \in 0 .. wordsPerThread : Follows(chain)[n] = IF n = 0 THEN threadIdx(t) ELSE chain[n - 1]
    BY DEF Chase
  <2>2. QED
    BY <1>2, <2>1
<1>4. Expected(t) = chain[wordsPerThread]
  BY DEF Expected
<1> HIDE DEF chain, still, Follows
<1> DEFINE Moved == {n \in 0 .. wordsPerThread : chain[n] # threadIdx(t)}
<1>5. Moved = {}
  <2> SUFFICES ASSUME Moved # {} PROVE FALSE
    OBVIOUS
  <2>1. PICK n \in Moved : \A m \in Moved : n <= m
    <3>1. Moved \in SUBSET Nat
      OBVIOUS
    <3>2. QED
      BY <3>1, Lowest
  <2>2. n # 0 /\ n - 1 \in 0 .. wordsPerThread /\ chain[n - 1] # threadIdx(t)
    BY <1>3, <2>1
  <2>3. QED
    BY <2>1, <2>2
<1>6. QED
  BY <1>4, <1>5

LEMMA ValidateStep ==
  ASSUME SharedInv, Validate
  PROVE  SharedInv'
<1>1. /\ \A t \in Thread : pc[t] = "end"
      /\ errors' = Cardinality({t \in 0 .. nThreads - 1 : out[t] # Expected(t)})
      /\ UNCHANGED <<kind, wordsPerThread, pc, tmp, loads, s, out>>
  BY DEF Validate
<1>2. 0 .. nThreads - 1 \subseteq Thread
  BY Places
<1>3. \A t \in 0 .. nThreads - 1 : out[t] = Expected(t)
  <2>1. wordsPerThread \in Nat
    BY ChaseAssumption DEF SharedInv, TypeOK
  <2>2. QED
    BY <1>1, <1>2, <2>1, ExpectedIs DEF SharedInv, Results
<1>4. errors' = 0
  <2>1. {t \in 0 .. nThreads - 1 : out[t] # Expected(t)} = {}
    BY <1>3
  <2>2. QED
    BY <1>1, <2>1, FS_EmptySet
<1>5. TypeOK' /\ DOMAIN loads' = Thread
  <2>1. 0 \in -1 .. nThreads
    BY ChaseAssumption
  <2>2. QED
    BY <1>1, <1>4, <2>1, Kept DEF SharedInv, TypeOK
<1>6. TmpInv' /\ OwnWord'
  BY <1>1 DEF SharedInv, TypeOK, TmpInv, OwnWord, Block, threadIdx
<1>7. Results' /\ Compared'
  BY <1>1, <1>4, Kept DEF SharedInv, Results, Compared, threadIdx
<1>8. QED
  BY <1>5, <1>6, <1>7 DEF SharedInv

LEMMA SharedStep == SharedInv /\ [Next]_vars => SharedInv'
<1>1. SharedInv /\ UNCHANGED vars => SharedInv'
  BY DEF vars, SharedInv, TypeOK, TmpInv, OwnWord, Results, Compared, LastLoad, Block, threadIdx
<1>2. QED
  BY <1>1, LoadStep, PutStep, SyncStep, FollowStep, StoreStep, SkipStep, ValidateStep
     DEF Next, Waiting

(* What the invariant says of reads and results. *)
LEMMA SharedKeeps == SharedInv => NoStaleRead /\ Validated /\ SharedLoadsChecked
<1>1. SUFFICES ASSUME SharedInv PROVE NoStaleRead /\ Validated /\ SharedLoadsChecked
  OBVIOUS
<1>2. \A t \in Thread : threadIdx(t) # Garbage
  BY Places DEF Word, Garbage
<1>3. NoStaleRead
  BY <1>1, <1>2 DEF SharedInv, TmpInv, OwnWord, NoStaleRead
<1>4. Validated
  BY <1>1 DEF SharedInv, Compared, Validated
<1>5. SharedLoadsChecked
  <2>1. ASSUME kind = "sm", errors # -1, NEW t \in 0 .. nThreads - 1
        PROVE  loads[t] = wordsPerThread + 1
    <3>1. pc[t] = "end"
      BY <1>1, <2>1, Places DEF SharedInv, Compared
    <3>2. QED
      BY <1>1, <2>1, <3>1, Kept, LoadNumbers DEF SharedInv, TypeOK, Results
  <2>2. QED
    BY <2>1 DEF SharedLoadsChecked, LoadsChecked
<1>6. QED
  BY <1>3, <1>4, <1>5

-----------------------------------------------------------------------------
(* StreamCopy: the bandwidth kernels.                                      *)

LEMMA SameCardinality == \A S : Stream!Cardinality(S) = Cardinality(S)
BY Zenon DEF Stream!Cardinality, Cardinality

(* The sizes of a launch. *)
LEMMA Launch ==
  ASSUME config \in Configurations
  PROVE  /\ Stream!num_threads \in Nat \ {0} /\ Stream!blockDim \in Nat \ {0}
         /\ Stream!num_streams \in Nat \ {0}
         /\ Stream!num_streams \in {1, 2, 4, 8, 16, 32, 64, 128}
         /\ Stream!Thread \subseteq Nat
         /\ 0 .. Stream!num_threads - 1 \subseteq Stream!Thread
<1>1. PICK T, D, S \in Nat \ {0} : /\ T = config[1] /\ D = config[2] /\ S = config[3]
                                   /\ S \in {1, 2, 4, 8, 16, 32, 64, 128}
  BY StreamAssumption DEF Stream!Parameters
<1>2. T = Stream!num_threads /\ D = Stream!blockDim /\ S = Stream!num_streams
  BY <1>1 DEF Stream!num_threads, Stream!blockDim, Stream!num_streams
<1>3. PICK B \in Nat \ {0} : B = (T + D - 1) \div D /\ B * D \in Nat /\ T <= B * D
  BY Rounded
<1>4. Stream!Thread = 0 .. B * D - 1
  BY <1>2, <1>3 DEF Stream!Thread, Stream!num_blocks
<1>5. 0 .. T - 1 \subseteq Stream!Thread /\ Stream!Thread \subseteq Nat
  BY <1>3, <1>4
<1>6. QED
  BY <1>1, <1>2, <1>5

(* A thread of a launch of D threads per block and S streams per thread is *)
(* number r of its block b.                                                *)
LEMMA IndexIs ==
  ASSUME config \in Configurations, NEW t \in Nat, NEW n \in Nat
  PROVE  \E b \in Nat, r \in 0 .. Stream!blockDim - 1 :
           /\ t = Stream!blockDim * b + r
           /\ Stream!Index(t, n) =
                IF Stream!num_streams <= 8 THEN Stream!blockDim * (Stream!num_streams * b + n) + r
                ELSE Stream!num_threads * n + t
<1>1. PICK T, D, S \in Nat \ {0} :
        T = Stream!num_threads /\ D = Stream!blockDim /\ S = Stream!num_streams
  BY Launch
<1>2. PICK b \in Nat, r \in 0 .. D - 1 : b = t \div D /\ r = t % D /\ t = D * b + r
  BY Division
<1>3. Stream!Index(t, n) = IF S <= 8 THEN b * D * S + n * D + r ELSE n * T + t
  BY <1>1, <1>2 DEF Stream!Index, Stream!blockIdx, Stream!threadIdx
<1>4. b * D * S + n * D + r = D * (S * b + n) + r /\ n * T = T * n
  <2>1. D * (S * b + n) = D * (S * b) + D * n
    OBVIOUS
  <2>2. D * (S * b) = b * D * S
    OBVIOUS
  <2>3. D * n = n * D /\ n * T = T * n
    OBVIOUS
  <2>4. QED
    BY <2>1, <2>2, <2>3
<1>5. QED
  BY <1>1, <1>2, <1>3, <1>4

(* Whole blocks. *)
LEMMA NoRest ==
  ASSUME NEW T \in Nat, NEW D \in Nat \ {0}, T % D = 0
  PROVE  \E B \in Nat : T = D * B
<1>1. PICK B \in Nat, x \in 0 .. D - 1 : B = T \div D /\ x = T % D /\ B <= T /\ T = D * B + x
  BY Division
<1>2. x = 0
  BY <1>1, Zenon
<1>3. QED
  BY <1>1, <1>2

(* Two numbers with the same quotient and the same remainder are the same. *)
LEMMA SameParts ==
  ASSUME NEW d \in Nat \ {0}, NEW x \in Nat, NEW y \in Nat,
         NEW a \in 0 .. d - 1, NEW b \in 0 .. d - 1, d * x + a = d * y + b
  PROVE  x = y /\ a = b
<1>1. (d * x + a) \div d = x /\ (d * x + a) % d = a
  BY Quotient
<1>2. (d * y + b) \div d = y /\ (d * y + b) % d = b
  BY Quotient
<1>3. QED
  BY <1>1, <1>2

(* No two threads come to the same element. *)
LEMMA IndexApart ==
  ASSUME config \in Configurations,
         NEW t \in Stream!Thread, NEW u \in Stream!Thread,
         Stream!Active(t), Stream!Active(u),
         NEW n \in Nat, NEW m \in Nat, n < Stream!num_streams, m < Stream!num_streams,
         Stream!Index(t, n) = Stream!Index(u, m)
  PROVE  t = u
<1>1. PICK T, D, S \in Nat \ {0} :
        /\ T = Stream!num_threads /\ D = Stream!blockDim /\ S = Stream!num_streams
        /\ S \in {1, 2, 4, 8, 16, 32, 64, 128}
        /\ Stream!Thread \subseteq Nat /\ 0 .. T - 1 \subseteq Stream!Thread
  BY Launch
<1>0. t \in Nat /\ u \in Nat
  BY <1>1
<1>2. PICK b \in Nat, r \in 0 .. D - 1 :
        /\ t = D * b + r
        /\ Stream!Index(t, n) = IF S <= 8 THEN D * (S * b + n) + r ELSE T * n + t
  <2>1. PICK b \in Nat, r \in 0 .. Stream!blockDim - 1 :
          /\ t = Stream!blockDim * b + r
          /\ Stream!Index(t, n) =
               IF Stream!num_streams <= 8 THEN Stream!blockDim * (Stream!num_streams * b + n) + r
               ELSE Stream!num_threads * n + t
    BY <1>0, IndexIs
  <2>2. QED
    BY <1>1, <2>1
<1>3. PICK c \in Nat, e \in 0 .. D - 1 :
        /\ u = D * c + e
        /\ Stream!Index(u, m) = IF S <= 8 THEN D * (S * c + m) + e ELSE T * m + u
  <2>1. PICK c \in Nat, e \in 0 .. Stream!blockDim - 1 :
          /\ u = Stream!blockDim * c + e
          /\ Stream!Index(u, m) =
               IF Stream!num_streams <= 8 THEN Stream!blockDim * (Stream!num_streams * c + m) + e
               ELSE Stream!num_threads * m + u
    BY <1>0, IndexIs
  <2>2. QED
    BY <1>1, <2>1
<1>4. CASE S <= 8
  <2>1. D * (S * b + n) + r = D * (S * c + m) + e
    BY <1>2, <1>3, <1>4
  <2>2. PICK x \in Nat, y \in Nat : x = S * b + n /\ y = S * c + m
    OBVIOUS
  <2>3. x = y /\ r = e
    BY <2>1, <2>2, SameParts
  <2>4. n \in 0 .. S - 1 /\ m \in 0 .. S - 1
    BY <1>1
  <2>5. b = c
    BY <2>2, <2>3, <2>4, SameParts
  <2>6. QED
    BY <1>2, <1>3, <2>3, <2>5
<1>5. CASE ~(S <= 8)
  <2>1. T * n + t = T * m + u
    BY <1>2, <1>3, <1>5
  <2>2. t \in 0 .. T - 1 /\ u \in 0 .. T - 1
    BY <1>1 DEF Stream!Active
  <2>3. QED
    BY <2>1, <2>2, SameParts
<1>6. QED
  BY <1>4, <1>5

(* The launches of the theorem: with more than one stream, the kernels     *)
(* that give each block a part of the array need whole blocks.             *)
WholeBlocks == \A c \in Configurations : c[3] \in 2 .. 8 => c[1] % c[2] = 0

(* The threads come to the elements of the array and to all of them.       *)
LEMMA IndexInside ==
  ASSUME WholeBlocks, config \in Configurations,
         NEW t \in Stream!Thread, Stream!Active(t), NEW n \in Nat, n < Stream!num_streams
  PROVE  Stream!Index(t, n) \in Stream!Element
<1>1. PICK T, D, S \in Nat \ {0} :
        /\ T = Stream!num_threads /\ D = Stream!blockDim /\ S = Stream!num_streams
        /\ S \in {1, 2, 4, 8, 16, 32, 64, 128}
        /\ Stream!Thread \subseteq Nat /\ 0 .. T - 1 \subseteq Stream!Thread
  BY Launch
<1>0. t \in Nat
  BY <1>1
<1>2. PICK b \in Nat, r \in 0 .. D - 1 :
        /\ t = D * b + r
        /\ Stream!Index(t, n) = IF S <= 8 THEN D * (S * b + n) + r ELSE T * n + t
  <2>1. PICK b \in Nat, r \in 0 .. Stream!blockDim - 1 :
          /\ t = Stream!blockDim * b + r
          /\ Stream!Index(t, n) =
               IF Stream!num_streams <= 8 THEN Stream!blockDim * (Stream!num_streams * b + n) + r
               ELSE Stream!num_threads * n + t
    BY <1>0, IndexIs
  <2>2. QED
    BY <1>1, <2>1
<1>3. t \in 0 .. T - 1 /\ n \in 0 .. S - 1
  BY <1>1 DEF Stream!Active
<1>4. Stream!Element = 0 .. T * S - 1
  BY <1>1 DEF Stream!Element
<1>5. CASE S = 1
  <2>1. n = 0 /\ S * b + n = b
    BY <1>3, <1>5
  <2>2. QED
    BY <1>2, <1>3, <1>4, <1>5, <2>1
<1>6. CASE S \in 2 .. 8
  <2>1. T % D = 0
    BY <1>1, <1>6 DEF WholeBlocks, Stream!num_threads, Stream!blockDim, Stream!num_streams
  <2>2. PICK B \in Nat : T = D * B
    BY <2>1, NoRest
  <2>3. b < B
    <3>1. ASSUME b >= B PROVE FALSE
      <4>1. D * B <= D * b
        BY <3>1
      <4>2. QED
        BY <1>2, <1>3, <2>2, <4>1
    <3>2. QED
      BY <3>1
  <2>4. PICK x \in Nat : x = S * b + n /\ x + 1 <= S * B
    <3>1. S * (b + 1) <= S * B /\ S * (b + 1) = S * b + S
      BY <2>3
    <3>2. S * b + n \in Nat /\ S * b + n + 1 <= S * B
      BY <1>3, <3>1
    <3>3. QED
      BY <3>2
  <2>5. D * (x + 1) <= D * (S * B) /\ D * (x + 1) = D * x + D
    BY <2>4
  <2>6. D * (S * B) = T * S
    BY <2>2
  <2>7. D * x + r \in 0 .. T * S - 1
    BY <2>5, <2>6
  <2>8. QED
    BY <1>2, <1>4, <1>6, <2>4, <2>7
<1>7. CASE ~(S <= 8)
  <2>1. T * (n + 1) <= T * S /\ T * (n + 1) = T * n + T
    BY <1>3
  <2>2. T * n + t \in 0 .. T * S - 1
    BY <1>3, <2>1
  <2>3. QED
    BY <1>2, <1>4, <1>7, <2>2
<1>8. QED
  BY <1>1, <1>5, <1>6, <1>7

LEMMA IndexOnto ==
  ASSUME WholeBlocks, config \in Configurations, NEW j \in Stream!Element
  PROVE  \E t \in Stream!Thread, n \in Nat :
           Stream!Active(t) /\ n < Stream!num_streams /\ j = Stream!Index(t, n)
<1>1. PICK T, D, S \in Nat \ {0} :
        /\ T = Stream!num_threads /\ D = Stream!blockDim /\ S = Stream!num_streams
        /\ S \in {1, 2, 4, 8, 16, 32, 64, 128}
        /\ Stream!Thread \subseteq Nat /\ 0 .. T - 1 \subseteq Stream!Thread
  BY Launch
<1>2. j \in Nat /\ j < T * S
  BY <1>1 DEF Stream!Element
<1>3. SUFFICES \E t \in 0 .. T - 1, n \in 0 .. S - 1 : j = Stream!Index(t, n)
  BY <1>1 DEF Stream!Active
<1>4. CASE S <= 8
  <2>1. PICK x \in Nat, r \in 0 .. D - 1 : x = j \div D /\ r = j % D /\ x <= j /\ j = D * x + r
    BY <1>2, Division
  <2>2. PICK b \in Nat, n \in 0 .. S - 1 : b = x \div S /\ n = x % S /\ b <= x /\ x = S * b + n
    BY Division
  <2>3. PICK t \in Nat : t = D * b + r
    OBVIOUS
  <2>4. t < T
    <3>1. CASE S = 1
      <4>1. x = b /\ T * S = T
        BY <2>2, <3>1
      <4>2. QED
        BY <1>2, <2>1, <2>3, <4>1
    <3>2. CASE S # 1
      <4>1. T % D = 0
        BY <1>1, <1>4, <3>2 DEF WholeBlocks, Stream!num_threads, Stream!blockDim, Stream!num_streams
      <4>2. PICK B \in Nat : T = D * B
        BY <4>1, NoRest
      <4>3. b < B
        <5>1. ASSUME b >= B PROVE FALSE
          <6>1. S * B <= S * b
            BY <5>1
          <6>2. PICK z \in Nat : z = S * B /\ z <= x
            BY <2>2, <6>1
          <6>3. D * z <= D * x
            BY <6>2
          <6>4. D * z = T * S
            BY <4>2, <6>2
          <6>5. QED
            BY <1>2, <2>1, <6>3, <6>4
        <5>2. QED
          BY <5>1
      <4>4. D * (b + 1) <= D * B /\ D * (b + 1) = D * b + D
        BY <4>3
      <4>5. QED
        BY <2>3, <4>2, <4>4
    <3>3. QED
      BY <3>1, <3>2
  <2>5. t \in 0 .. T - 1 /\ t \in Stream!Thread /\ n \in Nat
    BY <1>1, <2>4
  <2>6. PICK c \in Nat, e \in 0 .. D - 1 :
          /\ t = D * c + e
          /\ Stream!Index(t, n) = IF S <= 8 THEN D * (S * c + n) + e ELSE T * n + t
    <3>1. PICK c \in Nat, e \in 0 .. Stream!blockDim - 1 :
            /\ t = Stream!blockDim * c + e
            /\ Stream!Index(t, n) =
                 IF Stream!num_streams <= 8 THEN Stream!blockDim * (Stream!num_streams * c + n) + e
                 ELSE Stream!num_threads * n + t
      BY <2>5, IndexIs
    <3>2. QED
      BY <1>1, <3>1
  <2>7. c = b /\ e = r
    BY <2>3, <2>6, SameParts
  <2>8. j = Stream!Index(t, n)
    BY <1>4, <2>1, <2>2, <2>6, <2>7
  <2>9. QED
    BY <2>5, <2>8
<1>5. CASE ~(S <= 8)
  <2>1. PICK n \in Nat, t \in 0 .. T - 1 : n = j \div T /\ t = j % T /\ n <= j /\ j = T * n + t
    BY <1>2, Division
  <2>2. n < S
    <3>1. ASSUME n >= S PROVE FALSE
      <4>1. T * S <= T * n
        BY <3>1
      <4>2. QED
        BY <1>2, <2>1, <4>1
    <3>2. QED
      BY <3>1
  <2>3. Stream!Index(t, n) = T * n + t
    BY <1>1, <1>5, IndexIs
  <2>4. n \in 0 .. S - 1
    BY <2>2
  <2>5. QED
    BY <2>1, <2>3, <2>4
<1>6. QED
  BY <1>4, <1>5

(* What is marked as copied is what the threads have copied so far, by     *)
(* those who have; a thread beyond the number asked for copies nothing.    *)
Marked(t, j) == j \in DOMAIN copied /\ t \in copied[j]

CopyInv ==
  /\ Stream!TypeOK
  /\ \A t \in Stream!Thread : ~Stream!Active(t) => k[t] = 0
  /\ \A t, j : Marked(t, j) <=>
       t \in Stream!Thread /\ \E n \in 0 .. k[t] - 1 : j = Stream!Index(t, n)
  /\ \A j \in DOMAIN copied : copied[j] # {}

LEMMA CopyInit == Stream!Init => CopyInv
<1>1. SUFFICES ASSUME Stream!Init PROVE CopyInv
  OBVIOUS
<1>2. /\ config \in Configurations /\ k = [t \in Stream!Thread |-> 0]
      /\ DOMAIN copied = {}
  BY <1>1 DEF Stream!Init
<1>3. Stream!num_streams \in Nat
  BY <1>2, Launch
<1>4. Stream!TypeOK
  BY <1>2, <1>3 DEF Stream!TypeOK
<1>5. \A t \in Stream!Thread : 0 .. k[t] - 1 = {}
  BY <1>2
<1>6. QED
  BY <1>2, <1>4, <1>5 DEF CopyInv, Marked

LEMMA SameLaunch ==
  ASSUME config' = config
  PROVE  /\ Stream!Thread' = Stream!Thread /\ Stream!num_streams' = Stream!num_streams
         /\ \A t : Stream!Active(t)' = Stream!Active(t)
         /\ \A t, n : Stream!Index(t, n)' = Stream!Index(t, n)
BY DEF Stream!Thread, Stream!num_streams, Stream!num_blocks, Stream!num_threads, Stream!blockDim,
       Stream!Active, Stream!Index, Stream!blockIdx, Stream!threadIdx

LEMMA CopyStep == CopyInv /\ [Stream!Next]_copyVars => CopyInv'
<1>1. ASSUME CopyInv, NEW u \in Stream!Thread, Stream!Copy(u) PROVE CopyInv'
  <2>1. /\ config' = config /\ config \in Configurations /\ Stream!Active(u)
        /\ k \in [Stream!Thread -> 0 .. Stream!num_streams]
    BY <1>1 DEF Stream!Copy, CopyInv, Stream!TypeOK
  <2>2. PICK q \in Nat : q = k[u]
    BY <2>1
  <2>3. PICK x : x = Stream!Index(u, q)
    OBVIOUS
  <2>4. /\ q < Stream!num_streams
        /\ k' = [k EXCEPT ![u] = q + 1]
        /\ copied' = [j \in DOMAIN copied \union {x} |->
                       (IF j \in DOMAIN copied THEN copied[j] ELSE {}) \union (IF j = x THEN {u} ELSE {})]
    BY <1>1, <2>2, <2>3 DEF Stream!Copy, Stream!Left
  <2>5. Stream!num_streams \in Nat
    BY <2>1, Launch
  <2>6. k' \in [Stream!Thread -> 0 .. Stream!num_streams]
    BY <2>1, <2>2, <2>4, <2>5
  <2>7. \A j \in DOMAIN copied : copied[j] \subseteq Stream!Thread /\ copied[j] # {}
    BY <1>1 DEF CopyInv, Stream!TypeOK
  <2>8. \A j \in DOMAIN copied' : copied'[j] \subseteq Stream!Thread /\ copied'[j] # {}
    BY <2>4, <2>7
  <2>9. Stream!TypeOK'
    BY <2>1, <2>6, <2>8, SameLaunch DEF Stream!TypeOK
  <2>10. \A t, j : Marked(t, j)' <=> Marked(t, j) \/ (t = u /\ j = x)
    <3>1. ASSUME NEW t, NEW j PROVE Marked(t, j)' <=> Marked(t, j) \/ (t = u /\ j = x)
      <4>1. j \in DOMAIN copied' <=> j \in DOMAIN copied \/ j = x
        BY <2>4
      <4>2. ASSUME j \in DOMAIN copied'
            PROVE  t \in copied'[j] <=> (j \in DOMAIN copied /\ t \in copied[j]) \/ (t = u /\ j = x)
        BY <2>4, <4>2
      <4>3. QED
        BY <4>1, <4>2 DEF Marked
    <3>2. QED
      BY <3>1
  <2>11. \A t, j : Marked(t, j) <=>
           t \in Stream!Thread /\ \E n \in 0 .. k[t] - 1 : j = Stream!Index(t, n)
    BY <1>1 DEF CopyInv
  <2>12. ASSUME NEW t \in Stream!Thread, NEW j
         PROVE  (\E n \in 0 .. k'[t] - 1 : j = Stream!Index(t, n)) <=>
                  (\E n \in 0 .. k[t] - 1 : j = Stream!Index(t, n)) \/ (t = u /\ j = x)
    <3>1. CASE t = u
      <4>1. k'[t] = q + 1 /\ k[t] = q
        BY <2>1, <2>2, <2>4, <3>1
      <4>2. 0 .. (q + 1) - 1 = (0 .. q - 1) \union {q}
        BY <2>2
      <4>3. QED
        BY <2>3, <3>1, <4>1, <4>2
    <3>2. CASE t # u
      BY <2>1, <2>4, <3>2
    <3>3. QED
      BY <3>1, <3>2
  <2>13. \A t, j : Marked(t, j)' <=>
           t \in Stream!Thread /\ \E n \in 0 .. k'[t] - 1 : j = Stream!Index(t, n)
    BY <2>10, <2>11, <2>12
  <2>14. \A t \in Stream!Thread : ~Stream!Active(t) => k'[t] = 0
    <3>1. \A t \in Stream!Thread : ~Stream!Active(t) => k[t] = 0
      BY <1>1 DEF CopyInv
    <3>2. QED
      BY <2>1, <2>4, <3>1
  <2>15. QED
    BY <2>1, <2>8, <2>9, <2>13, <2>14, SameLaunch DEF CopyInv
<1>2. ASSUME CopyInv, UNCHANGED <<config, k, copied>> PROVE CopyInv'
  BY <1>2, SameLaunch DEF CopyInv, Stream!TypeOK, Marked
<1>3. QED
  BY <1>1, <1>2 DEF Stream!Next, Stream!vars, copyVars

(* What is copied is copied by one thread: what two threads have copied is *)
(* not the same.                                                           *)
LEMMA CopyOnce == CopyInv => Stream!CopiedOnce
<1>1. SUFFICES ASSUME CopyInv, NEW j \in DOMAIN copied PROVE Cardinality(copied[j]) = 1
  BY SameCardinality DEF Stream!CopiedOnce
<1>2. /\ config \in Configurations
      /\ k \in [Stream!Thread -> 0 .. Stream!num_streams]
      /\ Stream!num_streams \in Nat
  BY <1>1, Launch DEF CopyInv, Stream!TypeOK
<1>3. ASSUME NEW t \in copied[j]
      PROVE  /\ t \in Stream!Thread /\ Stream!Active(t)
             /\ \E n \in Nat : n < Stream!num_streams /\ j = Stream!Index(t, n)
  <2>1. t \in Stream!Thread
    BY <1>1 DEF CopyInv, Marked
  <2>2. PICK n \in 0 .. k[t] - 1 : j = Stream!Index(t, n)
    BY <1>1 DEF CopyInv, Marked
  <2>3. k[t] \in 0 .. Stream!num_streams /\ k[t] # 0 /\ n \in Nat /\ n < Stream!num_streams
    BY <1>2, <2>1, <2>2
  <2>4. Stream!Active(t)
    BY <1>1, <2>1, <2>3 DEF CopyInv
  <2>5. QED
    BY <2>1, <2>2, <2>3, <2>4
<1>4. ASSUME NEW t \in copied[j], NEW u \in copied[j] PROVE t = u
  <2>1. PICK n \in Nat : n < Stream!num_streams /\ j = Stream!Index(t, n)
    BY <1>3
  <2>2. PICK m \in Nat : m < Stream!num_streams /\ j = Stream!Index(u, m)
    BY <1>3
  <2>3. QED
    BY <1>2, <1>3, <2>1, <2>2, IndexApart
<1>5. PICK t : t \in copied[j]
  BY <1>1 DEF CopyInv
<1>6. copied[j] = {t}
  BY <1>4, <1>5
<1>7. QED
  BY <1>6, FS_Singleton

LEMMA CopyAll ==
  ASSUME WholeBlocks, CopyInv
  PROVE  Stream!AllCopied
<1>1. SUFFICES ASSUME Stream!Done PROVE DOMAIN copied = Stream!Element
  BY DEF Stream!AllCopied
<1>2. /\ config \in Configurations
      /\ k \in [Stream!Thread -> 0 .. Stream!num_streams]
      /\ Stream!num_streams \in Nat
  BY Launch DEF CopyInv, Stream!TypeOK
<1>3. ASSUME NEW j \in DOMAIN copied PROVE j \in Stream!Element
  <2>1. PICK t : t \in copied[j]
    BY DEF CopyInv
  <2>2. t \in Stream!Thread
    BY <2>1 DEF CopyInv, Marked
  <2>3. PICK n \in 0 .. k[t] - 1 : j = Stream!Index(t, n)
    BY <2>1 DEF CopyInv, Marked
  <2>4. k[t] \in 0 .. Stream!num_streams /\ k[t] # 0 /\ n \in Nat /\ n < Stream!num_streams
    BY <1>2, <2>2, <2>3
  <2>5. Stream!Active(t)
    BY <2>2, <2>4 DEF CopyInv
  <2>6. QED
    BY <1>2, <2>2, <2>3, <2>4, <2>5, IndexInside
<1>4. ASSUME NEW j \in Stream!Element PROVE j \in DOMAIN copied
  <2>1. PICK t \in Stream!Thread : \E n \in Nat :
          Stream!Active(t) /\ n < Stream!num_streams /\ j = Stream!Index(t, n)
    BY <1>2, IndexOnto
  <2>2. PICK n \in Nat : Stream!Active(t) /\ n < Stream!num_streams /\ j = Stream!Index(t, n)
    BY <2>1
  <2>3. k[t] = Stream!num_streams
    BY <1>1, <2>2 DEF Stream!Done
  <2>4. n \in 0 .. k[t] - 1
    BY <1>2, <2>2, <2>3
  <2>5. QED
    BY <2>2, <2>4 DEF CopyInv, Marked
<1>5. QED
  BY <1>3, <1>4

-----------------------------------------------------------------------------
(* DeviceChase: the random chase.  First its numbers: words and the        *)
(* elements they stand for.                                                *)

LEMMA PowerOfTwo == \A n \in Nat : 2 ^ n \in Nat \ {0}
<1> SUFFICES ASSUME NEW n \in Nat PROVE 2 ^ n \in Nat \ {0}
  OBVIOUS
<1>1. IsFiniteSet(1 .. n) /\ Cardinality(1 .. n) = n
  <2>1. 1 \in Int /\ n \in Int
    OBVIOUS
  <2>2. IsFiniteSet(1 .. n) /\ Cardinality(1 .. n) = IF 1 > n THEN 0 ELSE n - 1 + 1
    BY <2>1, FS_Interval, Zenon
  <2>3. QED
    BY <2>2
<1>2. IsFiniteSet(SUBSET (1 .. n)) /\ Cardinality(SUBSET (1 .. n)) = 2 ^ n
  BY <1>1, FS_SUBSET, Zenon
<1>3. 2 ^ n # 0
  <2>1. {} \in SUBSET (1 .. n)
    OBVIOUS
  <2>2. SUBSET (1 .. n) # {}
    BY <2>1
  <2>3. QED
    BY <1>2, <2>2, FS_EmptySet, Zenon
<1>4. 2 ^ n \in Nat
  BY <1>2, FS_CardinalityType, Zenon
<1>5. QED
  BY <1>3, <1>4
(* Every number of a power of two doubles in the next. *)
LEMMA PowerDoubles == \A n \in Nat : 2 ^ (n + 1) = 2 * 2 ^ n
<1> SUFFICES ASSUME NEW n \in Nat PROVE 2 ^ (n + 1) = 2 * 2 ^ n
  OBVIOUS
<1> DEFINE S == SUBSET (1 .. n)
           T == {X \cup {n + 1} : X \in S}
           g == [X \in S |-> X \cup {n + 1}]
<1>1. \A m \in Nat : IsFiniteSet(1 .. m) /\ Cardinality(1 .. m) = m
  <2> SUFFICES ASSUME NEW m \in Nat PROVE IsFiniteSet(1 .. m) /\ Cardinality(1 .. m) = m
    OBVIOUS
  <2>1. 1 \in Int /\ m \in Int
    OBVIOUS
  <2>2. IsFiniteSet(1 .. m) /\ Cardinality(1 .. m) = IF 1 > m THEN 0 ELSE m - 1 + 1
    BY <2>1, FS_Interval, Zenon
  <2>3. QED
    BY <2>2
<1>2. n + 1 \in Nat
  OBVIOUS
<1>3. /\ IsFiniteSet(S) /\ Cardinality(S) = 2 ^ n
      /\ IsFiniteSet(SUBSET (1 .. n + 1)) /\ Cardinality(SUBSET (1 .. n + 1)) = 2 ^ (n + 1)
  BY <1>1, <1>2, FS_SUBSET, Zenon
<1>4. g \in Bijection(S, T)
  <2>1. n + 1 \notin 1 .. n
    OBVIOUS
  <2>2. \A X, Y \in S : X \cup {n + 1} = Y \cup {n + 1} => X = Y
    BY <2>1
  <2>3. g \in [S -> T] /\ (\A y \in T : \E X \in S : g[X] = y)
    OBVIOUS
  <2>4. \A X, Y \in S : g[X] = g[Y] => X = Y
    BY <2>2
  <2>5. QED
    <3> HIDE DEF g, S, T
    <3> QED
      BY <2>3, <2>4, Fun_IsBij
<1>5. ExistsBijection(S, T)
  BY <1>4, Zenon DEF ExistsBijection
<1>6. IsFiniteSet(T) /\ Cardinality(T) = 2 ^ n
  BY <1>3, <1>5, FS_Bijection, Zenon
<1>7. S \cup T = SUBSET (1 .. n + 1)
  <2>1. 1 .. n + 1 = (1 .. n) \cup {n + 1}
    OBVIOUS
  <2>2. ASSUME NEW X \in SUBSET (1 .. n + 1) PROVE X \in S \cup T
    <3>1. CASE n + 1 \in X
      <4>1. X \ {n + 1} \in S
        BY <2>1, <2>2
      <4>2. X = (X \ {n + 1}) \cup {n + 1}
        BY <3>1
      <4>3. QED
        BY <4>1, <4>2
    <3>2. CASE n + 1 \notin X
      BY <2>1, <2>2, <3>2
    <3>3. QED
      BY <3>1, <3>2
  <2>3. S \cup T \subseteq SUBSET (1 .. n + 1)
    BY <2>1
  <2>4. QED
    BY <2>2, <2>3
<1>8. S \cap T = {}
  BY DEF S, T
<1>9. Cardinality(S \cap T) = 0
  BY <1>8, FS_EmptySet, Zenon
<1>10. Cardinality(S \cup T) = 2 ^ n + 2 ^ n - 0
  <2> HIDE DEF S, T
  <2> QED
    BY <1>3, <1>6, <1>9, FS_Union, Zenon
<1>11. PICK m \in Nat : m = 2 ^ n
  BY PowerOfTwo
<1>12. 2 ^ (n + 1) = 2 ^ n + 2 ^ n - 0
  BY <1>3, <1>7, <1>10, Zenon
<1>13. QED
  BY <1>11, <1>12

LEMMA PowerGrows ==
  ASSUME NEW a \in Nat, NEW b \in Nat, a <= b
  PROVE  2 ^ a <= 2 ^ b
<1> DEFINE Less == {x \in Nat : x >= a /\ 2 ^ x < 2 ^ a}
<1>1. SUFFICES ASSUME Less # {} PROVE FALSE
  <2>1. Less = {} => ~(2 ^ b < 2 ^ a)
    OBVIOUS
  <2>2. PICK p \in Nat, q \in Nat : p = 2 ^ a /\ q = 2 ^ b
    BY PowerOfTwo
  <2>3. QED
    BY <2>1, <2>2
<1>2. Less \in SUBSET Nat
  OBVIOUS
<1>3. PICK x \in Less : \A y \in Less : x <= y
  BY <1>1, <1>2, Lowest
<1>4. PICK r \in Nat : r = 2 ^ a
  BY PowerOfTwo
<1>5. x # a
  BY <1>3, <1>4
<1>6. PICK y \in Nat : x = y + 1 /\ y >= a /\ y \notin Less
  <2>1. x - 1 \in Nat /\ x = (x - 1) + 1 /\ x - 1 >= a /\ x - 1 \notin Less
    BY <1>3, <1>5
  <2>2. QED
    BY <2>1
<1>7. PICK p \in Nat : p = 2 ^ y /\ 2 ^ x = 2 * p
  BY <1>6, PowerOfTwo, PowerDoubles
<1>8. QED
  BY <1>3, <1>4, <1>6, <1>7

(* The powers of two the sizes of arrays lie between. *)
LEMMA SomePowers == 2 ^ 4 = 16 /\ 2 ^ 20 = 1048576 /\ 2 ^ 21 = 2097152
  OBVIOUS

(* nBits is the logarithm of the size of the array. *)
LEMMA Bits ==
  ASSUME N \in ArraySizes
  PROVE  /\ N \in Nat /\ N >= 16
         /\ Device!nBits \in 4 .. 20
         /\ 2 ^ Device!nBits \in Nat /\ 2 ^ Device!nBits <= N
<1>1. N \in 16 .. 2 ^ 20
  BY DeviceAssumption DEF Device!Parameters
<1>2. N \in Nat /\ N >= 16 /\ N <= 1048576
  BY <1>1, SomePowers
<1> DEFINE Enough == {b \in 4 .. 30 : N < 2 ^ (b + 1)}
<1>3. 20 \in Enough
  <2>1. 2 ^ (20 + 1) = 2097152
    BY SomePowers
  <2>2. QED
    BY <1>2, <2>1
<1>4. PICK b \in Enough : \A c \in Enough : b <= c
  <2>1. Enough \in SUBSET Nat
    OBVIOUS
  <2>2. QED
    BY <1>3, <2>1, Lowest
<1>5. 2 ^ b <= N
  <2>1. CASE b = 4
    BY <1>2, <2>1, SomePowers
  <2>2. CASE b # 4
    <3>1. PICK c \in 4 .. 30 : b = c + 1 /\ c \notin Enough
      <4>1. b - 1 \in 4 .. 30 /\ b = (b - 1) + 1 /\ b - 1 \notin Enough
        BY <1>4, <2>2
      <4>2. QED
        BY <4>1
    <3>2. PICK p \in Nat : p = 2 ^ (c + 1)
      <4>1. c + 1 \in Nat
        OBVIOUS
      <4>2. QED
        BY <4>1, PowerOfTwo
    <3>3. QED
      BY <1>2, <3>1, <3>2
  <2>3. QED
    BY <2>1, <2>2
<1>6. Device!nBits \in 4 .. 30 /\ 2 ^ Device!nBits <= N /\ N < 2 ^ (Device!nBits + 1)
  <2>1. \E c \in 4 .. 30 : 2 ^ c <= N /\ N < 2 ^ (c + 1)
    BY <1>4, <1>5
  <2>2. QED
    BY <2>1 DEF Device!nBits
<1>7. PICK c \in 4 .. 30 : c = Device!nBits
  BY <1>6
<1>8. PICK p \in Nat : p = 2 ^ c
  <2>1. c \in Nat
    OBVIOUS
  <2>2. QED
    BY <2>1, PowerOfTwo
<1>9. c <= 20
  <2>1. ASSUME c >= 21 PROVE FALSE
    <3>1. 2 ^ 21 <= 2 ^ c
      <4>1. 21 \in Nat /\ c \in Nat
        OBVIOUS
      <4>2. QED
        BY <2>1, <4>1, PowerGrows
    <3>2. 2097152 <= p
      BY <1>8, <3>1, SomePowers
    <3>3. QED
      BY <1>2, <1>6, <1>7, <1>8, <3>2
  <2>2. QED
    BY <2>1
<1>10. QED
  BY <1>2, <1>6, <1>7, <1>8, <1>9

LEMMA HalfOf ==
  ASSUME NEW n \in Nat, NEW p \in Nat \ {0}
  PROVE  n \div (2 * p) = (n \div p) \div 2
<1>1. PICK q \in Nat : q = n \div p /\ p * q <= n /\ n < p * q + p
  OBVIOUS
<1>2. PICK r \in Nat : r = q \div 2 /\ (q = 2 * r \/ q = 2 * r + 1)
  OBVIOUS
<1>3. PICK P \in Nat \ {0} : P = 2 * p
  OBVIOUS
<1>4. P * r = p * (2 * r) /\ p * (2 * r + 1) = p * (2 * r) + p
  BY <1>3
<1>5. P * r \in Nat /\ n - P * r \in 0 .. P - 1
  BY <1>1, <1>2, <1>3, <1>4
<1>6. PICK d \in 0 .. P - 1 : d = n - P * r
  BY <1>5
<1>7. (P * r + d) \div P = r
  BY Quotient
<1>8. P * r + d = n
  BY <1>5, <1>6
<1>9. QED
  BY <1>1, <1>2, <1>3, <1>7, <1>8

(* Different numbers stand for different words. *)
LEMMA ElementDiffers ==
  ASSUME NEW n \in 0 .. 2 ^ 21 - 1, NEW m \in 0 .. 2 ^ 21 - 1, Device!Element(n) = Device!Element(m)
  PROVE  n = m
<1>1. PICK L \in Nat \ {0} : L = 2 ^ 21
  BY SomePowers
<1>2. n \in Nat /\ m \in Nat /\ n < L /\ m < L
  BY <1>1
<1> DEFINE Same == {x \in 0 .. 21 : n \div 2 ^ x = m \div 2 ^ x}
<1>3. 21 \in Same
  <2>1. n \div L = 0 /\ m \div L = 0
    BY <1>2
  <2>2. QED
    BY <1>1, <2>1
<1>4. PICK t \in Same : \A x \in Same : t <= x
  <2>1. Same \subseteq Nat
    OBVIOUS
  <2>2. QED
    BY <1>3, <2>1, Lowest
<1>5. t \in 0 .. 21 /\ n \div 2 ^ t = m \div 2 ^ t
  BY <1>4
<1>6. CASE t = 0
  <2>1. 2 ^ 0 = 1
    OBVIOUS
  <2>2. n \div 1 = m \div 1
    BY <1>5, <1>6, <2>1
  <2>3. QED
    BY <1>2, <2>2
<1>7. CASE t > 0
  <2>1. PICK u \in 0 .. 20 : t = u + 1
    BY <1>5, <1>7
  <2>2. PICK p \in Nat \ {0} : p = 2 ^ u /\ 2 ^ t = 2 * p
    <3>1. u \in Nat
      BY <2>1
    <3>2. QED
      BY <2>1, <3>1, PowerOfTwo, PowerDoubles
  <2>3. PICK a \in Nat, b \in Nat : a = n \div p /\ b = m \div p
    BY <1>2
  <2>4. a \div 2 = b \div 2
    <3>1. n \div (2 * p) = m \div (2 * p)
      BY <1>5, <2>2
    <3>2. QED
      BY <1>2, <2>3, <3>1, HalfOf
  <2>5. a % 2 = 1 <=> b % 2 = 1
    <3>1. u \in Device!Element(n) <=> u \in Device!Element(m)
      OBVIOUS
    <3>2. QED
      BY <2>1, <2>2, <2>3, <3>1 DEF Device!Element
  <2>6. a = b
    BY <2>4, <2>5
  <2>7. u \in Same
    BY <2>1, <2>2, <2>3, <2>6
  <2>8. QED
    BY <1>4, <2>1, <2>7
<1>8. QED
  BY <1>5, <1>6, <1>7

(* The numbers below a power of two stand for the words of that size. *)
LEMMA ElementWord ==
  ASSUME NEW b \in 4 .. 20, NEW n \in 0 .. 2 ^ b - 1
  PROVE  Device!Element(n) \in Device!Word(b)
<1>1. ASSUME NEW x \in Device!Element(n) PROVE x \in 0 .. b - 1
  <2>1. x \in 0 .. 20 /\ (n \div 2 ^ x) % 2 = 1
    BY DEF Device!Element
  <2>2. ASSUME x >= b PROVE FALSE
    <3>1. PICK p \in Nat, q \in Nat \ {0} : p = 2 ^ b /\ q = 2 ^ x /\ p <= q
      <4>1. b \in Nat /\ x \in Nat
        BY <2>1
      <4>2. 2 ^ b \in Nat /\ 2 ^ x \in Nat \ {0} /\ 2 ^ b <= 2 ^ x
        BY <2>2, <4>1, PowerOfTwo, PowerGrows
      <4>3. QED
        BY <4>2
    <3>2. n \in Nat /\ n < q
      BY <3>1
    <3>3. n \div q = 0
      BY <3>2
    <3>4. QED
      BY <2>1, <3>1, <3>3
  <2>3. QED
    BY <2>1, <2>2
<1>2. QED
  BY <1>1 DEF Device!Word

(* How many words there are. *)
LEMMA WordCount ==
  ASSUME NEW b \in Nat
  PROVE  IsFiniteSet(Device!Word(b)) /\ Cardinality(Device!Word(b)) = 2 ^ b
<1>1. 0 \in Int /\ b - 1 \in Int
  OBVIOUS
<1>2. IsFiniteSet(0 .. b - 1) /\ Cardinality(0 .. b - 1) = IF 0 > b - 1 THEN 0 ELSE b - 1 - 0 + 1
  BY <1>1, FS_Interval, Zenon
<1>3. IsFiniteSet(0 .. b - 1) /\ Cardinality(0 .. b - 1) = b
  BY <1>2
<1>4. QED
  BY <1>3, FS_SUBSET, Zenon DEF Device!Word

LEMMA BelowCount ==
  ASSUME NEW p \in Nat
  PROVE  IsFiniteSet(0 .. p - 1) /\ Cardinality(0 .. p - 1) = p
<1>1. 0 \in Int /\ p - 1 \in Int
  OBVIOUS
<1>2. IsFiniteSet(0 .. p - 1) /\ Cardinality(0 .. p - 1) = IF 0 > p - 1 THEN 0 ELSE p - 1 - 0 + 1
  BY <1>1, FS_Interval, Zenon
<1>3. QED
  BY <1>2

(* Every word is the element of some number. *)
LEMMA WordElement ==
  ASSUME NEW b \in 4 .. 20
  PROVE  \A w \in Device!Word(b) : \E n \in 0 .. 2 ^ b - 1 : Device!Element(n) = w
<1>1. PICK p \in Nat : p = 2 ^ b /\ p <= 2 ^ 21
  <2>1. b \in Nat /\ 21 \in Nat /\ b <= 21
    OBVIOUS
  <2>2. 2 ^ b \in Nat /\ 2 ^ b <= 2 ^ 21
    BY <2>1, PowerOfTwo, PowerGrows
  <2>3. QED
    BY <2>2
<1> DEFINE f == [n \in 0 .. p - 1 |-> Device!Element(n)]
<1>2. f \in [0 .. p - 1 -> Device!Word(b)]
  BY <1>1, ElementWord
<1>3. \A n, m \in 0 .. p - 1 : f[n] = f[m] => n = m
  <2>1. \A n \in 0 .. p - 1 : n \in 0 .. 2 ^ 21 - 1
    BY <1>1, SomePowers
  <2>2. QED
    BY <2>1, ElementDiffers
<1>4. f \in Injection(0 .. p - 1, Device!Word(b))
  <2> HIDE DEF f
  <2>1. QED
    BY <1>2, <1>3, Fun_IsInj
<1>5. b \in Nat
  OBVIOUS
<1>6. f \in Surjection(0 .. p - 1, Device!Word(b))
  <2> HIDE DEF f
  <2>1. IsFiniteSet(Device!Word(b)) /\ Cardinality(Device!Word(b)) = p
    BY <1>1, <1>5, WordCount
  <2>2. Cardinality(0 .. p - 1) = Cardinality(Device!Word(b))
    BY <2>1, BelowCount
  <2>3. QED
    BY <1>4, <2>1, <2>2, FS_Injection, Zenon
<1>7. \A w \in Device!Word(b) : \E n \in 0 .. p - 1 : f[n] = w
  <2> HIDE DEF f
  <2>1. QED
    BY <1>6 DEF Surjection
<1>8. QED
  BY <1>1, <1>7

(* The words of nBits bits are elements of the array, and all of them if   *)
(* its size is a power of two.                                             *)
LEMMA ArrayWords ==
  ASSUME N \in ArraySizes
  PROVE  /\ Device!Word(Device!nBits) \subseteq Device!Array
         /\ N = 2 ^ Device!nBits => Device!Array = Device!Word(Device!nBits)
         /\ Device!Zero \in Device!Word(Device!nBits) /\ Device!One \in Device!Word(Device!nBits)
         /\ Device!Zero # Device!One
<1>1. PICK b \in 4 .. 20 : b = Device!nBits
  BY Bits
<1>2. PICK p \in Nat : p = 2 ^ b /\ p <= N /\ N \in Nat
  BY <1>1, Bits
<1>3. Device!Array = {Device!Element(n) : n \in 0 .. N - 1}
  BY DEF Device!Array
<1>4. Device!Word(b) \subseteq Device!Array
  <2>1. \A n \in 0 .. p - 1 : n \in 0 .. N - 1
    BY <1>2
  <2>2. \A w \in Device!Word(b) : \E n \in 0 .. p - 1 : Device!Element(n) = w
    BY <1>2, WordElement
  <2>3. QED
    BY <1>3, <2>1, <2>2
<1>5. ASSUME N = p PROVE Device!Array = Device!Word(b)
  <2>1. \A n \in 0 .. N - 1 : Device!Element(n) \in Device!Word(b)
    BY <1>2, <1>5, ElementWord
  <2>2. QED
    BY <1>3, <1>4, <2>1
<1>6. Device!Zero \in Device!Word(b) /\ Device!One \in Device!Word(b) /\ Device!Zero # Device!One
  BY DEF Device!Zero, Device!One, Device!Word
<1>7. QED
  BY <1>1, <1>2, <1>4, <1>5, <1>6

(* Draws stay in the word, whatever the shifts. *)
LEMMA DrawWord ==
  \A amounts, b, w : w \in Device!Word(b) => Device!Draw(amounts, b, w) \in Device!Word(b)
<1>1. \A b, v, w : v \in Device!Word(b) /\ w \in Device!Word(b) => Device!Xor(v, w) \in Device!Word(b)
  BY DEF Device!Xor, Device!Word
<1>2. \A w, n, b : Device!ShiftRight(w, n, b) \in Device!Word(b) /\ Device!ShiftLeft(w, n, b) \in Device!Word(b)
  BY DEF Device!ShiftRight, Device!ShiftLeft, Device!Word
<1>3. QED
  BY <1>1, <1>2, Zenon DEF Device!Draw

-----------------------------------------------------------------------------
(* The run of the random chase: types, and what the host's check compares. *)

(* The sizes the theorems are about: the array has an element for every    *)
(* work item to start from, those of a last block included.  The programs  *)
(* take both numbers from the command line and do not compare them.        *)
GridFits ==
  \A n \in ArraySizes, t \in Threads : ((t + groupSize - 1) \div groupSize) * groupSize <= n

(* The elements the chain of an item leads to. *)
Chain(id) ==
  CHOOSE f : f = [m \in 0 .. nIter |-> IF m = 0 THEN input[Device!Element(id)] ELSE input[f[m - 1]]]

LEMMA ChainIs ==
  ASSUME NEW id
  PROVE  /\ Chain(id)[0] = input[Device!Element(id)]
         /\ \A m \in 1 .. nIter : Chain(id)[m] = input[Chain(id)[m - 1]]
         /\ Device!Walk(id) = Chain(id)[nIter]
<1> DEFINE first == input[Device!Element(id)]
           Leads(f, n) == f = [m \in 0 .. n |-> IF m = 0 THEN first ELSE input[f[m - 1]]]
           Short == {n \in Nat : \A f : ~Leads(f, n)}
<1>1. Short = {}
  <2>1. SUFFICES ASSUME Short # {} PROVE FALSE
    OBVIOUS
  <2>2. Short \in SUBSET Nat
    OBVIOUS
  <2>3. PICK n \in Short : \A m \in Short : n <= m
    BY <2>1, <2>2, Lowest
  <2>4. n # 0
    <3> DEFINE g == [m \in 0 .. 0 |-> first]
    <3>1. Leads(g, 0)
      OBVIOUS
    <3>2. QED
      BY <2>3, <3>1
  <2>5. n - 1 \in Nat /\ n - 1 \notin Short
    BY <2>3, <2>4
  <2>6. PICK f : Leads(f, n - 1)
    BY <2>5
  <2> DEFINE g == [m \in 0 .. n |-> IF m = n THEN input[f[n - 1]] ELSE f[m]]
  <2>7. \A m \in 0 .. n - 1 : f[m] = IF m = 0 THEN first ELSE input[f[m - 1]]
    <3> HIDE DEF first
    <3>1. \A m \in 0 .. n - 1 : [l \in 0 .. n - 1 |-> IF l = 0 THEN first ELSE input[f[l - 1]]][m]
                                 = IF m = 0 THEN first ELSE input[f[m - 1]]
      OBVIOUS
    <3>2. QED
      BY <2>6, <3>1
  <2>8. ASSUME NEW m \in 0 .. n PROVE g[m] = IF m = 0 THEN first ELSE input[g[m - 1]]
    <3>1. CASE m = n
      <4>1. n - 1 \in 0 .. n /\ n - 1 # n
        BY <2>5
      <4>2. g[n - 1] = f[n - 1] /\ g[n] = input[f[n - 1]]
        BY <4>1
      <4>3. QED
        BY <2>4, <3>1, <4>2
    <3>2. CASE m # n
      <4>1. m \in 0 .. n - 1 /\ g[m] = f[m]
        BY <3>2
      <4>2. m # 0 => g[m - 1] = f[m - 1]
        BY <4>1
      <4>3. QED
        BY <2>7, <4>1, <4>2
    <3>3. QED
      BY <3>1, <3>2
  <2>9. g = [m \in 0 .. n |-> IF m = 0 THEN first ELSE input[g[m - 1]]]
    <3>1. g = [m \in 0 .. n |-> g[m]]
      OBVIOUS
    <3> HIDE DEF g, first
    <3>2. [m \in 0 .. n |-> g[m]] = [m \in 0 .. n |-> IF m = 0 THEN first ELSE input[g[m - 1]]]
      BY <2>8
    <3>3. QED
      BY <3>1, <3>2
  <2>10. Leads(g, n)
    <3> HIDE DEF g, first
    <3>1. QED
      BY <2>9
  <2>11. QED
    BY <2>3, <2>10
<1>2. nIter \in Nat
  BY DeviceAssumption DEF Device!Parameters
<1>3. Leads(Chain(id), nIter)
  <2>1. \E f : Leads(f, nIter)
    <3> HIDE DEF Leads
    <3>1. QED
      BY <1>1, <1>2
  <2>2. QED
    BY <2>1 DEF Chain
<1>4. \A m \in 0 .. nIter : Chain(id)[m] = IF m = 0 THEN first ELSE input[Chain(id)[m - 1]]
  <2> HIDE DEF first
  <2>1. \A m \in 0 .. nIter : [l \in 0 .. nIter |-> IF l = 0 THEN first ELSE input[Chain(id)[l - 1]]][m]
                               = IF m = 0 THEN first ELSE input[Chain(id)[m - 1]]
    OBVIOUS
  <2>2. QED
    BY <1>3, <2>1
<1>5. Device!Walk(id) = Chain(id)[nIter]
  BY DEF Device!Walk, Chain
<1>6. QED
  BY <1>2, <1>4, <1>5

LEMMA Items ==
  ASSUME GridFits, host \in Hosts, N \in ArraySizes, items \in Threads
  PROVE  /\ Device!Item \subseteq 0 .. N - 1
         /\ 0 .. items - 1 \subseteq Device!Item
         /\ items \in Nat \ {0}
         /\ (host = "opencl" => Device!Item = 0 .. items - 1)
         /\ (items % groupSize = 0 => Device!Item = 0 .. items - 1)
         /\ (host = "cuda" /\ items % groupSize # 0 => \E id \in Device!Item : ~(id < items))
<1>1. groupSize \in Nat \ {0} /\ items \in Nat \ {0} /\ host \in {"opencl", "cuda"} /\ N \in Nat
  BY Bits, DeviceAssumption DEF Device!Parameters
<1>2. PICK t \in Nat \ {0}, d \in Nat \ {0} : t = items /\ d = groupSize
  BY <1>1
<1>3. PICK b \in Nat \ {0} : /\ b = (t + d - 1) \div d /\ b * d \in Nat /\ t <= b * d
                             /\ (t % d = 0 => b * d = t)
  BY Rounded
<1>4. b * d <= N
  BY <1>2, <1>3 DEF GridFits
<1>5. Device!Item = IF host = "cuda" THEN 0 .. b * d - 1 ELSE 0 .. t - 1
  BY <1>2, <1>3 DEF Device!Item, Device!Blocks
<1>6. Device!Item \subseteq 0 .. N - 1 /\ 0 .. t - 1 \subseteq Device!Item
  BY <1>1, <1>3, <1>4, <1>5
<1>7. host = "opencl" => Device!Item = 0 .. t - 1
  BY <1>5
<1>8. t % d = 0 => Device!Item = 0 .. t - 1
  BY <1>3, <1>5
<1>9. ASSUME host = "cuda", t % d # 0 PROVE \E id \in Device!Item : ~(id < t)
  <2>1. b * d # t
    <3>1. ASSUME b * d = t PROVE FALSE
      <4>1. 0 \in 0 .. d - 1
        OBVIOUS
      <4>2. (d * b + 0) % d = 0
        BY <4>1, Quotient
      <4>3. d * b + 0 = t
        BY <3>1
      <4>4. QED
        BY <1>9, <4>2, <4>3
    <3>2. QED
      BY <3>1
  <2>2. t \in Device!Item
    BY <1>3, <1>5, <1>9, <2>1
  <2>3. QED
    BY <2>2
<1>10. QED
  BY <1>1, <1>2, <1>6, <1>7, <1>8, <1>9

(* An item has come as far along its chain as it has made loads, and has   *)
(* stored what the host comes to.                                          *)
Came(id) ==
  /\ device_loads[id] \in 1 .. nIter + 1 => temp[id] = Chain(id)[device_loads[id] - 1]
  /\ device_loads[id] = nIter + 2 /\ id < items => output[id] = Chain(id)[nIter]

DeviceRun ==
  /\ Device!TypeOK
  /\ device_pc = "fill" => \A id \in Device!Item : device_loads[id] = 0
  /\ device_pc = "kernel" => Device!Accepted
  /\ \A e \in Device!Array : input[e] \in Device!Word(Device!nBits)
  /\ \A id \in Device!Item : temp[id] \in Device!Word(Device!nBits) /\ Came(id)
  /\ diffCount = 0

LEMMA DeviceInit ==
  ASSUME GridFits, Device!Init
  PROVE  DeviceRun
<1>1. /\ host \in Hosts /\ N \in ArraySizes /\ items \in Threads
      /\ shifter \in Device!Shifters(host, Device!nBits)
      /\ device_pc = "fill" /\ i = 0 /\ index = Device!One
      /\ input = [[e \in Device!Array |-> Device!Zero] EXCEPT ![Device!Zero] = Device!One]
      /\ temp = [id \in Device!Item |-> Device!Zero]
      /\ device_loads = [id \in Device!Item |-> 0]
      /\ output = [id \in 0 .. items - 1 |-> Device!Zero]
      /\ diffCount = 0
  BY DEF Device!Init
<1>2. nIter \in Nat /\ N \in Nat
  BY <1>1, DeviceAssumption, Bits DEF Device!Parameters
<1>3. PICK W : W = Device!Word(Device!nBits)
  OBVIOUS
<1>4. W \subseteq Device!Array /\ Device!Zero \in W /\ Device!One \in W
  BY <1>1, <1>3, ArrayWords
<1>5. \A e \in Device!Array : input[e] \in W
  BY <1>1, <1>4
<1>6. input \in [Device!Array -> Device!Array]
  BY <1>1, <1>4
<1>7. Device!TypeOK
  BY <1>1, <1>2, <1>3, <1>4, <1>6 DEF Device!TypeOK
<1>8. \A id \in Device!Item : temp[id] \in W /\ Came(id)
  BY <1>1, <1>2, <1>4 DEF Came
<1>9. QED
  BY <1>1, <1>3, <1>5, <1>7, <1>8 DEF DeviceRun

LEMMA SameSizes ==
  ASSUME host' = host, N' = N, items' = items
  PROVE  /\ Device!nBits' = Device!nBits /\ Device!Array' = Device!Array /\ Device!Item' = Device!Item
         /\ Device!Accepted' = Device!Accepted
BY DEF Device!nBits, Device!Array, Device!Item, Device!Blocks, Device!Accepted

LEMMA SameChain ==
  ASSUME input' = input
  PROVE  \A id : Chain(id)' = Chain(id)
BY DEF Chain

(* The facts of a state that its steps use. *)
LEMMA DeviceFacts ==
  ASSUME GridFits, DeviceRun
  PROVE  /\ host \in Hosts /\ N \in ArraySizes /\ items \in Threads /\ items \in Nat \ {0}
         /\ N \in Nat /\ N >= 16 /\ nIter \in Nat
         /\ device_pc \in {"fill", "kernel", "done", "exit"}
         /\ i \in 0 .. N /\ index \in Device!Word(Device!nBits)
         /\ input \in [Device!Array -> Device!Array]
         /\ temp \in [Device!Item -> Device!Array]
         /\ device_loads \in [Device!Item -> 0 .. nIter + 2]
         /\ output \in [0 .. items - 1 -> Device!Array]
         /\ Device!Word(Device!nBits) \subseteq Device!Array
         /\ Device!Item \subseteq 0 .. N - 1 /\ 0 .. items - 1 \subseteq Device!Item
         /\ \A id \in Device!Item : Device!Element(id) \in Device!Array
<1>1. /\ host \in Hosts /\ N \in ArraySizes /\ items \in Threads
      /\ device_pc \in {"fill", "kernel", "done", "exit"}
      /\ i \in 0 .. N /\ index \in Device!Word(Device!nBits)
      /\ input \in [Device!Array -> Device!Array]
      /\ temp \in [Device!Item -> Device!Array]
      /\ device_loads \in [Device!Item -> 0 .. nIter + 2]
      /\ output \in [0 .. items - 1 -> Device!Array]
  BY DEF DeviceRun, Device!TypeOK
<1>2. N \in Nat /\ N >= 16 /\ nIter \in Nat /\ Device!Word(Device!nBits) \subseteq Device!Array
  BY <1>1, DeviceAssumption, Bits, ArrayWords DEF Device!Parameters
<1>3. Device!Item \subseteq 0 .. N - 1 /\ 0 .. items - 1 \subseteq Device!Item /\ items \in Nat \ {0}
  BY <1>1, Items
<1>4. \A id \in Device!Item : Device!Element(id) \in Device!Array
  BY <1>3 DEF Device!Array
<1>5. QED
  BY <1>1, <1>2, <1>3, <1>4

LEMMA FillStep ==
  ASSUME GridFits, DeviceRun, Device!Fill
  PROVE  DeviceRun'
<1> USE DeviceFacts
<1>1. /\ device_pc = "fill" /\ i < N - 2 /\ i' = i + 1
      /\ index' = Device!Draw(shifter, Device!nBits, index)
      /\ input' = [input EXCEPT ![index] = index']
      /\ UNCHANGED <<host, N, shifter, items, device_pc, temp, device_loads, output, diffCount>>
  BY DEF Device!Fill, Device!DrawsLeft
<1>2. index' \in Device!Word(Device!nBits)
  BY <1>1, DrawWord
<1>3. PICK W : W = Device!Word(Device!nBits)
  OBVIOUS
<1>4. input' \in [Device!Array -> Device!Array]
  BY <1>1, <1>2
<1>5. \A e \in Device!Array : input'[e] \in W
  <2>1. \A e \in Device!Array : input[e] \in W
    BY <1>3 DEF DeviceRun
  <2>2. index' \in W
    BY <1>2, <1>3
  <2>3. QED
    BY <1>1, <2>1, <2>2
<1>6. \A id \in Device!Item : device_loads[id] = 0 /\ temp[id] \in W
  BY <1>1, <1>3 DEF DeviceRun
<1>7. \A id \in Device!Item : Came(id)'
  BY <1>1, <1>6 DEF Came
<1>8. i' \in 0 .. N
  BY <1>1
<1>9. Device!TypeOK'
  BY <1>1, <1>2, <1>4, <1>8, SameSizes DEF DeviceRun, Device!TypeOK
<1>10. QED
  BY <1>1, <1>3, <1>5, <1>6, <1>7, <1>9, SameSizes DEF DeviceRun

LEMMA LaunchStep ==
  ASSUME GridFits, DeviceRun, Device!Launch
  PROVE  DeviceRun'
<1>1. /\ device_pc' = IF Device!Accepted THEN "kernel" ELSE "exit"
      /\ UNCHANGED <<host, N, shifter, items, i, index, input, temp, device_loads, output, diffCount>>
  BY DEF Device!Launch
<1>2. Device!TypeOK'
  BY <1>1, SameSizes DEF DeviceRun, Device!TypeOK
<1>3. \A id : Came(id)' = Came(id)
  BY <1>1, SameChain DEF Came
<1>4. device_pc' # "fill" /\ (device_pc' = "kernel" => Device!Accepted)
  BY <1>1
<1>5. QED
  BY <1>1, <1>2, <1>3, <1>4, SameSizes DEF DeviceRun

LEMMA ItemLoadStep ==
  ASSUME GridFits, DeviceRun, NEW u \in Device!Item, Device!Load(u)
  PROVE  DeviceRun'
<1> USE DeviceFacts
<1>1. PICK from : from = IF device_loads[u] = 0 THEN Device!Element(u) ELSE temp[u]
  OBVIOUS
<1>2. PICK c \in Nat : c = device_loads[u]
  OBVIOUS
<1>3. /\ device_pc = "kernel" /\ c <= nIter
      /\ temp' = [temp EXCEPT ![u] = input[from]]
      /\ device_loads' = [device_loads EXCEPT ![u] = c + 1]
      /\ UNCHANGED <<host, N, shifter, items, device_pc, i, index, input, output, diffCount>>
  BY <1>1, <1>2 DEF Device!Load
<1>4. from \in Device!Array
  BY <1>1
<1>5. PICK W : W = Device!Word(Device!nBits)
  OBVIOUS
<1>6. input[from] \in W /\ input[from] \in Device!Array
  BY <1>4, <1>5 DEF DeviceRun
<1>7. device_loads' \in [Device!Item -> 0 .. nIter + 2] /\ temp' \in [Device!Item -> Device!Array]
  BY <1>2, <1>3, <1>6
<1>8. Device!TypeOK'
  BY <1>3, <1>7, SameSizes DEF DeviceRun, Device!TypeOK
<1>9. input[from] = Chain(u)[c]
  <2>1. CASE c = 0
    BY <1>1, <1>2, <2>1, ChainIs
  <2>2. CASE c # 0
    <3>1. c \in 1 .. nIter /\ c \in 1 .. nIter + 1
      BY <1>3, <2>2
    <3>2. temp[u] = Chain(u)[c - 1]
      BY <1>2, <3>1 DEF DeviceRun, Came
    <3>3. from = temp[u]
      BY <1>1, <1>2, <2>2
    <3>4. QED
      BY <3>1, <3>2, <3>3, ChainIs
  <2>3. QED
    BY <2>1, <2>2
<1>10. ASSUME NEW id \in Device!Item PROVE temp'[id] \in W /\ Came(id)'
  <2>1. Came(id) /\ temp[id] \in W
    BY <1>5 DEF DeviceRun
  <2>2. Chain(id)' = Chain(id)
    BY <1>3, SameChain
  <2>3. CASE id = u
    <3>1. temp'[id] = Chain(id)[c] /\ temp'[id] \in W /\ device_loads'[id] = c + 1
      BY <1>3, <1>6, <1>9, <2>3
    <3>2. (c + 1) - 1 = c /\ c + 1 # nIter + 2
      BY <1>3
    <3>3. QED
      BY <2>2, <3>1, <3>2 DEF Came
  <2>4. CASE id # u
    <3>1. temp'[id] = temp[id] /\ device_loads'[id] = device_loads[id]
      BY <1>3, <2>4
    <3>2. QED
      BY <1>3, <2>1, <2>2, <3>1 DEF Came
  <2>5. QED
    BY <2>3, <2>4
<1>11. QED
  BY <1>3, <1>5, <1>8, <1>10, SameSizes DEF DeviceRun

LEMMA ItemStoreStep ==
  ASSUME GridFits, DeviceRun, NEW u \in Device!Item, Device!Store(u)
  PROVE  DeviceRun'
<1> USE DeviceFacts
<1>1. /\ device_pc = "kernel" /\ device_loads[u] = nIter + 1
      /\ output' = [output EXCEPT ![u] = temp[u]]
      /\ device_loads' = [device_loads EXCEPT ![u] = nIter + 2]
      /\ UNCHANGED <<host, N, shifter, items, device_pc, i, index, input, temp, diffCount>>
  <2>1. (nIter + 1) + 1 = nIter + 2
    OBVIOUS
  <2>2. QED
    BY <2>1 DEF Device!Store
<1>2. Device!TypeOK'
  <2>1. device_loads' \in [Device!Item -> 0 .. nIter + 2]
    <3>1. nIter + 2 \in 0 .. nIter + 2
      OBVIOUS
    <3>2. QED
      BY <1>1, <3>1
  <2>2. output' \in [0 .. items - 1 -> Device!Array]
    BY <1>1
  <2>3. QED
    BY <1>1, <2>1, <2>2, SameSizes DEF DeviceRun, Device!TypeOK
<1>3. temp[u] = Chain(u)[nIter]
  <2>1. nIter + 1 \in 1 .. nIter + 1 /\ (nIter + 1) - 1 = nIter
    OBVIOUS
  <2>2. QED
    BY <1>1, <2>1 DEF DeviceRun, Came
<1>4. ASSUME NEW id \in Device!Item PROVE Came(id)'
  <2>1. Came(id) /\ Chain(id)' = Chain(id)
    BY <1>1, SameChain DEF DeviceRun
  <2>2. CASE id = u
    <3>1. device_loads'[id] = nIter + 2 /\ nIter + 2 \notin 1 .. nIter + 1
      BY <1>1, <2>2
    <3>2. id < items => output'[id] = Chain(id)[nIter]
      <4>1. id < items => id \in 0 .. items - 1
        OBVIOUS
      <4>2. QED
        BY <1>1, <1>3, <2>2, <4>1
    <3>3. QED
      BY <1>1, <2>1, <3>1, <3>2 DEF Came
  <2>3. CASE id # u
    <3>1. device_loads'[id] = device_loads[id] /\ output'[id] = output[id]
      BY <1>1, <2>3
    <3>2. QED
      BY <1>1, <2>1, <3>1 DEF Came
  <2>4. QED
    BY <2>2, <2>3
<1>5. QED
  BY <1>1, <1>2, <1>4, SameSizes DEF DeviceRun

(* The host's walks end where the items have. *)
LEMMA VerifyStep ==
  ASSUME GridFits, DeviceRun, Device!Verify
  PROVE  DeviceRun'
<1> USE DeviceFacts
<1>1. /\ \A id \in Device!Item : device_loads[id] = nIter + 2
      /\ device_pc' = "done"
      /\ UNCHANGED <<host, N, shifter, items, i, index, input, temp, device_loads, output>>
  BY DEF Device!Verify
<1>2. PICK bad \in SUBSET (0 .. items - 1) :
        /\ \A id \in 0 .. items - 1 : id \in bad <=> Device!Walk(id) # output[id]
        /\ diffCount' = IF bad = {} THEN 0 ELSE 1
  BY DEF Device!Verify
<1>3. ASSUME NEW id \in 0 .. items - 1 PROVE Device!Walk(id) = output[id]
  <2>1. id \in Device!Item /\ id < items
    OBVIOUS
  <2>2. QED
    BY <1>1, <2>1, ChainIs DEF DeviceRun, Came
<1>4. diffCount' = 0
  BY <1>2, <1>3
<1>5. Device!TypeOK'
  <2>1. device_pc' \in {"fill", "kernel", "done", "exit"} /\ diffCount' \in {0, 1}
    BY <1>1, <1>4
  <2>2. QED
    BY <1>1, <2>1, SameSizes DEF DeviceRun, Device!TypeOK
<1>6. \A id : Came(id)' = Came(id)
  BY <1>1, SameChain DEF Came
<1>7. QED
  BY <1>1, <1>4, <1>5, <1>6, SameSizes DEF DeviceRun

LEMMA DeviceStep ==
  ASSUME GridFits, DeviceRun, [Device!Next]_deviceVars
  PROVE  DeviceRun'
<1>1. ASSUME UNCHANGED deviceVars PROVE DeviceRun'
  <2>1. UNCHANGED <<host, N, shifter, items, device_pc, i, index, input, temp, device_loads, output, diffCount>>
    BY <1>1 DEF deviceVars
  <2>2. Device!TypeOK'
    BY <2>1, SameSizes DEF DeviceRun, Device!TypeOK
  <2>3. \A id : Came(id)' = Came(id)
    BY <2>1, SameChain DEF Came
  <2>4. QED
    BY <2>1, <2>2, <2>3, SameSizes DEF DeviceRun
<1>2. UNCHANGED Device!vars => UNCHANGED deviceVars
  BY DEF Device!vars, deviceVars
<1>3. QED
  BY <1>1, <1>2, FillStep, LaunchStep, ItemLoadStep, ItemStoreStep, VerifyStep DEF Device!Next

LEMMA DeviceKeeps ==
  ASSUME GridFits, DeviceRun
  PROVE  Device!TypeOK /\ Device!InBounds /\ Device!Confined /\ Device!Verified
<1>1. Device!TypeOK /\ Device!Confined /\ Device!Verified
  BY DEF DeviceRun, Device!Confined, Device!Verified
<1>2. ASSUME device_pc = "kernel"
      PROVE  (\A id \in Device!Item : id < items) <=> (host = "opencl" \/ items % groupSize = 0)
  <2>1. host \in Hosts /\ N \in ArraySizes /\ items \in Threads
    BY DeviceFacts
  <2>2. host \in {"opencl", "cuda"} /\ items \in Nat \ {0}
    BY <2>1, DeviceAssumption, Items DEF Device!Parameters
  <2>3. Device!Item = 0 .. items - 1 => \A id \in Device!Item : id < items
    BY <2>2
  <2>4. QED
    BY <2>1, <2>2, <2>3, Items
<1>3. Device!InBounds
  BY <1>2, DeviceFacts DEF Device!InBounds
<1>4. QED
  BY <1>1, <1>3


-----------------------------------------------------------------------------
(* The cycle of the random chase. *)

(* What FullPeriod asks of a generator: from the seed it comes to every    *)
(* word but 0.                                                             *)
Whole(amounts, b) ==
  \A S \in SUBSET Device!Word(b) :
    Device!One \in S /\ (\A w \in S : Device!Draw(amounts, b, w) \in S) => Device!Word(b) \ {{}} \subseteq S

(* The hypothesis of the theorem on the cycle.  It is asked of all shift   *)
(* amounts findShifter may leave; of those it may leave in the CUDA program *)
(* for 17 bits some are bad, so ArraySizes is to be without 2^17 there.    *)
FullPeriodArrays ==
  \A b \in 4 .. 20, h \in Hosts :
    2 ^ b \in ArraySizes => \A amounts \in Device!Shifters(h, b) : Whole(amounts, b)

(* The words h[0], ..., h[n] that n draws lead to. *)
Trail(amounts, b, h, n) ==
  /\ h \in [0 .. n -> Device!Word(b)]
  /\ h[0] = Device!One
  /\ \A m \in 0 .. n - 1 : h[m + 1] = Device!Draw(amounts, b, h[m])

LEMMA DrawZero == \A amounts, b : Device!Draw(amounts, b, {}) = {}
<1>1. Device!Xor({}, {}) = {}
  BY DEF Device!Xor
<1>2. \A n, b : Device!ShiftRight({}, n, b) = {} /\ Device!ShiftLeft({}, n, b) = {}
  BY DEF Device!ShiftRight, Device!ShiftLeft
<1>3. QED
  BY <1>1, <1>2, Zenon DEF Device!Draw

Passed(h, n) == {h[m] : m \in 0 .. n - 1}

LEMMA PassedCount ==
  ASSUME NEW h, NEW n \in Nat
  PROVE  IsFiniteSet(Passed(h, n)) /\ Cardinality(Passed(h, n)) <= n
<1> DEFINE S == Passed(h, n)
           g == [x \in 0 .. n - 1 |-> h[x]]
<1>1. g \in [0 .. n - 1 -> S]
  BY DEF Passed
<1>2. \A y \in S : \E x \in 0 .. n - 1 : g[x] = y
  BY DEF Passed
<1>3. g \in Surjection(0 .. n - 1, S)
  <2> HIDE DEF g, S
  <2>1. QED
    BY <1>1, <1>2, Fun_IsSurj, Zenon
<1>4. IsFiniteSet(0 .. n - 1) /\ Cardinality(0 .. n - 1) = n
  BY BelowCount
<1>5. IsFiniteSet(S) /\ Cardinality(S) <= Cardinality(0 .. n - 1)
  <2> HIDE DEF g, S
  <2>1. QED
    BY <1>3, <1>4, FS_Surjection, Zenon
<1>6. QED
  BY <1>4, <1>5

LEMMA NonzeroCount ==
  ASSUME NEW b \in Nat
  PROVE  IsFiniteSet(Device!Word(b) \ {{}}) /\ Cardinality(Device!Word(b) \ {{}}) = 2 ^ b - 1
<1>1. IsFiniteSet(Device!Word(b)) /\ Cardinality(Device!Word(b)) = 2 ^ b
  BY WordCount
<1>2. {} \in Device!Word(b)
  BY DEF Device!Word
<1>3. QED
  BY <1>1, <1>2, FS_RemoveElement, Zenon

(* A trail that has not had enough draws for all the words has not been at *)
(* all of them.                                                            *)
LEMMA TooFew ==
  ASSUME NEW b \in Nat, NEW h, NEW n \in Nat, n < 2 ^ b - 1, Device!Word(b) \ {{}} \subseteq Passed(h, n)
  PROVE  FALSE
<1> DEFINE D == Device!Word(b) \ {{}}
           S == Passed(h, n)
<1>1. IsFiniteSet(D) /\ Cardinality(D) = 2 ^ b - 1
  BY NonzeroCount
<1>2. IsFiniteSet(S) /\ Cardinality(S) <= n
  BY PassedCount
<1>3. Cardinality(D) <= Cardinality(S)
  <2> HIDE DEF D, S
  <2>1. D \subseteq S
    BY DEF D, S
  <2>2. QED
    BY <1>1, <1>2, <2>1, FS_Subset
<1>4. PICK x \in Nat, y \in Nat : x = Cardinality(D) /\ y = Cardinality(S)
  BY <1>1, <1>2, FS_CardinalityType
<1>5. QED
  BY <1>1, <1>2, <1>3, <1>4

(* A trail that meets neither 0 nor itself. *)
NeverTwice(h, n) ==
  /\ \A m \in 0 .. n : h[m] # {}
  /\ \A l, m \in 0 .. n : h[l] = h[m] => l = m

LEMMA Distinct ==
  ASSUME NEW b \in Nat, NEW amounts, Whole(amounts, b),
         NEW n \in Nat, n < 2 ^ b - 1, NEW h, Trail(amounts, b, h, n)
  PROVE  NeverTwice(h, n)
<1> DEFINE step(w) == Device!Draw(amounts, b, w)
<1>1. h \in [0 .. n -> Device!Word(b)] /\ h[0] = Device!One /\ \A m \in 0 .. n - 1 : h[m + 1] = step(h[m])
  BY DEF Trail
<1>2. PICK p \in Nat : p = 2 ^ b
  BY PowerOfTwo
<1>3. ASSUME NEW m \in 0 .. n, h[m] = {} PROVE FALSE
  <2> DEFINE T == Passed(h, m) \cup {{}}
  <2>1. m # 0
    BY <1>1, <1>3 DEF Device!One
  <2>2. T \in SUBSET Device!Word(b)
    <3>1. {} \in Device!Word(b)
      BY DEF Device!Word
    <3>2. \A e \in 0 .. m - 1 : h[e] \in Device!Word(b)
      BY <1>1
    <3>3. QED
      BY <3>1, <3>2 DEF Passed
  <2>3. Device!One \in T
    BY <1>1, <2>1 DEF Passed
  <2>4. \A w \in T : step(w) \in T
    <3>1. step({}) = {}
      BY DrawZero
    <3>2. ASSUME NEW e \in 0 .. m - 1 PROVE step(h[e]) \in T
      <4>1. e \in 0 .. n - 1 /\ step(h[e]) = h[e + 1]
        BY <1>1
      <4>2. CASE e + 1 = m
        BY <1>3, <4>1, <4>2
      <4>3. CASE e + 1 # m
        <5>1. e + 1 \in 0 .. m - 1
          BY <4>3
        <5>2. QED
          BY <4>1, <5>1 DEF Passed
      <4>4. QED
        BY <4>2, <4>3
    <3>3. QED
      BY <3>1, <3>2 DEF Passed
  <2>5. Device!Word(b) \ {{}} \subseteq T
    <3> HIDE DEF T
    <3>1. QED
      BY <2>2, <2>3, <2>4, Zenon DEF Whole
  <2>6. Device!Word(b) \ {{}} \subseteq Passed(h, m)
    BY <2>5
  <2>7. m \in Nat /\ m < p - 1
    BY <1>2
  <2>8. QED
    BY <1>2, <2>6, <2>7, TooFew
<1>4. ASSUME NEW l \in 0 .. n, NEW m \in 0 .. n, l < m, h[l] = h[m] PROVE FALSE
  <2> DEFINE T == Passed(h, m)
  <2>1. T \in SUBSET Device!Word(b)
    BY <1>1 DEF Passed
  <2>2. Device!One \in T
    <3>1. 0 \in 0 .. m - 1
      BY <1>4
    <3>2. QED
      BY <1>1, <3>1 DEF Passed
  <2>3. \A w \in T : step(w) \in T
    <3>1. ASSUME NEW e \in 0 .. m - 1 PROVE step(h[e]) \in T
      <4>1. e \in 0 .. n - 1 /\ step(h[e]) = h[e + 1]
        BY <1>1
      <4>2. CASE e + 1 = m
        <5>1. step(h[e]) = h[l] /\ l \in 0 .. m - 1
          BY <1>4, <4>1, <4>2
        <5>2. QED
          BY <5>1 DEF Passed
      <4>3. CASE e + 1 # m
        <5>1. e + 1 \in 0 .. m - 1
          BY <4>3
        <5>2. QED
          BY <4>1, <5>1 DEF Passed
      <4>4. QED
        BY <4>2, <4>3
    <3>2. QED
      BY <3>1 DEF Passed
  <2>4. Device!Word(b) \ {{}} \subseteq T
    <3> HIDE DEF T
    <3>1. QED
      BY <2>1, <2>2, <2>3, Zenon DEF Whole
  <2>5. m \in Nat /\ m < p - 1
    BY <1>2
  <2>6. QED
    BY <1>2, <2>4, <2>5, TooFew
<1>5. \A m \in 0 .. n : h[m] # {}
  BY <1>3
<1>6. \A l, m \in 0 .. n : h[l] = h[m] => l = m
  <2> SUFFICES ASSUME NEW l \in 0 .. n, NEW m \in 0 .. n, h[l] = h[m], l # m PROVE FALSE
    OBVIOUS
  <2>1. l < m \/ m < l
    OBVIOUS
  <2>2. QED
    BY <1>4, <2>1
<1>7. QED
  BY <1>5, <1>6 DEF NeverTwice

(* And one that has had all its draws has been everywhere. *)
LEMMA Everywhere ==
  ASSUME NEW b \in Nat \ {0}, NEW amounts, Whole(amounts, b),
         NEW n \in Nat, n = 2 ^ b - 2, NEW h, Trail(amounts, b, h, n)
  PROVE  \A w \in Device!Word(b) \ {{}} : \E m \in 0 .. n : h[m] = w
<1> DEFINE D == Device!Word(b) \ {{}}
<1>1. PICK p \in Nat : p = 2 ^ b /\ n = p - 2
  BY PowerOfTwo
<1>2. /\ \A m \in 0 .. n : h[m] # {}
      /\ \A l, m \in 0 .. n : h[l] = h[m] => l = m
  <2>1. n < 2 ^ b - 1
    BY <1>1
  <2>2. b \in Nat
    OBVIOUS
  <2>3. QED
    BY <2>1, <2>2, Distinct DEF NeverTwice
<1>3. h \in [0 .. n -> D]
  <2>1. h \in [0 .. n -> Device!Word(b)]
    BY DEF Trail
  <2>2. QED
    BY <1>2, <2>1
<1>4. h \in Injection(0 .. n, D)
  <2> HIDE DEF D
  <2>1. QED
    BY <1>2, <1>3, Fun_IsInj
<1>5. IsFiniteSet(0 .. n) /\ Cardinality(0 .. n) = n + 1
  <2>1. n + 1 \in Nat /\ (n + 1) - 1 = n
    OBVIOUS
  <2>2. PICK x \in Nat : x = n + 1
    BY <2>1
  <2>3. IsFiniteSet(0 .. x - 1) /\ Cardinality(0 .. x - 1) = x
    BY BelowCount
  <2>4. x - 1 = n
    BY <2>2
  <2>5. QED
    BY <2>2, <2>3, <2>4
<1>6. IsFiniteSet(D) /\ Cardinality(D) = n + 1
  <2>1. b \in Nat
    OBVIOUS
  <2>2. IsFiniteSet(D) /\ Cardinality(D) = p - 1
    BY <1>1, <2>1, NonzeroCount
  <2>3. QED
    BY <1>1, <2>2
<1>7. h \in Surjection(0 .. n, D)
  <2> HIDE DEF D
  <2>1. Cardinality(0 .. n) = Cardinality(D)
    BY <1>5, <1>6
  <2>2. QED
    BY <1>4, <1>6, <2>1, FS_Injection, Zenon
<1>8. QED
  BY <1>7 DEF Surjection

(* Linking the array: the draws made so far are a chain through it, and    *)
(* whatever has not been drawn is as it was.                               *)
Linked ==
  /\ i <= N - 2
  /\ \E h : /\ Trail(shifter, Device!nBits, h, i)
            /\ h[i] = index
            /\ \A m \in 0 .. i - 1 : input[h[m]] = h[m + 1]
            /\ \A e \in Device!Array : e # Device!Zero /\ (\A m \in 0 .. i - 1 : e # h[m]) => input[e] = Device!Zero
  /\ input[Device!Zero] = Device!One

(* A chain through the whole array that closes. *)
IsRing(ring) ==
  /\ ring \in [0 .. N - 1 -> Device!Array]
  /\ \A e \in Device!Array : \E m \in 0 .. N - 1 : ring[m] = e
  /\ \A l, m \in 0 .. N - 1 : ring[l] = ring[m] => l = m
  /\ \A m \in 0 .. N - 1 : input[ring[m]] = ring[IF m = N - 1 THEN 0 ELSE m + 1]

DeviceRing ==
  N = 2 ^ Device!nBits =>
    /\ device_pc = "fill" => Linked
    /\ device_pc = "kernel" => \E ring : IsRing(ring)

LEMMA RingInit ==
  ASSUME Device!Init
  PROVE  DeviceRing
<1>1. /\ N \in ArraySizes /\ device_pc = "fill" /\ i = 0 /\ index = Device!One
      /\ input = [[e \in Device!Array |-> Device!Zero] EXCEPT ![Device!Zero] = Device!One]
  BY DEF Device!Init
<1>2. PICK b \in 4 .. 20 : b = Device!nBits
  BY <1>1, Bits
<1>3. N \in Nat /\ N >= 16
  BY <1>1, Bits
<1> DEFINE h == [m \in 0 .. 0 |-> Device!One]
<1>4. Device!One \in Device!Word(b) /\ Device!Zero \in Device!Array
  BY <1>1, <1>2, ArrayWords
<1>5. Trail(shifter, b, h, 0)
  BY <1>4 DEF Trail
<1>6. \A e \in Device!Array : e # Device!Zero => input[e] = Device!Zero
  BY <1>1, <1>4
<1>7. input[Device!Zero] = Device!One
  BY <1>1, <1>4
<1>8. /\ Trail(shifter, Device!nBits, h, i) /\ h[i] = index
      /\ \A m \in 0 .. i - 1 : input[h[m]] = h[m + 1]
  BY <1>1, <1>2, <1>5
<1>9. \E f : /\ Trail(shifter, Device!nBits, f, i)
             /\ f[i] = index
             /\ \A m \in 0 .. i - 1 : input[f[m]] = f[m + 1]
             /\ \A e \in Device!Array : e # Device!Zero /\ (\A m \in 0 .. i - 1 : e # f[m]) => input[e] = Device!Zero
  <2> HIDE DEF h
  <2>1. QED
    BY <1>6, <1>8
<1>10. QED
  BY <1>1, <1>3, <1>7, <1>9 DEF DeviceRing, Linked

(* The generator of an array of a power of two. *)
LEMMA ArrayGenerator ==
  ASSUME FullPeriodArrays, Device!TypeOK, N = 2 ^ Device!nBits
  PROVE  Device!nBits \in Nat \ {0} /\ Whole(shifter, Device!nBits)
<1>1. N \in ArraySizes /\ host \in Hosts /\ shifter \in Device!Shifters(host, Device!nBits)
  BY DEF Device!TypeOK
<1>2. PICK b \in 4 .. 20 : b = Device!nBits
  BY <1>1, Bits
<1>3. 2 ^ b \in ArraySizes /\ shifter \in Device!Shifters(host, b)
  BY <1>1, <1>2
<1>4. Whole(shifter, b)
  BY <1>1, <1>3, Zenon DEF FullPeriodArrays
<1>5. b \in Nat \ {0}
  OBVIOUS
<1>6. QED
  BY <1>2, <1>4, <1>5

LEMMA LinkedFill ==
  ASSUME FullPeriodArrays, GridFits, DeviceRun, N = 2 ^ Device!nBits, Linked, Device!Fill
  PROVE  Linked'
<1> USE DeviceFacts
<1> DEFINE amounts == shifter
<1>1. PICK b \in Nat \ {0} : b = Device!nBits
  BY ArrayGenerator DEF DeviceRun
<1>2. /\ device_pc = "fill" /\ i < N - 2 /\ i' = i + 1
      /\ index' = Device!Draw(amounts, b, index)
      /\ input' = [input EXCEPT ![index] = index']
      /\ UNCHANGED <<host, N, shifter, items>>
  BY <1>1 DEF Device!Fill, Device!DrawsLeft
<1>3. PICK h : /\ Trail(shifter, Device!nBits, h, i)
               /\ h[i] = index
               /\ \A m \in 0 .. i - 1 : input[h[m]] = h[m + 1]
               /\ \A e \in Device!Array : e # Device!Zero /\ (\A m \in 0 .. i - 1 : e # h[m]) => input[e] = Device!Zero
  BY DEF Linked
<1>4. Trail(amounts, b, h, i)
  BY <1>1, <1>3
<1>5. /\ \A m \in 0 .. i : h[m] # {}
      /\ \A l, m \in 0 .. i : h[l] = h[m] => l = m
  <2>1. i \in Nat /\ i < 2 ^ b - 1
    BY <1>1, <1>2
  <2>2. Whole(amounts, b)
    BY <1>1, ArrayGenerator DEF DeviceRun
  <2>3. b \in Nat
    OBVIOUS
  <2> HIDE DeviceFacts
  <2>4. PICK n \in Nat : n = i /\ n < 2 ^ b - 1 /\ Trail(amounts, b, h, n)
    BY <1>4, <2>1
  <2>5. NeverTwice(h, n)
    BY <2>2, <2>3, <2>4, Distinct
  <2>6. QED
    BY <2>4, <2>5 DEF NeverTwice
<1>6. index \in Device!Array /\ index' \in Device!Word(b) /\ index \in Device!Word(b)
  <2>1. index \in Device!Word(b) /\ Device!Word(b) \subseteq Device!Array
    BY <1>1
  <2>2. QED
    BY <1>2, <2>1, DrawWord
<1>7. i \in Nat /\ i \in 0 .. i
  OBVIOUS
<1> DEFINE g == [m \in 0 .. i + 1 |-> IF m = i + 1 THEN index' ELSE h[m]]
<1>8. g[i + 1] = index' /\ \A m \in 0 .. i : g[m] = h[m]
  BY <1>7
<1>9. Trail(amounts, b, g, i + 1)
  <2>1. h \in [0 .. i -> Device!Word(b)] /\ h[0] = Device!One
        /\ \A m \in 0 .. i - 1 : h[m + 1] = Device!Draw(amounts, b, h[m])
    BY <1>4 DEF Trail
  <2>2. g \in [0 .. i + 1 -> Device!Word(b)]
    <3>1. ASSUME NEW m \in 0 .. i + 1, m # i + 1 PROVE m \in 0 .. i
      BY <1>7, <3>1
    <3>2. \A m \in 0 .. i + 1 : (IF m = i + 1 THEN index' ELSE h[m]) \in Device!Word(b)
      BY <1>6, <2>1, <3>1
    <3>3. QED
      BY <3>2
  <2>3. g[0] = Device!One
    BY <1>7, <1>8, <2>1
  <2>4. ASSUME NEW m \in 0 .. (i + 1) - 1 PROVE g[m + 1] = Device!Draw(amounts, b, g[m])
    <3>1. CASE m = i
      BY <1>2, <1>3, <1>7, <1>8, <3>1
    <3>2. CASE m # i
      <4>1. m \in 0 .. i - 1 /\ m \in 0 .. i /\ m + 1 \in 0 .. i
        BY <1>7, <3>2
      <4>2. QED
        BY <1>8, <2>1, <4>1
    <3>3. QED
      BY <3>1, <3>2
  <2> HIDE DEF g
  <2>5. QED
    BY <2>2, <2>3, <2>4 DEF Trail
<1>10. ASSUME NEW m \in 0 .. (i + 1) - 1 PROVE input'[g[m]] = g[m + 1]
  <2>1. CASE m = i
    BY <1>2, <1>3, <1>6, <1>7, <1>8, <2>1
  <2>2. CASE m # i
    <3>1. m \in 0 .. i - 1 /\ m \in 0 .. i /\ m + 1 \in 0 .. i
      BY <1>7, <2>2
    <3>2. h[m] # index
      BY <1>3, <1>5, <1>7, <2>2, <3>1
    <3>3. input'[h[m]] = input[h[m]]
      <4>1. h[m] \in Device!Array
        BY <1>1, <1>4, <3>1 DEF Trail
      <4>2. QED
        BY <1>2, <3>2, <4>1
    <3> HIDE DEF g
    <3>4. QED
      BY <1>3, <1>8, <3>1, <3>3
  <2>3. QED
    BY <2>1, <2>2
<1>11. ASSUME NEW e \in Device!Array, e # Device!Zero, \A m \in 0 .. (i + 1) - 1 : e # g[m]
       PROVE  input'[e] = Device!Zero
  <2>1. \A m \in 0 .. i : e # h[m]
    <3> HIDE DEF g
    <3>1. \A m \in 0 .. i : m \in 0 .. (i + 1) - 1
      BY <1>7
    <3>2. QED
      BY <1>8, <1>11, <3>1
  <2>2. e # index
    BY <1>3, <1>7, <2>1
  <2>3. input[e] = Device!Zero
    <3>1. \A m \in 0 .. i - 1 : m \in 0 .. i
      BY <1>7
    <3>2. QED
      BY <1>3, <1>11, <2>1, <3>1
  <2>4. QED
    BY <1>2, <2>2, <2>3
<1>12. input'[Device!Zero] = Device!One
  <2>1. index # Device!Zero
    BY <1>3, <1>5, <1>7 DEF Device!Zero
  <2>2. input[Device!Zero] = Device!One
    BY DEF Linked
  <2>3. Device!Zero \in Device!Array
    BY ArrayWords
  <2>4. QED
    BY <1>2, <2>1, <2>2, <2>3
<1>13. i' <= N' - 2
  BY <1>2
<1>14. g[i'] = index' /\ Trail(shifter', Device!nBits', g, i')
  <2> HIDE DEF g
  <2>1. shifter' = amounts /\ Device!nBits' = b
    BY <1>1, <1>2, SameSizes
  <2>2. QED
    BY <1>2, <1>8, <1>9, <2>1
<1>15. /\ \A m \in 0 .. i' - 1 : input'[g[m]] = g[m + 1]
       /\ \A e \in Device!Array' : e # Device!Zero /\ (\A m \in 0 .. i' - 1 : e # g[m]) => input'[e] = Device!Zero
  <2> HIDE DEF g
  <2>1. Device!Array' = Device!Array
    BY <1>2, SameSizes
  <2>2. QED
    BY <1>2, <1>10, <1>11, <2>1
<1>16. QED
  <2> HIDE DEF g
  <2>1. Device!Zero' = Device!Zero /\ Device!One' = Device!One
    BY DEF Device!Zero, Device!One
  <2>2. QED
    BY <1>12, <1>13, <1>14, <1>15, <2>1 DEF Linked

(* After the last draw the chain closes through element 0. *)
LEMMA LinkedLaunch ==
  ASSUME FullPeriodArrays, GridFits, DeviceRun, N = 2 ^ Device!nBits, Linked, i = N - 2
  PROVE  \E ring : IsRing(ring)
<1> USE DeviceFacts
<1> DEFINE amounts == shifter
<1>1. PICK b \in Nat \ {0} : b = Device!nBits
  BY ArrayGenerator DEF DeviceRun
<1>2. PICK h : /\ Trail(shifter, Device!nBits, h, i)
               /\ h[i] = index
               /\ \A m \in 0 .. i - 1 : input[h[m]] = h[m + 1]
               /\ \A e \in Device!Array : e # Device!Zero /\ (\A m \in 0 .. i - 1 : e # h[m]) => input[e] = Device!Zero
  BY DEF Linked
<1>3. PICK n \in Nat : n = N - 2 /\ n = i
  OBVIOUS
<1>4. Trail(amounts, b, h, n) /\ n = 2 ^ b - 2 /\ Whole(amounts, b) /\ b \in Nat
  BY <1>1, <1>2, <1>3, ArrayGenerator DEF DeviceRun
<1>5. /\ \A m \in 0 .. n : h[m] # {}
      /\ \A l, m \in 0 .. n : h[l] = h[m] => l = m
  <2>1. n < 2 ^ b - 1
    BY <1>1, <1>3
  <2>2. Whole(amounts, b) /\ Trail(amounts, b, h, n) /\ b \in Nat /\ n \in Nat
    BY <1>4
  <2> HIDE DeviceFacts
  <2> HIDE DEF amounts
  <2>3. NeverTwice(h, n)
    BY <2>1, <2>2, Distinct
  <2>4. QED
    BY <2>3 DEF NeverTwice
<1>6. \A w \in Device!Word(b) \ {{}} : \E m \in 0 .. n : h[m] = w
  BY <1>4, Everywhere
<1>7. Device!Array = Device!Word(b) /\ Device!Zero \in Device!Array /\ Device!Zero = {}
  BY <1>1, ArrayWords DEF Device!Zero
<1>8. h \in [0 .. n -> Device!Array] /\ h[0] = Device!One
  BY <1>4, <1>7 DEF Trail
<1>9. /\ \A m \in 0 .. n - 1 : input[h[m]] = h[m + 1]
      /\ input[Device!Zero] = Device!One
  BY <1>2, <1>3 DEF Linked
<1>10. input[h[n]] = Device!Zero
  <2>1. n \in 0 .. n /\ \A m \in 0 .. n - 1 : m \in 0 .. n /\ m # n
    BY <1>3
  <2>2. h[n] # Device!Zero /\ \A m \in 0 .. n - 1 : h[n] # h[m]
    BY <1>5, <1>7, <2>1
  <2>3. h[n] \in Device!Array
    BY <1>8, <2>1
  <2>4. QED
    BY <1>2, <1>3, <2>2, <2>3
<1> DEFINE ring == [m \in 0 .. N - 1 |-> IF m = 0 THEN Device!Zero ELSE h[m - 1]]
<1>11. ring[0] = Device!Zero /\ \A m \in 1 .. N - 1 : ring[m] = h[m - 1]
  BY <1>3
<1>12. \A m \in 0 .. N - 1 : m = 0 \/ (m \in 1 .. N - 1 /\ m - 1 \in 0 .. n)
  BY <1>3
<1>13. ring \in [0 .. N - 1 -> Device!Array]
  <2>1. \A m \in 0 .. N - 1 : (IF m = 0 THEN Device!Zero ELSE h[m - 1]) \in Device!Array
    BY <1>7, <1>8, <1>12
  <2>2. QED
    BY <2>1
<1> HIDE DEF ring
<1>14. ASSUME NEW e \in Device!Array PROVE \E m \in 0 .. N - 1 : ring[m] = e
  <2>1. CASE e = {}
    <3>1. 0 \in 0 .. N - 1
      OBVIOUS
    <3>2. QED
      BY <1>7, <1>11, <2>1, <3>1
  <2>2. CASE e # {}
    <3>1. PICK m \in 0 .. n : h[m] = e
      BY <1>6, <1>7, <2>2
    <3>2. m + 1 \in 1 .. N - 1 /\ m + 1 \in 0 .. N - 1 /\ (m + 1) - 1 = m
      BY <1>3
    <3>3. ring[m + 1] = e
      BY <1>11, <3>1, <3>2
    <3>4. QED
      BY <3>2, <3>3
  <2>3. QED
    BY <2>1, <2>2
<1>15. ASSUME NEW l \in 0 .. N - 1, NEW m \in 0 .. N - 1, ring[l] = ring[m] PROVE l = m
  <2>1. CASE l = 0 /\ m = 0
    BY <2>1
  <2>2. CASE l # 0 /\ m # 0
    <3>1. h[l - 1] = h[m - 1] /\ l - 1 \in 0 .. n /\ m - 1 \in 0 .. n
      BY <1>11, <1>12, <1>15, <2>2
    <3>2. l - 1 = m - 1
      BY <1>5, <3>1
    <3>3. QED
      BY <3>2
  <2>3. CASE l = 0 /\ m # 0
    BY <1>5, <1>7, <1>11, <1>12, <1>15, <2>3
  <2>4. CASE l # 0 /\ m = 0
    BY <1>5, <1>7, <1>11, <1>12, <1>15, <2>4
  <2>5. QED
    BY <2>1, <2>2, <2>3, <2>4
<1>16. ASSUME NEW m \in 0 .. N - 1 PROVE input[ring[m]] = ring[IF m = N - 1 THEN 0 ELSE m + 1]
  <2>1. CASE m = 0
    <3>1. m # N - 1 /\ 1 \in 1 .. N - 1 /\ 1 - 1 = 0
      BY <2>1
    <3>2. ring[1] = h[0]
      BY <1>11, <3>1
    <3>3. QED
      BY <1>8, <1>9, <1>11, <2>1, <3>1, <3>2
  <2>2. CASE m = N - 1
    <3>1. m \in 1 .. N - 1 /\ m - 1 = n
      BY <1>3, <2>2
    <3>2. QED
      BY <1>10, <1>11, <2>2, <3>1
  <2>3. CASE m # 0 /\ m # N - 1
    <3>1. m \in 1 .. N - 1 /\ m + 1 \in 1 .. N - 1 /\ m - 1 \in 0 .. n - 1 /\ (m + 1) - 1 = (m - 1) + 1
      BY <1>3, <2>3
    <3>2. ring[m] = h[m - 1] /\ ring[m + 1] = h[(m - 1) + 1]
      BY <1>11, <3>1
    <3>3. QED
      BY <1>9, <2>3, <3>1, <3>2
  <2>4. QED
    BY <2>1, <2>2, <2>3
<1>17. IsRing(ring)
  BY <1>13, <1>14, <1>15, <1>16 DEF IsRing
<1>18. QED
  BY <1>17

LEMMA RingStep ==
  ASSUME FullPeriodArrays, GridFits, DeviceRun, DeviceRing, [Device!Next]_deviceVars
  PROVE  DeviceRing'
<1>1. ASSUME UNCHANGED <<host, N, shifter, items, input>>, device_pc' = "fill" => UNCHANGED <<device_pc, i, index>>,
             device_pc' = "kernel" => device_pc = "kernel"
      PROVE  DeviceRing'
  <2>1. Device!nBits' = Device!nBits /\ shifter' = shifter /\ Device!Array' = Device!Array
    BY <1>1, SameSizes
  <2>2. \A ring : IsRing(ring) = IsRing(ring)'
    BY <1>1, <2>1 DEF IsRing
  <2>3. UNCHANGED <<i, index>> => Linked' = Linked
    BY <1>1, <2>1 DEF Linked, Device!Zero, Device!One
  <2>4. QED
    BY <1>1, <2>1, <2>2, <2>3 DEF DeviceRing
<1>2. ASSUME Device!Fill PROVE DeviceRing'
  <2>1. UNCHANGED <<host, N, shifter, items, device_pc>> /\ device_pc = "fill"
    BY <1>2 DEF Device!Fill
  <2>2. Device!nBits' = Device!nBits
    BY <2>1, SameSizes
  <2>3. N = 2 ^ Device!nBits => Linked'
    BY <1>2, <2>1, LinkedFill DEF DeviceRing
  <2>4. QED
    BY <2>1, <2>2, <2>3 DEF DeviceRing
<1>3. ASSUME Device!Launch PROVE DeviceRing'
  <2>1. UNCHANGED <<host, N, shifter, items, input>> /\ device_pc = "fill" /\ ~Device!DrawsLeft /\ device_pc' # "fill"
    BY <1>3 DEF Device!Launch
  <2>2. Device!nBits' = Device!nBits /\ Device!Array' = Device!Array
    BY <2>1, SameSizes
  <2>3. ASSUME N = 2 ^ Device!nBits PROVE \E ring : IsRing(ring)
    <3>1. Linked
      BY <2>1, <2>3 DEF DeviceRing
    <3>2. i = N - 2
      BY <2>1, <3>1, DeviceFacts DEF Linked, Device!DrawsLeft
    <3>3. QED
      BY <2>3, <3>1, <3>2, LinkedLaunch
  <2>4. \A ring : IsRing(ring) = IsRing(ring)'
    BY <2>1, <2>2 DEF IsRing
  <2>5. QED
    BY <2>1, <2>2, <2>3, <2>4 DEF DeviceRing
<1>4. ASSUME NEW u \in Device!Item, Device!Load(u) \/ Device!Store(u) PROVE DeviceRing'
  <2>1. UNCHANGED <<host, N, shifter, items, input, device_pc>> /\ device_pc = "kernel"
    BY <1>4 DEF Device!Load, Device!Store
  <2>2. QED
    BY <1>1, <2>1
<1>5. ASSUME Device!Verify PROVE DeviceRing'
  <2>1. UNCHANGED <<host, N, shifter, items, input>> /\ device_pc' = "done"
    BY <1>5 DEF Device!Verify
  <2>2. QED
    BY <1>1, <2>1
<1>6. ASSUME UNCHANGED deviceVars \/ UNCHANGED Device!vars PROVE DeviceRing'
  <2>1. UNCHANGED <<host, N, shifter, items, input, device_pc, i, index>>
    BY <1>6 DEF Device!vars, deviceVars
  <2>2. QED
    BY <1>1, <2>1
<1>7. QED
  BY <1>2, <1>3, <1>4, <1>5, <1>6 DEF Device!Next

LEMMA NextRest ==
  ASSUME NEW a \in Nat, NEW d \in Nat \ {0}
  PROVE  (a + 1) % d = IF a % d = d - 1 THEN 0 ELSE (a % d) + 1
<1>1. PICK q \in Nat, r \in 0 .. d - 1 : q = a \div d /\ r = a % d /\ q <= a /\ a = d * q + r
  BY Division
<1>2. CASE r = d - 1
  <2>1. a + 1 = d * (q + 1) + 0 /\ 0 \in 0 .. d - 1 /\ q + 1 \in Nat
    BY <1>1, <1>2
  <2>2. (d * (q + 1) + 0) % d = 0
    BY <2>1, Quotient
  <2>3. QED
    BY <1>1, <1>2, <2>1, <2>2
<1>3. CASE r # d - 1
  <2>1. a + 1 = d * q + (r + 1) /\ r + 1 \in 0 .. d - 1
    BY <1>1, <1>3
  <2>2. (d * q + (r + 1)) % d = r + 1
    BY <2>1, Quotient
  <2>3. QED
    BY <1>1, <1>3, <2>1, <2>2
<1>4. QED
  BY <1>2, <1>3

(* From a place of the ring one is back there after as many steps as the   *)
(* ring has places, or a multiple of it.                                   *)
LEMMA BackAgain ==
  ASSUME NEW d \in Nat \ {0}, NEW p \in 0 .. d - 1, NEW e \in Nat
  PROVE  (p + e) % d = p <=> e % d = 0
<1>1. PICK q \in Nat, r \in 0 .. d - 1 : q = e \div d /\ r = e % d /\ q <= e /\ e = d * q + r
  BY Division
<1>2. CASE p + r < d
  <2>1. p + e = d * q + (p + r) /\ p + r \in 0 .. d - 1
    BY <1>1, <1>2
  <2>2. (d * q + (p + r)) % d = p + r
    BY <2>1, Quotient
  <2>3. (p + e) % d = p + r
    BY <2>1, <2>2
  <2>4. QED
    BY <1>1, <2>3
<1>3. CASE p + r >= d
  <2>1. p + e = d * (q + 1) + (p + r - d) /\ p + r - d \in 0 .. d - 1 /\ q + 1 \in Nat
    BY <1>1, <1>3
  <2>2. (d * (q + 1) + (p + r - d)) % d = p + r - d
    BY <2>1, Quotient
  <2>3. (p + e) % d = p + r - d /\ r # 0 /\ r # d
    BY <1>1, <1>3, <2>1, <2>2
  <2>4. QED
    BY <1>1, <2>3
<1>4. QED
  BY <1>2, <1>3

(* The chain of an item goes round the ring. *)
LEMMA ChainRound ==
  ASSUME GridFits, DeviceRun, NEW ring, IsRing(ring),
         NEW id \in Device!Item, NEW p \in 0 .. N - 1, ring[p] = Device!Element(id)
  PROVE  \A m \in 0 .. nIter : Chain(id)[m] = ring[(p + (m + 1)) % N]
<1>1. PICK d \in Nat \ {0} : d = N
  BY DeviceFacts
<1>2. nIter \in Nat /\ p \in Nat
  BY <1>1, DeviceFacts
<1>3. \A m \in 0 .. d - 1 : input[ring[m]] = ring[IF m = d - 1 THEN 0 ELSE m + 1]
  BY <1>1 DEF IsRing
<1>4. ASSUME NEW a \in Nat PROVE input[ring[a % d]] = ring[(a + 1) % d]
  <2>1. a % d \in 0 .. d - 1
    BY Division
  <2>2. (a + 1) % d = IF a % d = d - 1 THEN 0 ELSE (a % d) + 1
    BY NextRest
  <2>3. QED
    BY <1>3, <2>1, <2>2
<1> DEFINE Astray == {m \in 0 .. nIter : Chain(id)[m] # ring[(p + (m + 1)) % d]}
<1>5. SUFFICES ASSUME Astray # {} PROVE FALSE
  BY <1>1
<1>6. PICK m \in Astray : \A l \in Astray : m <= l
  <2>1. Astray \in SUBSET Nat
    OBVIOUS
  <2>2. QED
    <3> HIDE DEF Astray
    <3>1. QED
      BY <1>5, <2>1, Lowest
<1>7. CASE m = 0
  <2>1. p % d = p
    <3>1. PICK q \in Nat : q = 0
      OBVIOUS
    <3>2. d * q + p = p /\ p \in 0 .. d - 1
      BY <1>1, <3>1
    <3>3. QED
      BY <3>2, Quotient
  <2>2. Chain(id)[0] = input[Device!Element(id)]
    BY ChainIs
  <2>3. Chain(id)[0] = ring[(p + 1) % d]
    BY <1>2, <1>4, <2>1, <2>2
  <2>4. p + (0 + 1) = p + 1
    BY <1>2
  <2>5. QED
    BY <1>6, <1>7, <2>3, <2>4
<1>8. CASE m # 0
  <2>1. m \in 1 .. nIter /\ m - 1 \in 0 .. nIter /\ m - 1 \notin Astray
    BY <1>2, <1>6, <1>8
  <2>2. Chain(id)[m] = input[Chain(id)[m - 1]]
    BY <2>1, ChainIs
  <2>3. Chain(id)[m - 1] = ring[(p + m) % d]
    <3>1. (m - 1) + 1 = m
      BY <2>1
    <3>2. QED
      BY <2>1, <3>1
  <2>4. p + m \in Nat /\ (p + m) + 1 = p + (m + 1)
    BY <1>2, <2>1
  <2>5. Chain(id)[m] = ring[(p + (m + 1)) % d]
    BY <1>4, <2>2, <2>3, <2>4
  <2>6. QED
    BY <1>6, <2>5
<1>9. QED
  BY <1>7, <1>8

LEMMA RingKeeps ==
  ASSUME GridFits, DeviceRun, DeviceRing
  PROVE  Device!OneCycle
<1>1. SUFFICES ASSUME device_pc = "kernel", N = 2 ^ Device!nBits,
                      NEW id \in Device!Item, device_loads[id] \in 1 .. nIter + 1
               PROVE  temp[id] = Device!Element(id) <=> device_loads[id] % N = 0
  BY DEF Device!OneCycle
<1>2. PICK ring : IsRing(ring)
  BY <1>1 DEF DeviceRing
<1>3. PICK d \in Nat \ {0} : d = N
  BY DeviceFacts
<1>4. PICK e \in Nat : e = device_loads[id] /\ e \in 1 .. nIter + 1
  BY <1>1, DeviceFacts
<1>5. PICK p \in 0 .. N - 1 : ring[p] = Device!Element(id)
  BY <1>2, DeviceFacts DEF IsRing
<1>6. temp[id] = ring[(p + e) % d]
  <2>1. e - 1 \in 0 .. nIter /\ (e - 1) + 1 = e
    BY <1>4, DeviceFacts
  <2>2. temp[id] = Chain(id)[e - 1]
    BY <1>4 DEF DeviceRun, Came
  <2>3. Chain(id)[e - 1] = ring[(p + ((e - 1) + 1)) % N]
    BY <1>2, <1>5, <2>1, ChainRound
  <2>4. QED
    BY <1>3, <2>1, <2>2, <2>3
<1>7. (p + e) % d \in 0 .. N - 1
  <2>1. p + e \in Nat
    BY <1>3
  <2>2. QED
    BY <1>3, <2>1, Division
<1>8. temp[id] = Device!Element(id) <=> (p + e) % d = p
  BY <1>2, <1>5, <1>6, <1>7 DEF IsRing
<1>9. (p + e) % d = p <=> e % d = 0
  BY <1>3, BackAgain
<1>10. QED
  BY <1>3, <1>4, <1>8, <1>9

-----------------------------------------------------------------------------
(* The three together. *)

LEMMA OneRuns ==
  ASSUME [GpuNext]_gpuVars
  PROVE  /\ UNCHANGED bench
         /\ [Next]_vars
         /\ bench = "device" => [Device!Next]_deviceVars
         /\ bench = "copy" => [Stream!Next]_copyVars
<1>1. CASE RunShared
  <2>1. bench = "shared" /\ Next /\ UNCHANGED bench
    BY <1>1 DEF RunShared
  <2>2. QED
    BY <2>1
<1>2. CASE RunDevice
  <2>1. bench = "device" /\ Device!Next /\ UNCHANGED bench /\ UNCHANGED vars
    BY <1>2 DEF RunDevice
  <2>2. QED
    BY <2>1
<1>3. CASE RunCopy
  <2>1. bench = "copy" /\ Stream!Next /\ UNCHANGED bench /\ UNCHANGED vars
    BY <1>3 DEF RunCopy
  <2>2. QED
    BY <2>1
<1>4. CASE UNCHANGED gpuVars
  <2>1. UNCHANGED bench /\ UNCHANGED vars /\ UNCHANGED deviceVars /\ UNCHANGED copyVars
    BY <1>4 DEF gpuVars
  <2>2. QED
    BY <2>1
<1>5. QED
  BY <1>1, <1>2, <1>3, <1>4 DEF GpuNext

(* Whichever kernel runs, the threads of the shared-memory benchmark are   *)
(* where its invariant says.                                               *)
THEOREM SharedInvHolds == GpuSpec => []SharedInv
<1>1. GpuInit => SharedInv
  <2>1. GpuInit => Init
    BY DEF GpuInit, SharedOff
  <2>2. QED
    BY <2>1, SharedInit
<1>2. SharedInv /\ [GpuNext]_gpuVars => SharedInv'
  BY OneRuns, SharedStep
<1>3. QED
  BY <1>1, <1>2, PTL DEF GpuSpec

(* A run of the bandwidth kernels has copied what the counts of its        *)
(* threads say.                                                            *)
THEOREM CopyInvHolds == GpuSpec => [](bench = "copy" => CopyInv)
<1>1. GpuInit => (bench = "copy" => CopyInv)
  <2>1. GpuInit /\ bench = "copy" => Stream!Init
    BY DEF GpuInit
  <2>2. QED
    BY <2>1, CopyInit
<1>2. (bench = "copy" => CopyInv) /\ [GpuNext]_gpuVars => (bench = "copy" => CopyInv)'
  BY OneRuns, CopyStep
<1>3. QED
  BY <1>1, <1>2, PTL DEF GpuSpec

(* A run of the random chase has brought each work item as far along the   *)
(* chain the host follows as it has made loads.                            *)
THEOREM DeviceRunHolds ==
  ASSUME GridFits
  PROVE  GpuSpec => [](bench = "device" => DeviceRun)
<1>1. GpuInit => (bench = "device" => DeviceRun)
  <2>1. GpuInit /\ bench = "device" => Device!Init
    BY DEF GpuInit
  <2>2. QED
    BY <2>1, DeviceInit
<1>2. (bench = "device" => DeviceRun) /\ [GpuNext]_gpuVars => (bench = "device" => DeviceRun)'
  BY OneRuns, DeviceStep
<1>3. QED
  BY <1>1, <1>2, PTL DEF GpuSpec

(* No thread reads a word of shared memory that has not been written,      *)
(* with or without __syncthreads, for every grid.                          *)
THEOREM NoStaleReadHolds == GpuSpec => []NoStaleRead
BY SharedInvHolds, SharedKeeps, PTL

(* Every variable keeps its type, whichever kernel runs: the registers of  *)
(* the work items, in particular, hold elements of the array.              *)
THEOREM GpuTypesHold ==
  ASSUME GridFits
  PROVE  GpuSpec => []GpuTypeOK
<1>1. SharedInv /\ (bench = "copy" => CopyInv) /\ (bench = "device" => DeviceRun) => GpuTypeOK
  BY DEF SharedInv, CopyInv, DeviceRun, GpuTypeOK
<1>2. QED
  BY <1>1, SharedInvHolds, CopyInvHolds, DeviceRunHolds, PTL

(* However the threads and the work items interleave, the hosts, which     *)
(* follow the same chains, find no difference, and the shared-memory       *)
(* kernels have made as many loads as the host has followed links.         *)
THEOREM ChecksPassHold ==
  ASSUME GridFits
  PROVE  GpuSpec => []ChecksPass
<1>1. SharedInv /\ (bench = "device" => DeviceRun) => ChecksPass
  BY SharedKeeps, DeviceKeeps DEF ChecksPass
<1>2. QED
  BY <1>1, SharedInvHolds, DeviceRunHolds, PTL

(* The bandwidth kernels copy no element twice and, of launches of whole   *)
(* blocks, leave none out.                                                 *)
THEOREM DataCopiedHolds ==
  ASSUME WholeBlocks
  PROVE  GpuSpec => []DataCopied
<1>1. (bench = "copy" => CopyInv) => DataCopied
  BY CopyOnce, CopyAll DEF DataCopied
<1>2. QED
  BY <1>1, CopyInvHolds, PTL

(* In an array of a power of two, and with a generator of a full period,   *)
(* a work item is back at the element it began with after as many loads as *)
(* the array has elements and not before; in any array it stays below the  *)
(* largest power of two, and all it loads and stores was allocated, but    *)
(* for the items that fill CUDA's last block.                              *)
THEOREM DeviceChainHolds ==
  ASSUME GridFits, FullPeriodArrays
  PROVE  GpuSpec => []DeviceChain
<1> DEFINE RingInv == bench = "device" => DeviceRun /\ DeviceRing
<1>1. GpuInit => RingInv
  <2>1. GpuInit /\ bench = "device" => Device!Init
    BY DEF GpuInit
  <2>2. QED
    BY <2>1, DeviceInit, RingInit
<1>2. RingInv /\ [GpuNext]_gpuVars => RingInv'
  BY OneRuns, DeviceStep, RingStep
<1>3. RingInv => DeviceChain
  BY DeviceKeeps, RingKeeps DEF DeviceChain
<1>4. QED
  <2> HIDE DEF RingInv
  <2>1. QED
    BY <1>1, <1>2, <1>3, PTL DEF GpuSpec

=============================================================================
