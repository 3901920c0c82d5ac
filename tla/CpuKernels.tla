----------------------------- MODULE CpuKernels ------------------------------
(***************************************************************************)
(* The kernels of the generic CPU benchmark (generic/random-and-cache) as  *)
(* main.cpp runs them: the macros UBENCH_TEST_* choose what a build runs,  *)
(* and each kernel is to have the machine for itself.  bench says which    *)
(* one this execution runs; the variables of the others stay as they are.  *)
(*                                                                         *)
(*   random     the on-the-fly random and atomic kernels (RandomAccess)    *)
(*   chase      the pointer chase (PointerChase)                           *)
(*   stream     the kernels that read an array once (StreamLoop)           *)
(*   generator  no kernel: the sequence of a generator the others draw     *)
(*              from (GeneratorPeriod)                                     *)
(***************************************************************************)
EXTENDS RandomAccess

CONSTANTS
  ChaseSizes,              \* Sizes of PointerChase
  Turns, Width,            \* of StreamLoop
  Cases                    \* of GeneratorPeriod

VARIABLES
  bench,
  chase_bits, chase_pc, i, chase_state, prevIndex, data, initialVector, at,
  kernel, bytes, left, front, back, stream_pc, reads,
  copy, bits, shift, k, power, orbit

chaseVars == <<chase_bits, chase_pc, i, chase_state, prevIndex, data, initialVector, at>>
streamVars == <<kernel, bytes, left, front, back, stream_pc, reads>>
periodVars == <<copy, bits, shift, k, power, orbit>>
cpuVars == <<bench, vars, chaseVars, streamVars, periodVars>>

Chase ==
  INSTANCE PointerChase WITH
    Sizes <- ChaseSizes, bits <- chase_bits, pc <- chase_pc, state <- chase_state
Stream == INSTANCE StreamLoop WITH pc <- stream_pc
Period == INSTANCE GeneratorPeriod

ASSUME ChaseAssumption == Chase!Parameters
ASSUME StreamAssumption == Stream!Parameters
ASSUME PeriodAssumption == Period!Parameters

(* A benchmark that is not run. *)
Off == "off"
RandomOff == Init /\ fn = CHOOSE f \in Functions : TRUE
ChaseOff ==
  /\ chase_bits = Off /\ chase_pc = Off /\ i = Off /\ chase_state = Off
  /\ prevIndex = Off /\ data = Off /\ initialVector = Off /\ at = Off
StreamOff ==
  /\ kernel = Off /\ bytes = Off /\ left = Off /\ front = Off
  /\ back = Off /\ stream_pc = Off /\ reads = Off
PeriodOff ==
  /\ copy = Off /\ bits = Off /\ shift = Off /\ k = Off /\ power = Off /\ orbit = Off

CpuInit ==
  \/ bench = "random" /\ Init /\ ChaseOff /\ StreamOff /\ PeriodOff
  \/ bench = "chase" /\ Chase!Init /\ RandomOff /\ StreamOff /\ PeriodOff
  \/ bench = "stream" /\ Stream!Init /\ RandomOff /\ ChaseOff /\ PeriodOff
  \/ bench = "generator" /\ Period!Init /\ RandomOff /\ ChaseOff /\ StreamOff

RunRandom == bench = "random" /\ Next /\ UNCHANGED <<bench, chaseVars, streamVars, periodVars>>
RunChase == bench = "chase" /\ Chase!Next /\ UNCHANGED <<bench, vars, streamVars, periodVars>>
RunStream == bench = "stream" /\ Stream!Next /\ UNCHANGED <<bench, vars, chaseVars, periodVars>>
RunPeriod == bench = "generator" /\ Period!Next /\ UNCHANGED <<bench, vars, chaseVars, streamVars>>

CpuNext == RunRandom \/ RunChase \/ RunStream \/ RunPeriod

(* The thread keeps running, and not every attempt at a STREX is struck by *)
(* an exception.                                                           *)
Unmoved == UNCHANGED <<bench, chaseVars, streamVars, periodVars>>
CpuSpec ==
  /\ CpuInit /\ [][CpuNext]_cpuVars
  /\ WF_cpuVars(bench = "random" /\ Step /\ Unmoved)
  /\ SF_cpuVars(bench = "random" /\ StoreExclusive /\ Unmoved)
  /\ WF_cpuVars(RunChase) /\ WF_cpuVars(RunStream)

-----------------------------------------------------------------------------

CpuTypeOK ==
  /\ TypeOK
  /\ bench = "chase" => Chase!TypeOK
  /\ bench = "stream" => Stream!TypeOK
  /\ bench = "generator" => Period!TypeOK

(* No kernel accesses memory beyond the array of the size it was called    *)
(* for, except the ARM functions for 2^13 to 2^15 bytes, which draw lines  *)
(* of twice the array, and the four that stream from wrong addresses.      *)
InsideArrays ==
  /\ (fn[1] \in {"LDR", "LLSC"} /\ fn[2] <= 15) \/ InsideArray
  /\ bench = "stream" /\ kernel \notin Stream!Misplaced => Stream!InArray

(* A kernel that returns has been at the whole array the reported rate is  *)
(* computed from: every line but line 0 of the random kernels, every word  *)
(* exactly once of those that stream.  Those four, and no others, miss     *)
(* some words and read others twice.                                       *)
WholeArray ==
  /\ Traverses
  /\ bench = "stream" /\ stream_pc = "finish" /\ bytes > 0 =>
       (Stream!ReadsOnce <=> kernel \notin Stream!Misplaced)

(* The twelve chasers go round one cycle through the whole array, and no   *)
(* two of them are ever at the same element: none finds in the cache what  *)
(* another has loaded.                                                     *)
ChasersApart == bench = "chase" => Chase!OneCycle /\ Chase!Apart

(* Each generator of each copy of the shift table takes every value but 0  *)
(* before it repeats one, except the one for 29 bits, which does not       *)
(* unless it is the copy of the ARM files.                                 *)
FullPeriods ==
  bench = "generator" /\ k = bits =>
    (Period!FullPeriod <=> ~(bits = 29 /\ copy # "arm"))

(* Every kernel returns, and the benchmark ends.                           *)
CpuEnds ==
  /\ <>(bench = "random" => pc = "done")
  /\ <>(bench = "chase" => chase_pc = "done")
  /\ <>(bench = "stream" => stream_pc \in {"finish", "trap"})

=============================================================================
