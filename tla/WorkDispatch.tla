----------------------------- MODULE WorkDispatch ----------------------------
(***************************************************************************)
(* How the CUDA benchmarks get from a number of streams and of             *)
(* multiply-adds per element to one of their generated kernels, and what   *)
(* they report of it: jeemaxbench.cu (double, "intensity"),                *)
(* jeemaxbenchilp.cu ("ilp"), jeecomputeilpbench.cu ("compute") and        *)
(* jeebandwidthilpbench.cu ("bandwidth").  A generated kernel is           *)
(* straight-line code; what counts of it is how many elements a thread     *)
(* moves and how many multiply-adds it makes of each.                      *)
(***************************************************************************)
EXTENDS Integers

CONSTANTS
  Programs,
  StreamCounts, FlopCounts,    \* the parameters tried
  NUM_ITER                     \* launches between the time stamps

Parameters ==
  /\ Programs \subseteq {"intensity", "ilp", "compute", "bandwidth"}
  /\ StreamCounts \subseteq Nat /\ FlopCounts \subseteq Nat
  /\ NUM_ITER \in Nat \ {0}

VARIABLES
  program, nStreams, nFlops,
  iter,
  moved, computed,    \* elements moved and multiply-adds made, per thread
  complained,         \* "Invalid ..." on stderr
  report              \* elements and multiply-adds per launch, of the report

vars == <<program, nStreams, nFlops, iter, moved, computed, complained, report>>

Power(n) == {2 ^ e : e \in 0 .. n}

(* The cases of the inner switch beyond 1 .. 32. *)
LargeFlops(streams) ==
  CASE streams = 1 -> {64, 128, 256, 512}
    [] streams = 2 -> {64, 128, 256, 512, 1024, 2048, 4096}
    [] streams = 4 -> {64, 128}
    [] streams = 8 -> {48, 64, 128, 160, 192}
    [] OTHER -> {}

IlpFlops ==
  (1 .. 8) \union {10, 12, 14, 16, 20, 24, 28, 32, 40, 48, 56, 64, 72, 128, 160, 256, 512, 1024, 2048, 4096}

(* Mutant: one more case takes the kernel of its neighbour. *)
Chosen_Typo(streams, flops) == <<streams, IF flops \in {9, 11} THEN flops - 1 ELSE flops>>

(* The kernel executeKernel launches, intensity_kernel_s_f; case 9 calls   *)
(* the kernel for 8.                                                       *)
Chosen(streams, flops) == <<streams, IF flops = 9 THEN 8 ELSE flops>>

(* The parameters that have a case of their own. *)
Valid(streams, flops) ==
  \/ program = "intensity" /\ streams \in Power(7) /\ flops \in (1 .. 32) \union LargeFlops(streams)
  \/ program = "ilp" /\ flops \in IlpFlops
  \/ program = "compute" /\ flops \in Power(12)
  \/ program = "bandwidth" /\ streams \in Power(7)

(* What the kernel moves and computes, per thread asked for: ilp has       *)
(* nStreams times as many threads, of one float4 each.                     *)
KernelWork ==
  LET f == Chosen(nStreams, nFlops)[2]
  IN  CASE program = "intensity" -> <<nStreams, nStreams * f>>
        [] program = "ilp" -> <<nStreams, nStreams * nFlops * 4>>
        [] program = "compute" -> <<1, nFlops>>
        [] program = "bandwidth" -> <<nStreams, 0>>

Launches == IF program = "ilp" THEN 1 ELSE NUM_ITER

Init ==
  /\ program \in Programs
  /\ nStreams \in StreamCounts
  /\ nFlops \in FlopCounts
  /\ iter = 0
  /\ moved = 0 /\ computed = 0
  /\ complained = FALSE
  /\ report = <<>>

(* default: fprintf (stderr, "Invalid ...") *)
Complains == ~Valid(nStreams, nFlops)

(* Mutant: one turn too many. *)
LaunchesLeft_OneMore == iter <= Launches

(* for(int iter = 0; iter < NUM_ITER; iter++) *)
LaunchesLeft == iter < Launches

(* One call of executeKernel, or one turn of the loop around the switch. *)
Launch ==
  /\ LaunchesLeft
  /\ iter' = iter + 1
  /\ IF Valid(nStreams, nFlops)
     THEN /\ moved' = moved + KernelWork[1]
          /\ computed' = computed + KernelWork[2]
          /\ UNCHANGED complained
     ELSE /\ complained' = Complains
          /\ UNCHANGED <<moved, computed>>
  /\ UNCHANGED <<program, nStreams, nFlops, report>>

(* The amounts of the last printfs, for the time of one launch. *)
Reported ==
  CASE program = "intensity" -> <<nStreams, nFlops * nStreams>>
    [] program = "ilp" -> <<nStreams, nFlops * 4 * nStreams>>
    [] program = "compute" -> <<1, nFlops>>
    [] program = "bandwidth" -> <<nStreams, 0>>

Report ==
  /\ iter = Launches /\ report = <<>>
  /\ report' = Reported
  /\ UNCHANGED <<program, nStreams, nFlops, iter, moved, computed, complained>>

Next == Launch \/ Report \/ (report # <<>> /\ UNCHANGED vars)

Spec == Init /\ [][Next]_vars

-----------------------------------------------------------------------------

TypeOK ==
  /\ program \in Programs /\ nStreams \in StreamCounts /\ nFlops \in FlopCounts
  /\ iter \in 0 .. Launches
  /\ moved \in Nat /\ computed \in Nat
  /\ complained \in BOOLEAN
  /\ report = <<>> \/ (report[1] \in Nat /\ report[2] \in Nat)

(* What the report counts is what the kernels have done in that time.      *)
WorkMatches ==
  report # <<>> => <<moved, computed>> = <<Launches * report[1], Launches * report[2]>>

(* With the exception of nFlops = 9 of the double-precision program, and   *)
(* of parameters without a kernel.                                         *)
WorkMatchesButNine ==
  ~complained /\ ~(program = "intensity" /\ nFlops = 9) => WorkMatches

(* The program complains exactly if it has done nothing; it then reports   *)
(* a performance all the same.                                             *)
ComplainsOfNothing ==
  report # <<>> /\ nStreams > 0 => (complained <=> moved = 0)

(* A kernel exists for every configuration the searches of the bandwidth   *)
(* and of the compute benchmark may write into the parameter file; the     *)
(* intensity program, which uses the file of the bandwidth benchmark, has  *)
(* one for each of its numbers of streams and each small intensity.        *)
SearchedIsValid ==
  /\ program = "bandwidth" /\ nStreams \in {1, 2, 4, 8} => ~complained
  /\ program = "intensity" /\ nStreams \in {1, 2, 4, 8} /\ nFlops \in (1 .. 32) \union {64, 128}
       => ~complained
  /\ program = "compute" /\ nFlops \in Power(12) => ~complained

=============================================================================
