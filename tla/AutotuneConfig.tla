--------------------------- MODULE AutotuneConfig ----------------------------
(***************************************************************************)
(* The parameter file of the CUDA benchmarks.  jeebandwidthilpbench and    *)
(* jeecomputeilpbench (the tuners) read the execution configuration from   *)
(* the file of their argument; if it is not there they measure every       *)
(* configuration of a grid, take the fastest and write it to the file.     *)
(* jeemaxbench (a reader) uses the file of the bandwidth benchmark and     *)
(* stops if there is none.  The programs are started by hand or by a       *)
(* script, in any order, may be stopped at any point and started again.    *)
(*                                                                         *)
(* The output of the fprintfs stays in the buffer of stdio until fclose,   *)
(* whose result is not looked at: of a full disk it leaves a part of the   *)
(* text.  The first fgets reads the whole of the short file.               *)
(***************************************************************************)
EXTENDS Integers, Sequences, FiniteSets

CONSTANTS
  Tuner, Reader,              \* processes given the same file
  Benchmark,                  \* "bandwidth" or "compute", of the tuners
  ThreadCounts, BlockSizes,   \* the values of the outer loops, as sequences
  MaxBlocks,                  \* largest grid: 65535, on the Titan 2147483647 for "bandwidth"
  FirstThird, LastThird,      \* inner loop: streams or multiply-adds
  Speeds,                     \* performance a measurement may show
  DiskFull,
  MaxStarts                   \* bound: processes started again

ASSUME ConfigAssumption ==
  /\ Benchmark \in {"bandwidth", "compute"}
  /\ ThreadCounts \in Seq(Nat) \ {<<>>} /\ BlockSizes \in Seq(Nat) \ {<<>>}
  /\ MaxBlocks \in Nat \ {0}
  /\ FirstThird \in Nat \ {0} /\ LastThird \in Nat /\ FirstThird <= LastThird
  /\ Speeds \subseteq Nat \ {0}
  /\ DiskFull \in BOOLEAN
  /\ MaxStarts \in Nat

Process == Tuner \union Reader

VARIABLES
  file,     \* the lines of the file, or Absent
  pc,
  perf,     \* per process: perf[0 .. l - 1]
  config,   \* per process: threads, block size, third parameter
  found,    \* history: the configurations some search has chosen
  starts    \* times a process was started again

vars == <<file, pc, perf, config, found, starts>>

Absent == <<-1>>

(* Turns of the inner loop, for(k = 1; k <= 8; k *= 2) *)
Turns == Cardinality({e \in 0 .. 13 : FirstThird * 2 ^ e <= LastThird})

(* The configurations in the order of the three loops. *)
Grid ==
  [x \in 1 .. Len(ThreadCounts) * Len(BlockSizes) * Turns |->
     << ThreadCounts[(x - 1) \div (Turns * Len(BlockSizes)) + 1],
        BlockSizes[(((x - 1) \div Turns) % Len(BlockSizes)) + 1],
        FirstThird * 2 ^ ((x - 1) % Turns) >>]

(* A condition of runTest the configuration c does not meet. *)
Refused(c) ==
  \/ (c[1] + c[2] - 1) \div c[2] > MaxBlocks
  \/ Benchmark = "bandwidth" /\ (c[1] \div 1024) * c[3] * 16 >= 700000

Init ==
  /\ file = Absent
  /\ pc = [p \in Process |-> "start"]
  /\ perf = [p \in Process |-> <<>>]
  /\ config = [p \in Process |-> <<>>]
  /\ found = {}
  /\ starts = 0

(* fp = fopen (argv[1], "r") *)
Open(p) ==
  /\ pc[p] = "start"
  /\ pc' = [pc EXCEPT ![p] = IF file # Absent THEN "read"
                             ELSE IF p \in Tuner THEN "tune" ELSE "exit"]
  /\ UNCHANGED <<file, perf, config, found, starts>>

(* l++ *)
Next_l(p, speed) == Append(perf[p], speed)

(* The performance of the configuration c, without one if refused. *)
Shown(c) == IF Refused(c) THEN {0} ELSE Speeds

(* One turn of the loops of autotune: runTest and the performance; a       *)
(* configuration that was refused, with the time -1, has none.             *)
Measure(p) ==
  /\ pc[p] = "tune" /\ Len(perf[p]) < Len(Grid)
  /\ \E speed \in Shown(Grid[Len(perf[p]) + 1]) :
       perf' = [perf EXCEPT ![p] = Next_l(p, speed)]
  /\ UNCHANGED <<file, pc, config, found, starts>>

(* The first of the best. *)
Best(measured) ==
  CHOOSE x \in 1 .. Len(measured) :
    /\ \A y \in 1 .. Len(measured) : measured[y] <= measured[x]
    /\ \A y \in 1 .. x - 1 : measured[y] < measured[x]

Choose(p) ==
  /\ pc[p] = "tune" /\ Len(perf[p]) = Len(Grid)
  /\ config' = [config EXCEPT ![p] = Grid[Best(perf[p])]]
  /\ found' = found \union {Grid[Best(perf[p])]}
  /\ pc' = [pc EXCEPT ![p] = "create"]
  /\ UNCHANGED <<file, perf, starts>>

(* fopen (file_name, "w") *)
Create(p) ==
  /\ pc[p] = "create"
  /\ file' = <<>>
  /\ pc' = [pc EXCEPT ![p] = "close"]
  /\ UNCHANGED <<perf, config, found, starts>>

(* What a full disk may leave of the three lines c: some of them, and of   *)
(* the next its first digits.                                              *)
Cut(c) ==
  LET Digits(n) == {m \in {n \div 10 ^ d : d \in 0 .. 8} : m > 0}
  IN  {SubSeq(c, 1, n) : n \in 0 .. 3}
        \union {Append(SubSeq(c, 1, nm[1]), nm[2]) : nm \in
                  UNION {{n} \X Digits(c[n + 1]) : n \in 0 .. 2}}

(* fclose: the three lines go to the beginning of the file.  What another  *)
(* process has written beyond them stays, and is never read; where it has  *)
(* written, the disk has the blocks already.                               *)
Close(p) ==
  /\ pc[p] = "close"
  /\ file' \in IF DiskFull /\ file = <<>> THEN Cut(config[p]) ELSE {config[p]}
  /\ pc' = [pc EXCEPT ![p] = "use"]
  /\ UNCHANGED <<perf, config, found, starts>>

(* Mutant: the missing line is not noticed. *)
Complete_Two(lines) == Len(lines) >= 2

(* fgets has found all three lines. *)
Complete(lines) == Len(lines) = 3

(* readConfig *)
Read(p) ==
  /\ pc[p] = "read"
  /\ IF Complete(file)
     THEN /\ config' = [config EXCEPT ![p] = file]
          /\ pc' = [pc EXCEPT ![p] = "use"]
     ELSE /\ pc' = [pc EXCEPT ![p] = "exit"]
          /\ UNCHANGED config
  /\ UNCHANGED <<file, perf, found, starts>>

(* The program is started again, after its end or because it was stopped: *)
(* by the user, or by itself at a CUDA error.                              *)
Start(p) ==
  /\ pc[p] # "start" /\ starts < MaxStarts
  /\ starts' = starts + 1
  /\ pc' = [pc EXCEPT ![p] = "start"]
  /\ perf' = [perf EXCEPT ![p] = <<>>]
  /\ config' = [config EXCEPT ![p] = <<>>]
  /\ UNCHANGED <<file, found>>

Run(p) ==
  \/ Open(p) \/ Measure(p) \/ Choose(p) \/ Create(p) \/ Close(p) \/ Read(p)

Ended(p) == pc[p] \in {"use", "exit"}

Next ==
  \/ \E p \in Process : Run(p) \/ Start(p)
  \/ (\A p \in Process : Ended(p)) /\ UNCHANGED vars

Spec == Init /\ [][Next]_vars /\ \A p \in Process : WF_vars(Run(p))

-----------------------------------------------------------------------------

TypeOK ==
  /\ file = Absent \/ (Len(file) <= 3 /\ \A x \in DOMAIN file : file[x] \in Nat)
  /\ pc \in [Process -> {"start", "tune", "create", "close", "read", "use", "exit"}]
  /\ \A p \in Process :
       /\ \A x \in DOMAIN perf[p] : perf[p][x] \in Speeds \union {0}
       /\ config[p] = <<>> \/ Len(config[p]) = 3
  /\ \A c \in found : \E x \in DOMAIN Grid : Grid[x] = c
  /\ starts \in 0 .. MaxStarts

(* What a benchmark runs with was chosen by a search: whatever other       *)
(* processes do to the file meanwhile, wherever one of them is stopped     *)
(* and, for the bandwidth benchmark, whatever a full disk has left of the  *)
(* three lines: its third number is one digit, which cannot be cut short.  *)
ConfigFound == \A p \in Process : pc[p] = "use" => config[p] \in found

=============================================================================
