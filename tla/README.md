# A TLA+ model of the roofline-of-energy microbenchmarks

The repository holds the microbenchmarks behind a roofline model of energy: one
program or family of programs per platform (Xeon Phi, x86 and ARM CPUs, OpenCL and
CUDA GPUs), each of which runs a tight kernel for a known amount of work while
time and power are measured. Nine tenths of its lines are generated, straight-line
kernels. What can go wrong in a way a test would hardly show is around the kernels, and
in the few that have control: barriers that line threads up for a measurement,
shared time stamps, pseudo-random permutations the memory benchmarks follow, loops that
must read every word once, host code that queues work and starts clocks, files that
carry a tuning result from one program to the next.

A benchmark is correct when the number it reports is right: the work it divides by
the time is the work that was done, and the time is the time it took. Most of the properties
below are of that form.

All source paths are relative to `src/`.

## 1. Inventory

### A. Xeon Phi benchmark (`cpu/intel/xeon_phi/`)

| part | state | operations | interacts with |
|---|---|---|---|
| `SIMPLE_BARRIER` (`barriers.h:36-107`) | `TURN[ID]` (private phase bit), and per phase a `FLAG` and a `COUNT[ID]` | `INIT`, the barrier call | threads through the shared words only |
| `TREE_BARRIER` (`barriers.h:114-267`) | `TURN[ID]`, and per phase `FLAG[level][ID]`, `COUNT[level][ID]`, four levels of 256 threads | `INIT`, the barrier call | same |
| `USER_BARRIER` (`barriers.h:274-484`) | the words of the tree barrier, plus the tables `MASTER`, `SET`, `STRIDE`, `MAX` that `INIT` fills | `INIT` (exits above 24 threads), the barrier call | same |
| class `TreeBarrier` (`barriers.h:489-525`), macro `Barrier` (`common.h:83`) | one `TREE_BARRIER_TYPE` and `nthreads` | `Init`, `Wait` | `bench.c` |
| `bench.c:50-570` | `run`, the shared `t0`, `t1`, the arrays `flops`, `bandwidth`, `execTime`, the data array | argument parsing, allocation, `NRUNS` runs of an OpenMP loop, reduction | the barrier (two calls per iteration), OpenMP |
| `common.c` | the data array, thread affinity | `initvec`, `initomp` | OpenMP |

Hard: everything in the barriers is a race on volatile words, without
fences and without atomic instructions; threads may be a whole call ahead of one
another; words are reused every second call; the climb ends at a power of the group
size; `t0`, `t1` are written by every thread without synchronisation.

Correct: no thread leaves its n-th call before everybody has made its n-th call; no
arrival and no release is lost; every call
returns; no access outside the arrays for up to 256 threads (24 for `USER_BARRIER`); the
reported interval of a run holds the work of all its threads and nothing of another
run.

### B. Generic CPU random and cache benchmark (`generic/random-and-cache/`)

`main.cpp` either links an array with a cyclic permutation drawn from a XorShift generator
(class `XorShift`, `main.cpp:31-200`) and lets
twelve pointer chasers follow it, or calls one of some three hundred assembly functions chosen by size, stride
and instruction: random loads and updates drawn on the fly (`*-random.asm`,
`*-random-atomic.asm`), and loops that stream (`*-sequential.asm`). State: registers (generator,
pointers, bytes left), the array, the exclusive monitor of an ARM core.
Hard: one wrong digit of a shift table shortens a generator; the functions end only when the generator
comes back to its seed; `STREX` may fail and must be repeated; the unrolled loops subtract before they test and
have a rest; semi-sequential loops move two pointers towards each other.
Correct: a kernel that returns has been at the whole array, inside it, once.

### C. OpenCL hosts (`gpu/amd/hd7340/`, `gpu/arm/mali_t-604/jni/`)

Programs that build a kernel from a string, fill buffers, enqueue kernels on an
in-order queue (some held back by a user event), start a stopwatch, wait
with `clFinish`, ask for profiling times and verify. Hard: the device runs when it likes; the order of
enqueue, release of the user event and
start of the stopwatch; failed queries; a chain over an array of any size.
Correct: the time reported has the kernels in it; the chain goes round the array; the host's
check agrees with the device.

### D. CUDA benchmarks (`gpu/nvidia/kepler/gtx_titan/`, `gpu/nvidia/fermi/gtx580/`)

Tuners that search launch configurations and write the best one to a file
(`jeebandwidthilpbench.cu`, `jeecomputeilpbench.cu`), readers of that file
(`jeemaxbench*.cu`), a switch of more than three hundred cases from two numbers to a generated kernel, a pointer
chase (`jeerandmem.cu`), shared-memory and cache chases (`jeesmtest.cu`, `jeecachetest.cu`), bandwidth kernels; about
100 000 lines of generated kernels. Hard: a file that is missing, half written or written by two
searches; threads of a block without a barrier; blocks that are not full; a kernel chosen by the wrong case.
Correct: what runs with a configuration was tuned; what is reported was executed; every element is
copied once.

### E. OpenMP sections harnesses and stopwatch (`cpu/intel/nehalem`, `cpu/intel/ivy_bridge`, `cpu/amd/bobcat`, `arm/ti`, `arm/samsung`, `timer.cpp`)

Parallel sections, one kernel each, beside one for power measurement; each takes a time of its own, the
maximum is reported. Hard: sections go to whichever thread comes next, in a team of any size; seconds and
nanoseconds; a wall clock somebody sets. Correct: the time covers the kernels it stands for.

## 2. Modules

| module | models | kind |
|---|---|---|
| `PhasedBarrier` | what `Barrier (tid)` promises | abstract specification |
| `SimpleBarrier` | `SIMPLE_BARRIER` | refines `PhasedBarrier` |
| `GroupTree` | the tables through which a thread finds its group, and what makes them a tree | pure |
| `GroupBarrier` | the algorithm `TREE_BARRIER` and `USER_BARRIER` share | refines `PhasedBarrier` |
| `TreeShape`, `UserShape` | the digit arithmetic of `TREE_BARRIER`; the tables of `USER_BARRIER_INIT` | pure |
| `BarrierShapes` | all tables of both, one after the other | enumeration |
| `GroupBarrierTSO` | `GroupBarrier` with a store buffer per thread | extends `GroupBarrier`, refines it on the settled words |
| `BenchRun` | the measurement loop of `bench.c` | composes with `PhasedBarrier` |
| `XorShift` | the draw and the shift tables of all copies (class, assembly macros, `findShifter`) | pure |
| `GeneratorPeriod` | the period of a generator, by squaring its matrix (`XorShift::skip`) | algorithm |
| `RandomAccess` | on-the-fly random loads and updates, `LDREX`/`STREX` with an interrupt | extends `XorShift` |
| `PointerChase` | the chain of `main.cpp` and its twelve chasers | extends `XorShift` |
| `StreamLoop` | all kernels that read an array once, x64, k1om and ARM | component |
| `CpuKernels` | part B: one of the four above per execution | composition |
| `SharedChase` | shared-memory and cache chases of CUDA: threads, shared array, barrier, validation | component |
| `DeviceChase` | the random chase of OpenCL and CUDA: initialisation, work items, check | extends `XorShift` |
| `StreamCopy` | the bandwidth kernels: index map and threads | component |
| `GpuKernels` | one of the three above per execution | composition |
| `AutotuneConfig` | tuners, the parameter file, readers, restarts, a full disk | component |
| `WorkDispatch` | the switch to a generated kernel, the launches, the report | component |
| `OpenCLHost` | host, in-order queue, user event, stopwatch, profiling | component |
| `SectionsHarness` | parallel sections, clocks, times, maximum | component |
| `HostPrograms` | one of the four above per execution | composition |
| `SimpleBarrierProofs`, `GroupBarrierProofs`, `GroupBarrierTSOProofs`, `ShapesProofs`, `BenchRunProofs` | theorems on part A | proofs |
| `CpuKernelsProofs`, `GpuKernelsProofs`, `HostProgramsProofs` | theorems on parts B to E | proofs |
| `MC*` | instances for TLC | model checking |

How the parts compose. `BenchRun` calls the *abstract* barrier; `GroupBarrier` is shown to
implement it (checked by TLC, proved by TLAPS), for any tables that form a tree, and `GroupBarrierTSO` to implement `GroupBarrier`;
`BarrierShapes` says that the tables of the source form one (checked by TLC for every size the source accepts, proved for all sizes).
`XorShift` is used by the chases and the random kernels alike.
The three compositions `CpuKernels`, `GpuKernels`, `HostPrograms` reflect how the programs are used: a measurement has the machine
to itself, so an execution chooses one benchmark (`bench`) and the variables of the others
stay "off". The programs that do run beside each other, tuners and readers of one file, are processes of one
component.

### From code to actions

**Barriers.** *One action is one load or store of a shared word.* A wait loop is two actions: the load that
ends it (`AwaitCount`, `AwaitFlag`) and the load that does not (`Spin`, a stuttering step). The two
branches of each barrier, for `TURN[ID] == 0` and otherwise, are the same code with `_0`
and `_1` exchanged; they are one set of actions with the phase `p = 1 - TURN` as an
index (after the flip on entry). `TURN[ID]` is touched by thread `ID` only, so its accesses
belong to `Enter`. `CHILD` runs in step with `SET` and is an expression.

| code (phase 0 branch) | `SimpleBarrier` | `GroupBarrier` |
|---|---|---|
| flip of `TURN[ID]` | `Enter` | `Enter` |
| `COUNT[ID] = 1` | `SetCount` | `SetCount` |
| `while (FLAG == 0)` | `AwaitFlag`, `Spin` | `AwaitFlag`, `Spin` |
| `while (COUNT[child] == 0)` | `AwaitCount`, `Spin` | `AwaitCount`, `Spin` |
| `COUNT_1[child] = 0` | `ClearCount` | `ClearCount` |
| `LEVEL++`, end of the climb | - | `Climb` |
| `while (LEVEL > 0) LEVEL--` | - | `ReleaseBelow`, part of the actions that lead to it |
| `FLAG_1 = 0` | `ResetFlag` | `ResetFlag` |
| `FLAG_0 = 1` | `SetFlag` | `SetFlag` |

`calls` and `returns` are history variables: how many calls each thread has begun and
ended. They are the state of `PhasedBarrier`, so the refinement mapping is the identity on
them and `Threads <- ID`.

In `GroupBarrierTSO` a store appends to the thread's FIFO buffer, `Drain` moves the oldest
entry to memory, and a load sees the thread's own pending stores first. This is the x86 model;
the code's words are volatile (the compiler keeps the order of accesses) but there is no fence. The *settled* words
(`SettledFlag`, `SettledCount`) are what memory will show once the buffers are empty; on them a store of `GroupBarrierTSO` is the
store of `GroupBarrier` and a drain is no step.

**`BenchRun`.** A time stamp is a read of a counter followed by a store to the shared
word (two actions, so that another thread can come between). The stores and the three
result lines use `t0`, `t1` which are not volatile: each use in the result lines may load the shared
word or use the value iteration 0 has just stored. Each result records the pair of stamps it
was computed of. `Team` is the number of threads the OpenMP runtime provides; iterations are
dealt out in contiguous chunks (the static schedule), executed one after the other.

**CPU kernels.** One action is one instruction that matters: in `RandomAccess` the call, the draw, the
access (or `LDREX`, `STREX` and its retry), the test for the seed; an interrupt clears the monitor at any moment. A word is the set of the
positions of its ones, which makes exclusive or a symmetric difference. In `StreamLoop` a turn of the
unrolled loop is one action that reads one block at the addresses the code names; the register that counts
the bytes wraps. `PointerChase` fills the array one draw per action, and one turn of the loop moves all chasers.

**GPU.** In `DeviceChase` the shift amounts are part of the state, as `findShifter` leaves them: fixed by the size, or, where the CUDA
program leaves one unset, any. `SharedChase` and `DeviceChase` interleave single loads and stores of the threads, with `__syncthreads` as an
action that waits for all of a block; then the host follows the same chains. In `OpenCLHost` each program
is its list of calls in order; the device begins and completes commands when the queue and
the user event allow. Time is kept as order: the stopwatch holds what the device had begun and done.

**Host programs.** In `AutotuneConfig` the file is its lines; `fopen (.., "w")` empties it (`Create`), the text is
written at `fclose` (`Close`, because of stdio's buffer), and a full disk leaves any part of it. In
`SectionsHarness` time is a counter, `Second` a short second, so that the borrow of nanoseconds happens.
`WorkDispatch` knows a generated kernel by what it moves and computes.

## 3. Properties

Each is aimed at a hazard of `PROJECT.json`.

**Barriers.**
* `Separation` - no thread returns from its n-th call before every thread has made its n-th
  call. In the tree barrier no thread looks beyond its own groups, so this is a property of all levels
  together.
* `ArrivalKept` - a thread that waits is counted when its master comes to look: the clearing of the
  other phase's words by a master that may be a call ahead does not erase it.
* `NoLostRelease` - an action property: a release word is taken down only when nobody waits on it.
* `CleanEntry`, `CleanArrival` (proved only) - a thread finds the words of its phase clean when it is
  about to use them: no stale 1 of two calls ago.
* `CallsReturn` - every call returns.
* `ImplementsBarrier` - every step is a step of `PhasedBarrier` or a stutter.
* `NoStaleStore` - with store buffers: while a thread waits for its release, no clearing of its arrival
  word and no lowering of the release word it waits on is still on its way to memory.
* `ImplementsInOrder` - with store buffers the barrier takes, on the settled words, the steps of the barrier whose
  stores take effect at once: no thread can tell the difference.
* `GroupsFormATree`, `LevelsFit` - the tables of the source are those of a tree, with no more levels
  than the arrays have rows. The assumption `DigitIsMask` says that the arithmetic of the model is the bit mask of the
  source.

**Measurement loop.**
* `MeasuresItsRun` - whichever threads' stamps a result is computed of, its interval holds all the work
  of the run and nothing of an earlier one.
* `ResultsAgree` - the results of a run are computed of one interval. Violated, see findings.
* `RunsEnd` - all runs end.

**CPU kernels.**
* `InsideArrays` - no access beyond the array of the size the function was called for, except by the
  kernels named in the property.
* `WholeArray` - a kernel that returns has been at all of its array: every line but line 0 if it draws, every word
  exactly once if it streams; four kernels, and no others, do not.
* `UpdatesCount` - every update has happened once, however often `STREX` fails; the `INC` functions with
  strides of 64 and 128 bytes, and no others, do not count.
* `NoRevisit` - no line is accessed twice in a call, so that nothing a traverse reads was brought in
  by the same traverse.
* `ChasersApart` - the twelve chasers go round one cycle and are never at the same element.
* `FullPeriods` - every row of every copy of the shift table gives a generator of full period, except row 29
  outside the ARM files.
* `CpuEnds` - every kernel returns, or stops at its `INT 3` if the size is no multiple of its block.

**GPU kernels.**
* `NoStaleRead` - although eleven of the shared-memory kernels have no barrier, no thread follows a link
  into a word not yet written.
* `ChecksPass` - the host's verification finds nothing, at any pace of the threads, and it has followed as many links as
  the kernels have made loads.
* `DeviceChain` - a work item goes round the whole array if its size is a power of two; for other sizes it
  stays inside the largest power of two; links and grid stay inside what was allocated, except for CUDA's last,
  partly filled block.
* `DataCopied` - every element is copied once, and nothing beyond.
* `GpuEnds` - every kernel is over and checked some time.

**Hosts.**
* `ConfigFound` - what a benchmark runs with was chosen by a search, whatever other processes, restarts
  or a full disk do to the file.
* `WorkReported` - what a CUDA program reports is what its kernels did, except for the case
  that takes another kernel and for numbers without a kernel, of which it has complained; every configuration a search may
  write has a kernel, and so has each of its stream counts with every small number of multiply-adds in the reader of the file.
* `QueueTimed` - the time an OpenCL host reports has the kernels in it, one behind the other, and not
  the copy before them; `TimerCovers` is the stronger statement that none has begun when the clock starts.
* `QueueAccounted` - the sum of profiled times has each kernel once.
* `RegionTimed` - the time of a sections harness covers the kernels it stands for, whoever ran which,
  as long as nobody sets the clock.
* `HostEnds` - every program comes to its end.

## 4. Runs

| run | instance | what it shows |
|---|---|---|
| `simple_barrier` | 4 threads, 4 calls each | the liveness, action property and refinement of `SimpleBarrier` |
| `tree_barrier` | 6 threads, groups of 2, 4 calls | all properties of `GroupBarrier` on a tree of three levels with partial groups |
| `user_barrier` | 5 threads, groups of 3 in place of 12, 4 calls | the same algorithm over `USER_BARRIER_INIT`'s tables |
| `shapes` | all sizes 1..256 and 1..24, `GROUP` 4 and groups of 12 | what `GroupBarrier` assumes about its tables |
| `tree_barrier_tso` | 5 threads, groups of 2, 3 calls | the missing fences do no harm on x86: the barrier implements the one in order |
| `bench_run` | 3 threads, team of 3, 2 runs | the measured interval is right whichever thread's stamps survive |
| `bench_results` | 2 threads, 1 run | **violation** of `ResultsAgree` |
| `cpu_kernels` | see below | the kernels of part B |
| `random_arm_small` | the ARM function for 2^15 bytes | **violation** of `InsideArray` |
| `gpu_kernels` | see below | the data-moving kernels of parts C and D |
| `host_programs` | see below | the host programs of parts C, D and E |
| `opencl_timer_random` | `random.cpp` with 4 kernels | **violation** of `TimerCovers` |

### Bounds, and why they are enough

* `Rounds` bounds the calls each thread makes. A word of a phase is used in every second call,
  and a thread can be at most one call ahead of another; with 4 calls each phase is used twice, so that
  every word is set, cleared, and set again. With store buffers 3 calls reuse the words of the
  first phase, which is where a delayed store could do harm.
* `MAX`, `GROUP`: 6 threads in groups of 2 give three levels with a partial group at two of
  them, so that a thread climbs, waits at an inner level, and releases the levels below; groups of
  3 give a master with two members. The proofs cover all sizes.
* `shapes` is exhaustive for the sizes the source accepts.
* `NRUNS = 2`: `t0` and `t1` keep their values from run to run, so two runs are needed for a stale
  value to be read. 3 threads: the one that computes, one that is late, and one that is early.
  The clock is bounded by the number of stamps the runs take.
* `cpu_kernels`: six functions, one of each kind and each stride that behaves differently; arrays for chases of 5 to 8
  bits, the smallest on which twelve chasers fit and the unrolled loop has several rounds; `Turns` 3 (a first,
  an inner and a last turn); `Width` 16 bits for the byte counter, so that it can wrap; all rows of all copies
  of the shift table, except row 17 of the copies in the C++ and CUDA programs, where a shift is unset or the case falls through. `ReadPasses` is the source's number of timed
  passes of the read functions, `UpdatePasses` is 1: the passes are independent calls.
* `gpu_kernels`: 3 threads in blocks of 2 (a full and a partial block), chases of 1, 2 and 4 words per thread,
  device arrays of 24 and 32 elements (one no power of two), 32 iterations (once round the array and
  no more), both hosts, 1 and 2 work items in groups of 2; eight copy configurations that fill their blocks, as the hosts use.
* `host_programs`: two tuners and one reader of one file, one restart in all, a disk that may be full, two speeds; the
  grid is the smallest number of threads and one that makes 65536 blocks, one more than the Fermi program accepts
  (`MaxBlocks` is 65535 there and in the compute benchmark, 2147483647 in the Titan's bandwidth benchmark, where only the
  test of the size refuses anything), with third numbers 4 and 8, of which the size test refuses one (one digit each, as the
  source's 1, 2, 4, 8 are). Every number of streams and of multiply-adds that has a case somewhere, and some that have none;
  3 iterations; 4 kernels in the queue; five harnesses on 1 and 2 threads, a clock of 4 ticks with a second of
  3 units, so that a time may cross a second; one possible setting of the clock by somebody else.

`CHECK_DEADLOCK FALSE` is used by `shapes` only: the enumeration of sizes ends. In every other
specification the end of the program is an explicit stuttering step, and a thread that
spins takes a stuttering step (`Spin`) because a spinning thread does not stop; a hang therefore
appears as a violation of a liveness property, and not as a deadlock.

### Fairness

* Barriers: `bench.c` runs one thread per hardware context and threads do not block in the kernel
  between their calls (`DELAY` is a delay instruction), so each thread keeps taking its enabled
  step: weak fairness of `Step(t)` per thread. A store leaves its buffer eventually: weak fairness of
  `Drain(t)`.
* `BenchRun`: a call of `Barrier` that may return does return; that is `CallsReturn` of the
  detailed barrier. The runtime joins a region whose iterations are done.
* `CpuKernels`: a core executes instructions (weak fairness of each kernel's step). `StoreExclusive` has strong fairness:
  an interrupt may clear the monitor before any `STREX`, but not before every one of them for ever. Nothing in the
  code bounds the retries; without it `CpuEnds` does not hold. This is the only strong fairness.
* `GpuKernels`: weak fairness of the whole next-state relation; every step makes progress, so no fairness among
  threads is needed.
* `HostPrograms`: weak fairness of each process, of the host's and of the device's steps (`clFinish` flushes the
  queue, so the device must run), of the runtime's fork, of the threads' sections, of the report and of
  the clock. Restarts have no fairness and are bounded by `MaxStarts`.

### Findings

Three have a run.

1. **The results of a run may be computed of different intervals** (`bench_results`). After the second
   `Barrier` every thread stores `t1` (`cpu/intel/xeon_phi/bench.c:545`) and nothing orders these stores before the three
   lines in which thread 0 uses it (`bench.c:548-551`). `flops[run]` may be computed with one thread's
   stamp and `bandwidth[run]` with another's, although the two stand in the fixed ratio the
   program prints (`bench.c:83`). Each is still a valid measurement (`MeasuresItsRun` holds).
2. **The ARM functions for 2^13 to 2^15 bytes reach up to twice their size** (`random_arm_small`): they draw
   indices of one bit too many (`generic/random-and-cache/arm-random.asm:2497`).
3. **`random.cpp` starts its stopwatch after it has released the queue** (`opencl_timer_random`;
   `gpu/amd/hd7340/random.cpp:456-468`): kernels that begin in between are timed in part.

Other differences between what the code says and what it does were met while modelling. The first group is stated in the
properties as exact exceptions ("these and no others"), so that a run fails when one is repaired or
another appears.

* `generic/random-and-cache/main.cpp:46`: row 29 of the shift table is not of full period (the ARM macro's is).
* `x64-random-atomic.asm:4404`: the `INC` functions with strides of 64 and 128 bytes do not increment.
* `x64-sequential.asm:479` (MMX) and `arm-sequential.asm:797` (LDR, LDM, VLD1): semi-sequential kernels
  whose second pointer has the wrong offset; they read some words twice and miss others.
* `gpu/nvidia/kepler/gtx_titan/jeemaxbench.cu:118`: case 9 launches the kernel for 8.
* `random.cpp:317`, `jeerandmem.cu:288`: the chain covers only the largest power of two in an array of another
  size.
* `jeerandmem.cu:279`: the grid is rounded up to full blocks and the kernel does not test for its end.

The second group is recorded here and under `hazards`.

* `main.cpp:104` and `jeerandmem.cu:125`: row 17 assigns `shift[0]` twice and leaves `shift[2]` unset; the macro
  `XORSHIFT_17` is right.
* `main.cpp:1043`: the number of timed passes of the read benchmark is an integer quotient that is 0.
* `gpu/amd/hd7340/main.cpp:277`: the stopwatch starts after the enqueue.
* `cache_kernel.cu:27`: the cache kernels make one load less than the host counts.
* `bandwidthilp_kernel2.cu:40`: consecutive elements of a thread are a block apart, while `gpu/nvidia/kepler/gtx_titan/README:36` says
  "in strides of N", the number of threads.
* `cpu/intel/ivy_bridge/i3-3217U/main.cpp:82`: in a team of one thread the sections run one after the other.
* `timer.cpp:63`: the stopwatch uses `CLOCK_REALTIME`, which may be set.
* `bench.c:107`: "One loop iteration per thread" is a request; in a smaller team a thread waits in its first iteration's
  `Barrier` for its own second one, and the program hangs (proved: `SmallTeamHangs`).
* The parameter file of the compute benchmark has a third number of several digits: cut short by a full disk
  ("4096" to "4") it is read as another valid configuration. `ConfigFound` is checked for the bandwidth
  benchmark, whose third number is one digit.

## 5. Proofs

TLAPS checks the following for every value of the constants. Every invariant, action property and refinement the
passing runs check is stated by a theorem, except `FullPeriods` and the liveness properties; for the barriers and the
measurement loop the safety half of liveness is proved too.

| module | theorem | states | hypotheses |
|---|---|---|---|
| `SimpleBarrierProofs`, `GroupBarrierProofs` | `Invariance` | the inductive invariant `IInv` | |
| | `TypeCorrect`, `SeparationHolds`, `ArrivalKeptHolds`, `NoLostReleaseHolds` | the properties of these names | |
| | `CleanEntryHolds`, `CleanArrivalHolds` | `CleanEntry` (of the first), `CleanArrival` (of the second) | |
| | `Implementation` | `ImplementsBarrier`: every step is one of `PhasedBarrier` or a stutter | |
| | `SomeoneReady`, `ReadyStaysHolds`, `BudgetHolds` | until all calls have returned some thread can step; who can step stays able to; all steps but turns of wait loops spend from a finite budget | |
| `GroupBarrierTSOProofs` | `TSOInvariance`, `TSOTypeCorrect`, `NoStaleStoreHolds` | the inductive invariant `TSOInv`, and the properties of these names | |
| | `InOrderImplementation` | `ImplementsInOrder`: the barrier with store buffers implements the one without | |
| | `TSOSeparation`, `TSOImplementation` | `Separation` and `PhasedBarrier`, with store buffers | |
| | `TSOSomeoneReady`, `ReadyStaysTSOHolds`, `TSOBudgetHolds` | the three of `GroupBarrierProofs` with store buffers: someone can step, or a store is on its way | |
| `ShapesProofs` | `GroupsFormATreeHolds`, `LevelsFitHolds` | the properties of these names, for groups of any size and any number of threads | |
| | `TreeBarrierSeparates`, `UserBarrierSeparates`, `TreeBarrierImplements`, `UserBarrierImplements` | `Separation` and the refinement of `PhasedBarrier`, of the two barriers with the tables of the source, with store buffers | `USER_BARRIER`: at most 2 `WIDTH` threads, as its `INIT` demands |
| | `TreeBarrierMoves`, `UserBarrierMoves` | the three of `GroupBarrierTSOProofs`, of the two barriers with the tables of the source | the same |
| `BenchRunProofs` | `Invariance`, `TypeCorrect`, `MeasuresItsRunHolds` | the inductive invariant `IInv` of `bench.c`'s loop, and the properties of these names | |
| | `FullTeamMoves` | until the last run is over some iteration can go on, or all are done | a team of `nthreads` |
| | `SmallTeamHangs` | the first run never ends: iteration 1 never starts | a smaller team |
| `CpuKernelsProofs` | `DrawInjective`, `DrawNonZero` | the draw is injective on words of every size, and never gives 0 for another word | shifts other than 0 |
| | `PeriodDecided` | what the run computes of a row of a shift table (`FullPeriods`) holds if and only if the row's generator comes to every word but 0 (`Whole`), or does not, for the one exception | |
| | `TypeCorrect`, `TrailHolds`, `NoRevisitHolds`, `UpdatesCountHolds` | what a call has touched is a trail of draws that does not meet itself; hence `NoRevisit` and `UpdatesCount` | |
| | `CpuInvHolds`, `CpuTypesHold`, `InsideArraysHold` | the invariant of all kernels of part B, and the properties of these names | |
| | `WholeArrayHolds` | `WholeArray` | the generators of the functions called have a full period |
| | `ChasersApartHold` | `ChasersApart` | `FullPeriodSizes` |
| `GpuKernelsProofs` | `SharedInvHolds`, `CopyInvHolds`, `DeviceRunHolds` | the invariants of the three kinds of GPU kernels | the last: `GridFits` |
| | `NoStaleReadHolds` | `NoStaleRead`, with and without the barrier | |
| | `GpuTypesHold`, `ChecksPassHold` | `GpuTypeOK`, `ChecksPass` | `GridFits` |
| | `DataCopiedHolds` | `DataCopied` | `WholeBlocks` |
| | `DeviceChainHolds` | `DeviceChain` | `GridFits`, `FullPeriodArrays` |
| `HostProgramsProofs` | `ConfigFoundHolds` | `ConfigFound`, for any number of tuners, readers and restarts and any grid | a disk that may be full only if third numbers have one digit |
| | `WorkReportedHolds`, `RegionTimedHolds`, `QueueTimedHolds`, `QueueAccountedHolds`, `HostTypesHold` | the properties of these names | |

### Hypotheses and assumptions

The assumptions on constants stand in the modules that declare them and are evaluated by TLC in the runs: numbers of threads, calls,
runs and sizes are naturals, a team is not empty, a search has a grid that is not empty
(`ConfigAssumption`), the registers of a streaming loop can hold the number of bytes it is called with (`StreamLoop`'s
`Parameters`), `TREE_BARRIER` has levels enough for `MaxTree` threads (`ShapeAssumption`). `GroupBarrier` assumes that its tables have their
types and form a tree: thread 0 never waits, every other thread waits at one level for one master that waits at
a higher one, and the group loop of a master visits exactly the threads that wait for it.
`ShapesProofs` discharges this for the tables of the source.

Some theorems have hypotheses of their own, all of which the instances of the runs satisfy.

* **Full periods.** `Whole(shifts, bits)` says that from the seed the generator comes to every word but 0: a
  set that has the seed and is closed under the draw has them all. It is asked of the generators the functions use
  (`WholeArrayHolds`), of the chase's sizes (`FullPeriodSizes`, which leaves out 17, whose shift the C++ class
  does not set), and of the device arrays whose size is a power of two (`FullPeriodArrays`, of all shift amounts the host's `findShifter` may leave: for 2^17 elements the CUDA program leaves one amount
  unset, so the theorem says something of CUDA programs only if `ArraySizes` is without that size). It is a fact about each
  row of a table. The run `cpu_kernels` computes `FullPeriods` row by row from the matrix of the draw and the divisors of 2^bits - 1, and
  `PeriodDecided` says that this computation decides `Whole`; so the run discharges the hypothesis for the rows the
  tables have. Row 29 outside the ARM files does not satisfy it; the theorems say nothing of arrays of that size.
* **`GridFits`.** The array of the device chase has an element for every work item, those of CUDA's last block
  included. The programs take both numbers from the command line and do not compare them.
* **`WholeBlocks`.** With 2 to 8 streams, the thread count of a copy kernel is a multiple of the block size. It is so for all launches the search
  tries, hence for all it can write (`ConfigFound`); a file a user writes by hand may differ.
* **`DiskFull => LastThird < 10`.** See the finding about digits that a full disk cuts off.

### Arguments

**Barriers.** *Separation* is not inductive: it says nothing of the words. `IInv` says of each thread
other than the root how it stands to **its master only** (`Linked`): the thread's calls are as many as
the master's releases of it or one more (`InStep`); the release word it waits on is up in exactly the
phase of the last release (`FlagOf`); its arrival word is up from the arrival until the master collects
it one call later (`CountOf`). That is enough to be inductive, with one lemma per action: an action of
thread t disturbs the links of t to its master and of t's members to t, and no others (`Frame`). The
second part lifts the links to the whole tree. `LinkOrder` compares a thread with its master, for what has been
gathered on the way up and released on the way down; `RootOrder` carries the comparison to the
root: if some thread were out of order, take one that waits at the highest level; its master waits
higher still, and is in order. Hence every thread's returns are bounded by what the root
has released, and that by what everybody has called. `Implementation` follows from
`Separation` in the state before each step that returns. `SimpleBarrier` is the same argument with one master,
where the link to the master already is the link to the root.

**Store buffers.** The abstract words are the *settled* ones, which is what memory will hold once all buffers are empty: a release word is up if the
last store to it is a raise, an arrival word if an arrival is pending or nothing is going to clear it. A store changes
them at once and a drain not at all, so the settled barrier takes exactly the steps of `GroupBarrier`,
provided that a load that ends a wait sees in memory what is settled. That is what `TSOInv` adds to `IInv` of the settled
words (`InOrder!IInv`): between a thread and its master only stores of the running round are on their way; an arrival or a raise that is pending
is not in memory yet; and behind each pending clear or lowering stands, in the same buffer, the raise of the
round (`RaiseComesLast`). FIFO order then makes sure that a thread that sees the raise meets no older store later, without a fence.
`TSOSeparation` and `TSOImplementation` follow from the theorems of `GroupBarrierProofs` about the settled barrier.

**Why the calls return.** `CallsReturn` needs fairness, which the prover does not have; what fairness is needed *for* is proved.
(1) `SomeoneReady`: the wait loops do not hold everybody. Suppose they do. A master
that gathers waits for a member that has not arrived, and a member that is held without having arrived gathers itself, at a lower level; so
there is no lowest one, and nobody gathers (`WaitsBelow`, `GatherersMove`). A thread that waits for its release has a master that is held too, hence
waits for a release at a higher level; so there is no highest one either (`WaitsAbove`, `SomeoneMoves`). (2) `ReadyStays`: a wait that may end may end until it
does, because nobody takes the word down before the waiter has read it. (3) `BudgetHolds`: each step that is not a turn of a wait
loop moves its thread forward along `Length` places of a call, and there are `Rounds` calls. Under weak fairness of
each `Step(t)`, (1) to (3) give `CallsReturn`. With store buffers a pending store counts as somebody who can go on, and a
store is paid for twice, when it is made and when it drains; the invariant `NoStaleStore` gives (2). Without the pending stores (1) is
false there.

**Tables.** A thread is a member of level l if the digits of its ID below l are zero, and waits at the level of its lowest digit
that is not zero. The proof is arithmetic of quotients and remainders by powers of `GROUP`; the tables of
`USER_BARRIER_INIT` are two levels, of which the second has at most two groups. With it
the theorems about `GroupBarrierTSO` hold of `TREE_BARRIER` and `USER_BARRIER` themselves.

**Measurement loop.** `MeasuresItsRun` says something of the moment a result is computed only. `IInv` follows the stamps to it:
every iteration calls `Barrier` twice in a run (`TwoCallsPerRun`), and nobody is past a call somebody has not made (`MeetTwice`,
from `PhasedBarrier`'s `Return`). Hence, whoever's stamp `t0` holds, it was read after the last join and, once there is work, before all of
it (`StartsFirst`), and a stored `t1` was read after all the work (`StopsLast`). By `MeetTwice`, in a team of `nthreads` an
iteration that is held waits for one that is a call behind, and one that is behind by two is not held at all (`FullTeamMoves`). In a smaller team
iterations 0 and 1 are in one chunk (`SecondIteration`), and 1 starts when 0 is done, which is when 1 has made two
calls (`SmallTeamHangs`).

**Generator and random accesses.** Each of the three exclusive-or steps of a draw can be undone bit by bit, from the end
the shift does not reach; so a draw is injective, and as it maps 0 to 0 it maps nothing else there.
The lines a call has touched are a trail: each one but the seed is the draw of another one in it. A line
that came twice would have two predecessors, or be the seed, where the call ends. For `UpdatesCount`, the lines of one call
are the closed orbit of the seed (`Course`), the same in each call, and the counter of a line is the number of calls that
have been there (`Tally`), one line behind in the running call. `WholeArray` adds the full period.

**Periods.** The run never draws 2^29 words: it squares the matrix of the draw. `PeriodCourse` says that the state of that computation
is what it is meant to be: the accumulated matrix takes a word as many draws ahead as the bits so far say, which rests on the draw being
linear in exclusive or. Every divisor of 2^bits - 1 is among the exponents tried. The least number of draws after which the seed is
back divides every other such number (or the remainder would be one, and smaller), so if it is none of the proper divisors it is
2^bits - 1, the words passed are as many as there are words but 0, and the generator is `Whole`. The converse is `Returns` and
`NoEarlyReturn`, below. A shift of 0 annihilates words, and such a generator is neither.

**Streaming loops.** `StreamRun` says which addresses the turns so far have covered: `Row` is a number of loads one behind the other,
and `Over` the loads that cover a byte. Exactly one load of a row covers each byte in it, because the offset of a byte determines
its place in the row; and the rows of the turns, put together, are one row over the array, unless one of the four misplaced kernels moves its second pointer.

**Pointer chase.** The draws of the initialisation are a walk over the words but 0. A walk that is back at its first word has been
everywhere (`NoEarlyReturn`: the words passed form a closed set with the seed in it, or, without it, the rest would be a closed set),
and by the pigeonhole principle it is back after 2^bits - 1 draws (`Returns`). The twelve chasers start at different places of that cycle (`IndexDiffers`) and move
alike, so two that met would have started at one place.

**Shared chase.** A thread that chases is at a word it has written itself, as the links it writes stay among its own
words (`OwnWord`); no barrier is needed for that, and any thread that writes the word writes the same. The walk of the host is the same chain.

**Bandwidth kernels.** The index of a copy is a number with three digits: block, stream, thread in the block (or stream and thread,
with sixteen streams and more). Digits are unique, so two copies do not meet (`IndexApart`), and every element has its digits,
so all are copied (`IndexOnto`). `CopyInv` says that an element is marked by the thread that has counted past it.

**Device chase.** `DeviceRun`: a work item has come as far along its chain as it has made loads, and has stored the end of it, which is what the host
walks to. Elements are numbers and links are words; that an element's word determines it, and which words are elements
(`ElementDiffers`, `WordElement`), is counted with the library's theorems on finite sets. For the cycle, `Linked` says of the initialisation that the draws
so far are a chain through the array and the rest is untouched. A trail that is shorter than a period does not
meet itself and has not met 0 (`Distinct`: else the words passed would be closed, and too few). After the last draw the chain closes through
element 0 to a ring over all elements (`IsRing`), on which a work item is where its start is if its loads are a multiple of the size.

**Parameter file.** A tuner, too, begins by reading the file. A file of three lines holds the choice of a search that got as far as
`fclose`, and any other file is refused by whoever reads it (`FileInv`); `TunedInv` follows a configuration from the search
through buffer and file to its use. With a full disk what is written is a beginning of the text: if the third number is one digit, it has three lines only
if it is all of them.

**Dispatch.** `DispatchInv`: what has been moved and computed is the number of launches times the work of the kernel the two
numbers choose, if there is one. The theorem is then a comparison of two tables, with the nine multiply-adds as the one difference.

**Sections.** `RegionInv` keeps account of every section: not yet handed out, in the hands of one thread, or served; of the thread that waits for
the others; and of what the clock showed when each kernel began and ended. A report is made of a team in which
nobody is busy, so all times are there, and a time covers its kernel unless the clock was set in between.

**OpenCL queue.** The calls of each host are a list; `Place` names where in it the queue is filled, released, drained and measured. `QueueInv` says what holds after
the first n calls: how many commands are enqueued, which have begun and are done (the device may be
anywhere between what is forced by a wait and what is allowed by the event), what the stopwatch holds, what has been
queried; or the program has given up.

### Only model-checked

* Liveness (`CallsReturn`, `RunsEnd`, `CpuEnds`, `GpuEnds`, `HostEnds`): fairness and ENABLED are outside this prover. Of `CallsReturn`
  only the last step is left to TLC, from readiness and budget to the return.
* The three properties that are violated are counterexamples of TLC's.
* `FullPeriods`: the powers of 26 matrices and the divisors of numbers up to 2^30 - 1, by computation. What it means is proved.
* `DigitIsMask`: that the digits of the model are the bit masks of the source for groups of a power of two.

### What is left

The last step to `CallsReturn` from fairness, and the budgets of the kernels and hosts, whose liveness TLC alone checks.

## 6. Not modelled

* **Generated kernels.** About 100 000 of the 110 714 lines of the implementation are straight-line kernels written by scripts
  (`py.intensity_kernel.ilp.cu`, `computeilp_kernel.cu`, `sm_kernel.cu`, `compute_kernel.cu`, `cache_kernel.cu`
  and most of the `*.asm` files): loads, arithmetic and stores without a branch, repeated for every parameter. A
  definition stands for each family, mapped to a kernel of it; what hosts assume of them is in `WorkDispatch`,
  `SharedChase`, `StreamCopy` and `StreamLoop`. The map covers some 5 400 lines of code (at most 150 counted of a definition), most of what has control;
  a large share of all lines is not reachable without naming lines no definition translates.
* `bench.c:50-82`: argument parsing, allocation, the size as a product of `int`s (it fits for every number of threads
  the barrier supports); the assembly body of the loop; the maximum and minimum after the last run;
  `initvec`. The words of level 1 that `USER_BARRIER_INIT` leaves unset belong to threads that never
  climb that far. `TreeBarrier`'s default constructor leaves `nthreads` unset; `bench.c` calls
  `Init` before the first `Barrier`.
* The compiler's freedom over `t0`, `t1` is modelled at their use by iteration 0 only; the barrier's volatile
  accesses and calls are taken to keep the order of the stamps relative to it.
* A tuner that is stopped between `fopen` and `fclose` leaves an empty file, and the next reader exits; what a user does
  then is outside.
* The buffer of 50000 bytes for the OpenCL source; `computeEvent` of the Mali `main.cpp:303`, released without having
  been set; the bound of `h_Output`'s initialisation in `l1.cpp:247`; the capacity of the tuners' result arrays:
  properties of memory the models have no words for.
* Prefetches and the order of loads within a turn of an unrolled loop; the floating-point comparison of the
  verifications, whose data the models abstract to which element went where.
* Power measurement itself, and the files it writes: the instruments are outside the repository.
