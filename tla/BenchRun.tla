------------------------------ MODULE BenchRun -------------------------------
(***************************************************************************)
(* The measurement loop of cpu/intel/xeon_phi/bench.c: NRUNS times, an     *)
(* OpenMP loop of nthreads iterations, each of which takes a time stamp,   *)
(* meets the others in Barrier, works through its slice of the array,      *)
(* meets the others again and takes a second time stamp.  t0 and t1 are    *)
(* ONE pair of words shared by all the threads and written without         *)
(* synchronisation; iteration 0 computes the results of the run from them. *)
(*                                                                         *)
(* Barrier is the abstract barrier of PhasedBarrier, which GroupBarrier is *)
(* shown to implement.  Time is a counter that every time stamp and every  *)
(* begin and end of work advances: it only orders these events.            *)
(***************************************************************************)
EXTENDS Naturals

CONSTANTS
  nthreads,   \* argv[1]: iterations of the parallel loop
  Team,       \* threads the OpenMP runtime gives the parallel region
  NRUNS       \* measured runs

ASSUME SizeAssumption ==
  /\ nthreads \in Nat \ {0} /\ NRUNS \in Nat
  /\ Team \in 1 .. nthreads

TID == 0 .. nthreads - 1
Metric == {"flops", "bandwidth", "execTime"}

VARIABLES
  run,        \* the loop variable of the run loop
  pc,         \* pc[tid]: where iteration tid is
  t0, t1,     \* the shared words
  start,      \* start[tid]: the time stamp iteration tid put or puts in t0
  stop,       \* stop[tid]: the time stamp iteration tid put or puts in t1
  interval,   \* interval[m]: the <<t0, t1>> of which flops[run], ... are computed
  calls,      \* the barrier: calls begun
  returns,    \* the barrier: calls returned from
  time,       \* the clock the time stamps are read from
  work,       \* history: first begin and last end of work in this run
  joined      \* history: the time at which the run before was joined

shared == <<t0, t1>>
barrier == <<calls, returns>>
vars == <<run, pc, shared, start, stop, interval, barrier, time, work, joined>>

(* Two calls per run; the bound leaves room for a call too many. *)
Barrier == INSTANCE PhasedBarrier WITH Threads <- TID, Rounds <- 2 * NRUNS + 1

(* Static schedule: member k of the team executes a contiguous chunk of    *)
(* iterations, one after the other; the first nthreads % Team chunks are   *)
(* longer by one.                                                          *)
ChunkStart(k) ==
  k * (nthreads \div Team) + (IF k < nthreads % Team THEN k ELSE nthreads % Team)
First == {ChunkStart(k) : k \in 0 .. Team - 1}

None == <<0, 0>>

Init ==
  /\ run = 0
  /\ pc = [tid \in TID |-> "start"]
  /\ t0 = 0 /\ t1 = 0
  /\ start = [tid \in TID |-> 0]
  /\ stop = [tid \in TID |-> 0]
  /\ interval = [m \in Metric |-> None]
  /\ Barrier!Init
  /\ time = 1
  /\ work = None
  /\ joined = 0

(* Mutant: run <= NRUNS. *)
RunsLeft_OneMore == run <= NRUNS

(* for (run = 0; run < NRUNS; run++) *)
RunsLeft == run < NRUNS

At(tid, here, there) == pc[tid] = here /\ pc' = [pc EXCEPT ![tid] = there]
Tick == time' = time + 1

(* t0 = __rdtsc (): the read of the counter.  An iteration starts when its *)
(* executor has finished the one before it in the chunk.                   *)
ReadStart(tid) ==
  /\ RunsLeft
  /\ At(tid, "start", "store_t0")
  /\ tid \notin First => pc[tid - 1] = "done"
  /\ start' = [start EXCEPT ![tid] = time]
  /\ Tick
  /\ UNCHANGED <<run, shared, stop, interval, barrier, work, joined>>

(* ... and the store. *)
StoreStart(tid) ==
  /\ At(tid, "store_t0", "enter_first")
  /\ t0' = start[tid]
  /\ UNCHANGED <<run, t1, start, stop, interval, barrier, time, work, joined>>

(* Barrier (tid), the call.                                                *)
Enter(tid) ==
  /\ \/ At(tid, "enter_first", "in_first")
     \/ At(tid, "enter_second", "in_second")
  /\ Barrier!Call(tid)
  /\ UNCHANGED <<run, shared, start, stop, interval, time, work, joined>>

(* The first Barrier returns and the asm loop over A[start .. end) begins. *)
BeginWork(tid) ==
  /\ At(tid, "in_first", "work")
  /\ Barrier!Return(tid)
  /\ work' = [work EXCEPT ![1] = IF @ = 0 THEN time ELSE @]
  /\ Tick
  /\ UNCHANGED <<run, shared, start, stop, interval, joined>>

(* Mutants: the second Barrier left out, and called by thread 0 only. *)
EndWork_NoBarrier(tid) ==
  /\ At(tid, "work", "read_t1")
  /\ work' = [work EXCEPT ![2] = time]
  /\ Tick
  /\ UNCHANGED <<run, shared, start, stop, interval, barrier, joined>>
EndWork_BarrierOfOne(tid) ==
  /\ At(tid, "work", IF tid = 0 THEN "enter_second" ELSE "read_t1")
  /\ work' = [work EXCEPT ![2] = time]
  /\ Tick
  /\ UNCHANGED <<run, shared, start, stop, interval, barrier, joined>>

EndWork(tid) ==
  /\ At(tid, "work", "enter_second")
  /\ work' = [work EXCEPT ![2] = time]
  /\ Tick
  /\ UNCHANGED <<run, shared, start, stop, interval, barrier, joined>>

(* The second Barrier returns. *)
Leave(tid) ==
  /\ At(tid, "in_second", "read_t1")
  /\ Barrier!Return(tid)
  /\ UNCHANGED <<run, shared, start, stop, interval, time, work, joined>>

(* t1 = __rdtsc (): the read of the counter ...                            *)
ReadStop(tid) ==
  /\ At(tid, "read_t1", "store_t1")
  /\ stop' = [stop EXCEPT ![tid] = time]
  /\ Tick
  /\ UNCHANGED <<run, shared, start, interval, barrier, work, joined>>

(* ... and the store; iteration 0 goes on to the results.                  *)
StoreStop(tid) ==
  /\ At(tid, "store_t1", IF tid = 0 THEN "flops" ELSE "done")
  /\ t1' = stop[tid]
  /\ UNCHANGED <<run, t0, start, stop, interval, barrier, time, work, joined>>

(* flops[run] = ... / (t1 - t0), then bandwidth[run] and execTime[run].    *)
(* t0 and t1 are not volatile: the compiler may load a shared word at each *)
(* use or keep the value iteration 0 stored itself.                        *)
NextLine == [flops |-> "bandwidth", bandwidth |-> "execTime", execTime |-> "done"]
Compute(m) ==
  /\ At(0, m, NextLine[m])
  /\ \E from \in {t0, start[0]}, to \in {t1, stop[0]} :
       interval' = [interval EXCEPT ![m] = <<from, to>>]
  /\ UNCHANGED <<run, shared, start, stop, barrier, time, work, joined>>

(* The implicit barrier at the end of the parallel region, and run++: the  *)
(* locals of the iterations die; t0 and t1 keep their values.  The entries *)
(* of this run in flops, bandwidth and execTime are not looked at again    *)
(* before the reduction that follows the last run, which is left out.      *)
Join ==
  /\ RunsLeft
  /\ \A tid \in TID : pc[tid] = "done"
  /\ run' = run + 1
  /\ pc' = [tid \in TID |-> "start"]
  /\ start' = [tid \in TID |-> 0]
  /\ stop' = [tid \in TID |-> 0]
  /\ interval' = [m \in Metric |-> None]
  /\ work' = None
  /\ joined' = time
  /\ UNCHANGED <<shared, barrier, time>>

(* A call of Barrier that cannot return yet spins. *)
Spin(tid) ==
  /\ pc[tid] \in {"in_first", "in_second"}
  /\ \E u \in TID : calls[u] < calls[tid]
  /\ UNCHANGED vars

Step(tid) ==
  \/ ReadStart(tid) \/ StoreStart(tid)
  \/ Enter(tid) \/ BeginWork(tid) \/ EndWork(tid) \/ Leave(tid)
  \/ ReadStop(tid) \/ StoreStop(tid)
  \/ Spin(tid)

Results == \E m \in Metric : Compute(m)

Next ==
  \/ \E tid \in TID : Step(tid)
  \/ Results
  \/ Join
  \/ run = NRUNS /\ UNCHANGED vars

Spec == Init /\ [][Next]_vars

(* Every thread of the team keeps running, the barrier returns when it may *)
(* (CallsReturn of GroupBarrier), and the runtime joins the region.        *)
FairSpec ==
  Spec /\ (\A tid \in TID : WF_vars(Step(tid))) /\ WF_vars(Results) /\ WF_vars(Join)

-----------------------------------------------------------------------------

TypeOK ==
  /\ run \in 0 .. NRUNS
  /\ pc \in [TID -> {"start", "store_t0", "enter_first", "in_first", "work", "enter_second",
                     "in_second", "read_t1", "store_t1", "flops", "bandwidth", "execTime", "done"}]
  /\ t0 \in 0 .. time - 1 /\ t1 \in 0 .. time - 1
  /\ start \in [TID -> 0 .. time - 1]
  /\ stop \in [TID -> 0 .. time - 1]
  /\ interval \in [Metric -> (0 .. time - 1) \X (0 .. time - 1)]
  /\ calls \in [TID -> 0 .. 2 * NRUNS]
  /\ returns \in [TID -> 0 .. 2 * NRUNS]
  /\ work \in (0 .. time - 1) \X (0 .. time - 1)
  /\ joined \in 0 .. time

(* Whichever threads' stamps a result is computed of, its interval holds   *)
(* all the work of all the threads in the run, and nothing of an earlier   *)
(* run: (t1 - t0) never undercounts, and never reaches back.               *)
MeasuresItsRun ==
  \A m \in Metric :
    interval[m] # None =>
      /\ joined <= interval[m][1] /\ interval[m][1] < work[1]
      /\ work[2] < interval[m][2]

(* Where iteration tid stands in its run: calls of Barrier it has made and *)
(* returned from, and whether its stamps have been taken and stored.       *)
Made(tid) ==
  IF pc[tid] \in {"start", "store_t0", "enter_first"} THEN 0
  ELSE IF pc[tid] \in {"in_first", "work", "enter_second"} THEN 1 ELSE 2
Met(tid) ==
  IF pc[tid] \in {"start", "store_t0", "enter_first", "in_first"} THEN 0
  ELSE IF pc[tid] \in {"work", "enter_second", "in_second"} THEN 1 ELSE 2

StartRead(tid) == pc[tid] # "start"
StartStored(tid) == pc[tid] \notin {"start", "store_t0"}
StopStored(tid) == pc[tid] \in {"flops", "bandwidth", "execTime", "done"}
StopRead(tid) == pc[tid] = "store_t1" \/ StopStored(tid)

(* An iteration calls Barrier twice in every run, and nobody is past a     *)
(* call that another one has not made yet.                                 *)
TwoCallsPerRun ==
  \A tid \in TID : calls[tid] = 2 * run + Made(tid) /\ returns[tid] = 2 * run + Met(tid)
MeetTwice == \A tid, u \in TID : Met(tid) <= Made(u)

(* The stamps taken before the first meeting: not before the run before    *)
(* was joined, and before any work, whoever's stamp t0 holds.              *)
StartsFirst ==
  /\ \A tid \in TID : StartRead(tid) => joined <= start[tid]
  /\ \A tid \in TID : StartStored(tid) => joined <= t0
  /\ \A tid \in TID : Met(tid) > 0 => work[1] # 0
  /\ work[1] # 0 =>
       /\ \A tid \in TID : start[tid] < work[1] /\ Made(tid) > 0
       /\ t0 < work[1]

(* The stamps taken after the second meeting: after all the work.          *)
StopsLast ==
  /\ \A tid \in TID : StopRead(tid) => work[2] < stop[tid]
  /\ \A tid \in TID : StopStored(tid) => work[2] < t1

(* Only iteration 0 computes, and only once it has stored its stop.        *)
ComputedLast ==
  \A m \in Metric : interval[m] # None => pc[0] \in {"bandwidth", "execTime", "done"}

(* The inductive invariant of the measurement loop. *)
IInv ==
  /\ TypeOK /\ time \in Nat \ {0}
  /\ \A tid \in TID : StartRead(tid) => RunsLeft
  /\ TwoCallsPerRun /\ MeetTwice
  /\ StartsFirst /\ StopsLast
  /\ ComputedLast /\ MeasuresItsRun

(* Every run ends, and so does the program.                                *)
RunsEnd == <>(run = NRUNS)

(* bench.c announces one density: "For each 512/8 Bytes of data loaded,    *)
(* you do (SIMDW units FMA * nn)".  The reported flops and bandwidth stand *)
(* in that ratio when they are computed of one interval.                   *)
ResultsAgree ==
  (interval["flops"] # None /\ interval["bandwidth"] # None)
    => interval["flops"] = interval["bandwidth"]

=============================================================================
