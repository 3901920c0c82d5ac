----------------------------- MODULE OpenCLHost ------------------------------
(***************************************************************************)
(* The OpenCL host programs of gpu/amd/hd7340 and gpu/arm/mali_t-604/jni:  *)
(* what each does, in which order, with its in-order command queue, its    *)
(* user event and its stopwatch, beside a device that takes commands from  *)
(* the queue whenever it may.  Time is kept as order: the stopwatch holds  *)
(* how far the device was when it was started and when it was read.        *)
(***************************************************************************)
EXTENDS Integers, Sequences, FiniteSets, SequencesExt

CONSTANTS
  NITER,       \* kernels a program enqueues; 10 in the source
  Programs     \* the programs run

Parameters ==
  /\ NITER \in Nat \ {0}
  /\ Programs \subseteq {"flops", "random", "cache", "l1", "maliflops"}

(* random is the same on both devices, and so is cache.                    *)
Kernels(program) == IF program = "flops" THEN 1 ELSE NITER

VARIABLES
  program,
  script,       \* the calls the host still has to make
  i,            \* the loop variable: kernels enqueued, or queried
  queue,        \* the commands enqueued, in order: "write" or "kernel"
  begun, done,  \* how many of them the device has begun and completed
  userEvent,    \* the user event is CL_COMPLETE
  timer,        \* the commands begun and done at stopwatch_start
  elapsed,      \* the commands done at stopwatch_elapsed
  timeStart, timeEnd,   \* the kernel whose time stamp each holds, 0 if none
  timeAccum,    \* the intervals added up
  warned        \* a query failed

vars == <<program, script, i, queue, begun, done, userEvent, timer, elapsed,
          timeStart, timeEnd, timeAccum, warned>>

(* The calls of runTest, of runCL and of verify, in their order.           *)
Calls(p) ==
  CASE p = "flops" ->
         <<"write", "finish", "enqueue", "start", "finish", "elapsed", "profile", "read">>
    [] p = "random" ->
         <<"start", "write", "finish", "enqueue", "elapsed", "release", "start", "finish",
           "elapsed", "profile", "read", "finish">>
    [] p = "cache" ->
         <<"enqueue", "start", "release", "finish", "elapsed", "profile", "read", "finish">>
    [] p = "l1" ->
         <<"start", "write", "finish", "enqueue", "elapsed", "start", "release", "finish",
           "elapsed", "profile", "read", "finish">>
    [] p = "maliflops" ->
         <<"write", "finish", "enqueue", "release", "finish", "profile", "read">>

(* Mutant: the queue is never released. *)
Script_NoRelease(p) == SelectSeq(Calls(p), LAMBDA call : call # "release")

(* Mutant: the queue is released before the kernels are in it. *)
Script_ReleaseFirst(p) == <<"release">> \o SelectSeq(Calls(p), LAMBDA call : call # "release")

Script(p) == Calls(p)

Init ==
  /\ program \in Programs
  /\ script = Script(program)
  /\ i = 0
  /\ queue = <<>>
  /\ begun = 0 /\ done = 0
  /\ userEvent = FALSE
  /\ timer = [begun |-> 0, done |-> 0]
  /\ elapsed = 0
  /\ timeStart = 0 /\ timeEnd = 0
  /\ timeAccum = <<>>
  /\ warned = FALSE

Over == script \in {<<>>, <<"exit">>}

At(call) == script # <<>> /\ Head(script) = call

(* clEnqueueWriteBuffer, not blocking *)
Write ==
  /\ At("write")
  /\ queue' = Append(queue, "write")
  /\ script' = Tail(script)
  /\ UNCHANGED <<program, i, begun, done, userEvent, timer, elapsed, timeStart, timeEnd, timeAccum, warned>>

(* clEnqueueNDRangeKernel, once or NITER times *)
Enqueue ==
  /\ At("enqueue")
  /\ queue' = Append(queue, "kernel")
  /\ i' = IF i + 1 = Kernels(program) THEN 0 ELSE i + 1
  /\ script' = IF i' = 0 THEN Tail(script) ELSE script
  /\ UNCHANGED <<program, begun, done, userEvent, timer, elapsed, timeStart, timeEnd, timeAccum, warned>>

(* clSetUserEventStatus (user_event, CL_COMPLETE) *)
Release ==
  /\ At("release")
  /\ userEvent' = TRUE
  /\ script' = Tail(script)
  /\ UNCHANGED <<program, i, queue, begun, done, timer, elapsed, timeStart, timeEnd, timeAccum, warned>>

StopwatchStart ==
  /\ At("start")
  /\ timer' = [begun |-> begun, done |-> done]
  /\ script' = Tail(script)
  /\ UNCHANGED <<program, i, queue, begun, done, userEvent, elapsed, timeStart, timeEnd, timeAccum, warned>>

StopwatchElapsed ==
  /\ At("elapsed")
  /\ elapsed' = done
  /\ script' = Tail(script)
  /\ UNCHANGED <<program, i, queue, begun, done, userEvent, timer, timeStart, timeEnd, timeAccum, warned>>

(* clFinish, and the blocking clEnqueueReadBuffer, return when all that is *)
(* in the queue is complete.                                               *)
Finish ==
  /\ At("finish") \/ At("read")
  /\ done = Len(queue)
  /\ script' = Tail(script)
  /\ UNCHANGED <<program, i, queue, begun, done, userEvent, timer, elapsed, timeStart, timeEnd, timeAccum, warned>>

(* Mutant: the previous kernel is queried. *)
Queried_Off == IF program = "maliflops" THEN Kernels(program) ELSE i

(* kernel_events[i], for all i or for the last only *)
Queried == IF program = "maliflops" THEN Kernels(program) ELSE i + 1

(* clGetEventProfilingInfo for the start and the end of a kernel, and      *)
(* timeAccum += timeEnd - timeStart.  A query that fails says so and       *)
(* leaves the variable as it was.                                          *)
Profile ==
  /\ At("profile")
  /\ \E s \in {Queried, timeStart}, e \in {Queried, timeEnd} :
       /\ timeStart' = s
       /\ timeEnd' = e
       /\ timeAccum' = Append(timeAccum, <<s, e>>)
       /\ warned' = (warned \/ s # Queried \/ e # Queried)
  /\ i' = IF Queried = Kernels(program) THEN 0 ELSE i + 1
  /\ script' = IF i' = 0 THEN Tail(script) ELSE script
  /\ UNCHANGED <<program, queue, begun, done, userEvent, timer, elapsed>>

(* A call that enqueues a command fails: exit (status). *)
Fail ==
  /\ At("write") \/ At("enqueue") \/ At("read")
  /\ script' = <<"exit">>
  /\ UNCHANGED <<program, i, queue, begun, done, userEvent, timer, elapsed, timeStart, timeEnd, timeAccum, warned>>

(* The device begins the next command, if the one before is complete and   *)
(* so is the event it waits for: the user event, which main.cpp of the AMD *)
(* benchmark has none of.                                                  *)
Begin ==
  /\ ~Over
  /\ begun = done /\ begun < Len(queue)
  /\ queue[begun + 1] = "kernel" /\ program # "flops" => userEvent
  /\ begun' = begun + 1
  /\ UNCHANGED <<program, script, i, queue, done, userEvent, timer, elapsed, timeStart, timeEnd, timeAccum, warned>>

Complete ==
  /\ ~Over
  /\ begun = done + 1
  /\ done' = begun
  /\ UNCHANGED <<program, script, i, queue, begun, userEvent, timer, elapsed, timeStart, timeEnd, timeAccum, warned>>

HostStep ==
  \/ Write \/ Enqueue \/ Release \/ StopwatchStart \/ StopwatchElapsed \/ Finish \/ Profile \/ Fail

DeviceStep == Begin \/ Complete

(* The program is over, or waits in clFinish. *)
Idle ==
  /\ Over \/ At("finish")
  /\ UNCHANGED vars

Next == HostStep \/ DeviceStep \/ Idle

(* The host is scheduled, and clFinish has the queue sent to the device.   *)
Spec == Init /\ [][Next]_vars /\ WF_vars(HostStep) /\ WF_vars(DeviceStep)

-----------------------------------------------------------------------------

TypeOK ==
  /\ program \in Programs
  /\ script = <<"exit">> \/ IsSuffix(script, Script(program))
  /\ i \in 0 .. NITER - 1
  /\ queue \in Seq({"write", "kernel"}) /\ Len(queue) <= NITER + 1
  /\ begun \in 0 .. Len(queue) /\ done \in {begun, begun - 1}
  /\ userEvent \in BOOLEAN /\ warned \in BOOLEAN
  /\ timer \in [begun : 0 .. NITER + 1, done : 0 .. NITER + 1]
  /\ elapsed \in 0 .. NITER + 1
  /\ timeStart \in 0 .. NITER /\ timeEnd \in 0 .. NITER
  /\ timeAccum \in Seq((0 .. NITER) \X (0 .. NITER))

KernelsIn(n) == Cardinality({k \in 1 .. n : queue[k] = "kernel"})

(* No kernel begins while the host is still enqueueing others: between the *)
(* first and the last the device never waits for the host.                 *)
BackToBack == KernelsIn(begun) > 0 => KernelsIn(Len(queue)) = Kernels(program)

(* The stopwatch that times the kernels, the last one started, is in use   *)
(* or has been read.                                                       *)
Timing ==
  /\ program # "maliflops" /\ script # <<"exit">>
  /\ ~Contains(script, "start")

(* The copy of the data is complete before the time measurement begins     *)
(* (main.cpp:245).                                                         *)
CopyNotTimed == Timing => \A k \in timer.done + 1 .. Len(queue) : queue[k] # "write"

(* What the stopwatch says includes the end of the last kernel.            *)
ElapsedIsOver == Timing /\ ~Contains(script, "elapsed") => elapsed = Len(queue)

(* The measured interval holds all kernels from their beginning on: none   *)
(* has begun when the stopwatch is started.                                *)
TimerCovers == Timing => KernelsIn(timer.begun) = 0

(* cache.cpp and l1.cpp compute the performance from the stopwatch and     *)
(* start it before they release the queue.                                 *)
CacheTimerCovers == program \in {"cache", "l1"} => TimerCovers

(* Unless a failed query has been reported, each kernel is accounted for   *)
(* by the interval between its own beginning and its own end.              *)
Accounted ==
  ~warned /\ script # <<"exit">> /\ ~Contains(script, "profile") =>
    timeAccum = IF program = "maliflops" THEN << <<NITER, NITER>> >>
                ELSE [k \in 1 .. Kernels(program) |-> <<k, k>>]

=============================================================================
