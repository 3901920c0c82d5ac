---------------------------- MODULE HostPrograms -----------------------------
(***************************************************************************)
(* The programs around the kernels: what they choose to run, what they     *)
(* launch, and what interval they time.  A measurement has the machine for *)
(* itself: bench says which family of programs this execution runs; the    *)
(* variables of the others stay as they are.                               *)
(*                                                                         *)
(*   tuned      the CUDA tuners and the readers of their parameter file,   *)
(*              the only ones that may run beside each other               *)
(*              (AutotuneConfig)                                           *)
(*   dispatch   the CUDA programs that choose a generated kernel by        *)
(*              numbers (WorkDispatch)                                     *)
(*   queue      the OpenCL hosts (OpenCLHost)                              *)
(*   sections   the OpenMP harnesses (SectionsHarness)                     *)
(***************************************************************************)
EXTENDS AutotuneConfig

CONSTANTS
  DispatchPrograms, StreamCounts, FlopCounts, NUM_ITER,   \* of WorkDispatch
  NITER, QueuePrograms,                                   \* of OpenCLHost
  Harnesses, Thread, MaxTime, Second, Settings            \* of SectionsHarness

VARIABLES
  bench,
  program, nStreams, nFlops, iter, moved, computed, complained, report,
  host, script, i, queue, begun, done, userEvent, timer, elapsed,
  timeStart, timeEnd, timeAccum, warned,
  harness, team, next, job, now, offset, start, time, kernel_begun, kernel_ended, longest

dispatchVars == <<program, nStreams, nFlops, iter, moved, computed, complained, report>>
queueVars ==
  <<host, script, i, queue, begun, done, userEvent, timer, elapsed, timeStart, timeEnd,
    timeAccum, warned>>
sectionsVars ==
  <<harness, team, next, job, now, offset, start, time, kernel_begun, kernel_ended, longest>>
hostVars == <<bench, vars, dispatchVars, queueVars, sectionsVars>>

Dispatch == INSTANCE WorkDispatch WITH Programs <- DispatchPrograms
Queue == INSTANCE OpenCLHost WITH Programs <- QueuePrograms, program <- host
Region ==
  INSTANCE SectionsHarness WITH
    begun <- kernel_begun, ended <- kernel_ended, report <- longest

ASSUME DispatchAssumption == Dispatch!Parameters
ASSUME QueueAssumption == Queue!Parameters
ASSUME RegionAssumption == Region!Parameters

(* A family of programs that is not run; the processes of AutotuneConfig   *)
(* are in their initial state then.                                        *)
Off == "off"
DispatchOff ==
  /\ program = Off /\ nStreams = Off /\ nFlops = Off /\ iter = Off
  /\ moved = Off /\ computed = Off /\ complained = Off /\ report = Off
QueueOff ==
  /\ host = Off /\ script = Off /\ i = Off /\ queue = Off /\ begun = Off /\ done = Off
  /\ userEvent = Off /\ timer = Off /\ elapsed = Off /\ timeStart = Off
  /\ timeEnd = Off /\ timeAccum = Off /\ warned = Off
RegionOff ==
  /\ harness = Off /\ team = Off /\ next = Off /\ job = Off /\ now = Off /\ offset = Off
  /\ start = Off /\ time = Off /\ kernel_begun = Off /\ kernel_ended = Off /\ longest = Off

HostInit ==
  /\ Init
  /\ \/ bench = "tuned" /\ DispatchOff /\ QueueOff /\ RegionOff
     \/ bench = "dispatch" /\ Dispatch!Init /\ QueueOff /\ RegionOff
     \/ bench = "queue" /\ Queue!Init /\ DispatchOff /\ RegionOff
     \/ bench = "sections" /\ Region!Init /\ DispatchOff /\ QueueOff

TunedStays == UNCHANGED <<bench, dispatchVars, queueVars, sectionsVars>>
QueueStays == UNCHANGED <<bench, vars, dispatchVars, sectionsVars>>
RegionStays == UNCHANGED <<bench, vars, dispatchVars, queueVars>>

RunTuned == bench = "tuned" /\ Next /\ TunedStays
RunDispatch == bench = "dispatch" /\ Dispatch!Next /\ UNCHANGED <<bench, vars, queueVars, sectionsVars>>
RunQueue == bench = "queue" /\ Queue!Next /\ QueueStays
RunRegion == bench = "sections" /\ Region!Next /\ RegionStays

HostNext == RunTuned \/ RunDispatch \/ RunQueue \/ RunRegion

(* Each process, the host, the device and each thread keep running; the    *)
(* restarts of a tuner are bounded and owe nothing.                        *)
HostSpec ==
  /\ HostInit /\ [][HostNext]_hostVars
  /\ \A p \in Process : WF_hostVars(bench = "tuned" /\ Run(p) /\ TunedStays)
  /\ WF_hostVars(RunDispatch)
  /\ WF_hostVars(bench = "queue" /\ Queue!HostStep /\ QueueStays)
  /\ WF_hostVars(bench = "queue" /\ Queue!DeviceStep /\ QueueStays)
  /\ WF_hostVars(bench = "sections" /\ Region!Fork /\ RegionStays)
  /\ WF_hostVars(bench = "sections" /\ Region!Report /\ RegionStays)
  /\ WF_hostVars(bench = "sections" /\ Region!Tick /\ RegionStays)
  /\ WF_hostVars(bench = "sections" /\ (\E t \in Thread : Region!Step(t)) /\ RegionStays)

-----------------------------------------------------------------------------

HostTypeOK ==
  /\ TypeOK
  /\ bench = "dispatch" => Dispatch!TypeOK
  /\ bench = "queue" => Queue!TypeOK
  /\ bench = "sections" => Region!TypeOK

(* What a CUDA program reports is what its kernels have done, except for   *)
(* the case that takes another kernel and parameters without a kernel; and *)
(* every configuration the searches may write has a kernel.                *)
WorkReported ==
  bench = "dispatch" =>
    /\ Dispatch!WorkMatchesButNine /\ Dispatch!ComplainsOfNothing
    /\ Dispatch!SearchedIsValid

(* The time an OpenCL host reports has the kernels in it from the first to *)
(* the last, one behind the other, and not the copy before them.           *)
QueueTimed ==
  bench = "queue" =>
    Queue!BackToBack /\ Queue!CopyNotTimed /\ Queue!ElapsedIsOver /\ Queue!CacheTimerCovers

(* The sum of the profiled times has each kernel once.                     *)
QueueAccounted == bench = "queue" => Queue!Accounted

(* The time of a harness is computed of kernels that have run, and covers  *)
(* each of them, all of them on the i7, whoever ran which; unless somebody *)
(* has set the clock meanwhile.                                            *)
RegionTimed ==
  bench = "sections" =>
    /\ Region!AllMeasured
    /\ offset = 0 => Region!CommonCovers /\ Region!KernelCovered

(* Every program comes to its end: with a configuration or without one,    *)
(* with its report, out of clFinish, and out of the parallel region.       *)
HostEnds ==
  /\ \A p \in Process : <>[](bench = "tuned" => Ended(p))
  /\ <>(bench = "dispatch" => report # <<>>)
  /\ <>(bench = "queue" => Queue!Over)
  /\ <>(bench = "sections" => longest # Region!None \/ Region!TimeIsUp)

=============================================================================
