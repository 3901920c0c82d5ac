----------------------------- MODULE GpuKernels ------------------------------
(***************************************************************************)
(* The kernels of the GPU benchmarks that move data, on whose access       *)
(* pattern a reported rate rests.  Each is a program of its own and has    *)
(* the device for itself: bench says which one this execution runs; the    *)
(* variables of the others stay as they are.                               *)
(*                                                                         *)
(*   shared   the shared-memory and cache chases of CUDA (SharedChase)     *)
(*   device   the random chase of OpenCL and CUDA (DeviceChase)            *)
(*   copy     the bandwidth kernels of CUDA (StreamCopy)                   *)
(***************************************************************************)
EXTENDS SharedChase

CONSTANTS
  Hosts, ArraySizes, Threads, groupSize, nIter,   \* of DeviceChase
  Configurations                        \* of StreamCopy

VARIABLES
  bench,
  host, N, shifter, items, device_pc, i, index, input, temp, device_loads, output, diffCount,
  config, k, copied

deviceVars ==
  <<host, N, shifter, items, device_pc, i, index, input, temp, device_loads, output, diffCount>>
copyVars == <<config, k, copied>>
gpuVars == <<bench, vars, deviceVars, copyVars>>

Device ==
  INSTANCE DeviceChase WITH
    Sizes <- ArraySizes, bSize <- groupSize, nThreads <- items, pc <- device_pc, loads <- device_loads
Stream == INSTANCE StreamCopy WITH out <- copied

ASSUME DeviceAssumption == Device!Parameters
ASSUME StreamAssumption == Stream!Parameters

(* A benchmark that is not run. *)
Off == "off"
SharedOff ==
  /\ Init
  /\ kind = CHOOSE x \in Kinds : TRUE
  /\ wordsPerThread = CHOOSE x \in Words : TRUE
DeviceOff ==
  /\ host = Off /\ N = Off /\ shifter = Off /\ items = Off /\ device_pc = Off /\ i = Off /\ index = Off
  /\ input = Off /\ temp = Off /\ device_loads = Off /\ output = Off /\ diffCount = Off
StreamOff == config = Off /\ k = Off /\ copied = Off

GpuInit ==
  \/ bench = "shared" /\ Init /\ DeviceOff /\ StreamOff
  \/ bench = "device" /\ Device!Init /\ SharedOff /\ StreamOff
  \/ bench = "copy" /\ Stream!Init /\ SharedOff /\ DeviceOff

RunShared == bench = "shared" /\ Next /\ UNCHANGED <<bench, deviceVars, copyVars>>
RunDevice == bench = "device" /\ Device!Next /\ UNCHANGED <<bench, vars, copyVars>>
RunCopy == bench = "copy" /\ Stream!Next /\ UNCHANGED <<bench, vars, deviceVars>>

GpuNext == RunShared \/ RunDevice \/ RunCopy

(* The device runs what it is given, and the host waits for it.            *)
GpuSpec == GpuInit /\ [][GpuNext]_gpuVars /\ WF_gpuVars(GpuNext)

-----------------------------------------------------------------------------

GpuTypeOK ==
  /\ TypeOK
  /\ bench = "device" => Device!TypeOK
  /\ bench = "copy" => Stream!TypeOK

(* Whatever the pace of the threads and work items, the host, which        *)
(* follows the same chains, finds no error; and the shared-memory kernels  *)
(* have made as many loads as it has followed links.                       *)
ChecksPass ==
  Validated /\ SharedLoadsChecked /\ (bench = "device" => Device!Verified)

(* Each work item goes round a cycle through the whole array, if its size  *)
(* is a power of two, and neither a link nor, except for CUDA's last       *)
(* block, the grid leads out of what was allocated.                        *)
DeviceChain ==
  bench = "device" => Device!InBounds /\ Device!OneCycle /\ Device!Confined

(* The bandwidth kernels copy every element of the data the rate is        *)
(* computed from, none of them twice, and nothing beyond.                  *)
DataCopied == bench = "copy" => Stream!CopiedOnce /\ Stream!AllCopied

(* Every kernel is over some time and its results are checked, barriers    *)
(* and the threads of the last block included.                             *)
GpuEnds ==
  /\ <>(bench = "shared" => errors # -1)
  /\ <>(bench = "device" => device_pc \in {"done", "exit"})
  /\ <>(bench = "copy" => Stream!Done)

=============================================================================
