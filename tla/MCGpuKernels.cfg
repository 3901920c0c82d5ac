SPECIFICATION GpuSpec
CONSTANTS
  Kinds = {"sm", "cache"}
  Words = {1, 2, 4}
  nThreads = 3
  bSize = 2
  Hosts = {"opencl", "cuda"}
  ArraySizes = {24, 32}
  Threads = {1, 2}
  groupSize = 2
  nIter = 32
  Configurations <- WholeBlocks
INVARIANTS
  GpuTypeOK
  NoStaleRead
  ChecksPass
  DeviceChain
  DataCopied
PROPERTY
  GpuEnds
