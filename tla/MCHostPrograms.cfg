SPECIFICATION HostSpec
CONSTANTS
  Tuner = {t1, t2}
  Reader = {r1}
  Benchmark = "bandwidth"
  ThreadCounts <- AtTheLimit
  BlockSizes <- OneBlock
  MaxBlocks = 65535
  FirstThird = 4
  LastThird = 8
  Speeds = {1, 2}
  DiskFull = TRUE
  MaxStarts = 1
  DispatchPrograms = {"intensity", "ilp", "compute", "bandwidth"}
  StreamCounts <- AllStreams
  FlopCounts <- AllFlops
  NUM_ITER = 3
  NITER = 4
  QueuePrograms = {"flops", "random", "cache", "l1", "maliflops"}
  Harnesses = {"i7", "ivy", "omap", "exynos", "cuda"}
  Thread = {1, 2}
  MaxTime = 4
  Second = 3
  Settings = {1}
INVARIANTS
  HostTypeOK
  ConfigFound
  WorkReported
  QueueTimed
  QueueAccounted
  RegionTimed
PROPERTIES
  HostEnds
