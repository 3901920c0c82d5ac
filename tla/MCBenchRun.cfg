CONSTANTS
  nthreads = 3
  Team = 3
  NRUNS = 2
SPECIFICATION FairSpec
INVARIANTS
  TypeOK
  MeasuresItsRun
PROPERTIES
  RunsEnd
