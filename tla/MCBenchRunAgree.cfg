CONSTANTS
  nthreads = 2
  Team = 2
  NRUNS = 1
SPECIFICATION Spec
INVARIANTS
  ResultsAgree
