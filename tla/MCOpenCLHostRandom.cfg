SPECIFICATION Spec
CONSTANTS
  NITER = 4
  Programs = {"random"}
INVARIANT TimerCovers
