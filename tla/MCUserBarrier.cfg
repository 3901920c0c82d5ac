CONSTANTS
  MAX = 5
  WIDTH = 3
  Rounds = 4
  TOP <- MCTop
  MASTER <- MCMaster
  STRIDE <- MCStride
  SETSIZE <- MCSetSize
SPECIFICATION FairSpec
INVARIANTS
  Separation
