CONSTANTS
  MAX = 6
  GROUP = 2
  Rounds = 4
  TOP <- MCTop
  MASTER <- MCMaster
  STRIDE <- MCStride
  SETSIZE <- MCSetSize
SPECIFICATION FairSpec
INVARIANTS
  TypeOK
  Separation
  ArrivalKept
PROPERTIES
  NoLostRelease
  CallsReturn
  ImplementsBarrier
