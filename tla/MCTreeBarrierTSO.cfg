CONSTANTS
  MAX = 5
  GROUP = 2
  Rounds = 3
  TOP <- MCTop
  MASTER <- MCMaster
  STRIDE <- MCStride
  SETSIZE <- MCSetSize
SPECIFICATION TSOFairSpec
INVARIANTS
  TSOTypeOK
  NoStaleStore
PROPERTIES
  ImplementsInOrder
