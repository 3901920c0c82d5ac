CONSTANTS
  MAX <- MCMAX
  Rounds <- MCRounds
SPECIFICATION FairSpec
INVARIANTS
  TypeOK
PROPERTIES
  NoLostRelease
  CallsReturn
  ImplementsBarrier
