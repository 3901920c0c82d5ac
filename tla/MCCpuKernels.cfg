SPECIFICATION CpuSpec
CONSTANTS
  Functions <- SomeFunctions
  UpdatePasses <- OnePass
  ReadPasses <- RandomIterations
  ChaseSizes = {5, 6, 7, 8}
  Turns = 3
  Width = 16
  Cases <- AllRows
INVARIANTS
  CpuTypeOK
  InsideArrays
  WholeArray
  UpdatesCount
  ChasersApart
  FullPeriods
PROPERTIES
  NoRevisit
  CpuEnds
