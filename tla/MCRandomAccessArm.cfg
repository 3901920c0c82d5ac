SPECIFICATION Spec
CONSTANTS
  Functions <- SmallArm
  UpdatePasses <- OnePass
  ReadPasses <- RandomIterations
INVARIANT InsideArray
