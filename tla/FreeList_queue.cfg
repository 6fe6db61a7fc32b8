SPECIFICATION Spec
CONSTANTS
  NumBlocks = 5
  MaxBatch = 2
INVARIANTS
  BothWays
PROPERTIES
  ImplementsQueue
