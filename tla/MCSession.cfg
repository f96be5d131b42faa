SPECIFICATION Spec
CONSTANTS
  p1 = p1
  p2 = p2
  b1 = b1
  b2 = b2
  b3 = b3
  b4 = b4
  NULL = NULL
  FREE = FREE
  Paths <- MCPaths
  Blocks <- MCBlocks
  Tolerant = FALSE
  Signals = TRUE
  MaxOpens = 2
SYMMETRY BlockSymmetry
INVARIANTS TypeOK SessionSound 
PROPERTIES ImplementsNavigation
