SPECIFICATION Spec
CONSTANTS
  coll = coll
  inner = inner
  outer = outer
  t1 = t1
  t2 = t2
  c1 = c1
  c2 = c2
  c3 = c3
  NONE = NONE
  Files <- MCFiles
  Colls <- MCColls
  Within <- MCWithin
  Tokens <- MCTokens
  Cells <- MCCells
  Faults = TRUE
  Others = TRUE
SYMMETRY MCSymmetry
INVARIANTS TypeOK NeverForgets StaleReasons
