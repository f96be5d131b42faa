SPECIFICATION Spec
CONSTANTS
  x = x
  y = y
  f = f
  g = g
  ABSENT = ABSENT
  COLL = COLL
  Names <- MCNames
  Files <- MCFiles
  MaxDepth = 3
  MaxTyped = 2
  MaxSources = 2
  MaxCommands = 1
  MaxMade = 1
  RequestFaults = TRUE
SYMMETRY MCSymmetry
INVARIANTS BatchSound NothingLost DestinationSurvives
