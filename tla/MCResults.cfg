SPECIFICATION Spec
CONSTANTS
  Children <- MCChildren
  PerPage = 3
  Ahead = 1
  MaxElements = 9
  MaxDepth = 5
INVARIANTS  ShownWhenAnswered Paging
CHECK_DEADLOCK FALSE
