SPECIFICATION Spec
CONSTANTS
  Args <- MCArgs
  MaxArgs = 5
  Asc <- MCAsc
  Des <- MCDes
INVARIANTS  BlanksSurvive AcceptsGrammar
CHECK_DEADLOCK FALSE
