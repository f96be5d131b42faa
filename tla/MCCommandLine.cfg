SPECIFICATION LineSpec
CONSTANTS
  FREE = FREE
  Lines <- MCLines
  Commands <- MCCommands
  Matches <- MCMatches
  QUIT <- MCQuit
  BufSize = 3
  MaxTail = 5
INVARIANTS LineMeant AbortedByUser
CHECK_DEADLOCK FALSE
