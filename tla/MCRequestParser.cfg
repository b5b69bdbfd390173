CONSTANTS
  Names <- MCNames
  Lower <- MCLower
  MaxBuf = 3
  MaxLines = 3
SPECIFICATION Spec
INVARIANTS
  TypeOK
  InnerParsersNotDone
  DoneAtBlankLine
  RequestHeadersComplete
  ExecWithinOutcomes
CHECK_DEADLOCK FALSE
