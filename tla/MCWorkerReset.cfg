CONSTANTS
  c1 = c1
  c2 = c2
  Conns <- MCOneConn
  MaxReplies = 2
  FdLimit = 2
SPECIFICATION Spec
INVARIANT ParserResetAfterRequest
CHECK_DEADLOCK FALSE
