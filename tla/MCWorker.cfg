CONSTANTS
  c1 = c1
  c2 = c2
  Conns <- MCConns
  MaxReplies = 2
  FdLimit = 2
SPECIFICATION FairSpec
INVARIANTS
  TypeOK
  CallbackTargetsAlive
  RegistryFollowsHandles
  SentThenClosing
  NoUnansweredClose
  HandledReplyIsLast
  ClosedOnce
  NoReplyLost
PROPERTIES
  ImplementsExchange
  RepliedIsClosed
  HungUpIsClosed
CHECK_DEADLOCK FALSE
