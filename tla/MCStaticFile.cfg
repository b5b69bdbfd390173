SPECIFICATION Spec
CONSTANTS
  t1 = t1
  t2 = t2
  f1 = f1
  f2 = f2
  Missing = Missing
  Directory = Directory
  Threads <- MCThreads
  Paths <- MCPaths
  IndexOf <- MCIndexOf
  Types <- MCTypes
  TypeOf <- MCTypeOf
  Files <- MCFiles
  Unreadable <- MCUnreadable
  Bytes <- MCBytes
  Texts <- MCTexts
  Zero = "0"
  Requests <- MCRequests
  MaxRead = 1
  FdLimit = 2
SYMMETRY MCSymmetry
INVARIANTS
  TypeOK
  RepliesReadBack
PROPERTIES
  BodyIsOneVersion
  NotFoundHasCause
  ErrorsAreClean
  ImplementsHandling
