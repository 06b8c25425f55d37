SPECIFICATION FairSpec
CHECK_DEADLOCK FALSE
CONSTANTS
  QuerySize = 2
  HeaderSize = 2
  BufSize = 2
  Word = 16
  Answers <- MCAnswers
  MaxRetries = 2
INVARIANTS
  TypeOK
  BodyWhole
  SocketsClosed
  MemoryAccounted
  DoneIsReal
PROPERTY OperationEnds
