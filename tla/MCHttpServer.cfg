SPECIFICATION FairSpec
CONSTANTS
  c1 = c1
  c2 = c2
  c3 = c3
  Conn = {c1, c2, c3}
  NoConn = noconn
  Streams <- MCStreams
  Handler <- MCHandler
  Path <- MCPath
  Id = {1, 2}
  MAX_THREAD_SIZE = 2
  MAX_HEADER = 4
  BUFFER = 4
  MAX_LENGTH = 9
  UINT = 4
CHECK_DEADLOCK FALSE
INVARIANTS
  TypeOK
  OneHolder
  NoLostWakeup
  BodyExact
  RepliesFit
PROPERTIES
  ImplementsResponder
  TakenIsAnswered
  NetworkReturns
