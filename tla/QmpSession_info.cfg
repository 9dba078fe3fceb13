CONSTANTS
  c1 = c1
  c2 = c2
  n1 = n1
  n2 = n2
  n3 = n3
  n4 = n4
  None = None
  NoConn = NoConn
  Client <- MCClient
  Conn <- MCConn
  Op <- InfoOps
  Backlog = 2
  MaxOps = 1
  MaxEvents = 1
  MaxBoots = 1
  MaxUnread = 2
SPECIFICATION Spec
SYMMETRY SymmetricConns
INVARIANT TypeOK
INVARIANT NoSelfWait
INVARIANT AnswersMatch
INVARIANT PausedReportTrue
INVARIANT CleanReportExact
CHECK_DEADLOCK FALSE
