CONSTANTS
  c1 = c1
  c2 = c2
  n1 = n1
  n2 = n2
  n3 = n3
  n4 = n4
  None = None
  NoConn = NoConn
  Client <- MCClient
  Conn <- MCConn
  Op <- LiveOps
  Backlog = 2
  MaxOps = 1
  MaxEvents = 0
  MaxBoots = 0
  MaxUnread = 2
SPECIFICATION FairSpec
PROPERTY ConnectionReleased
CHECK_DEADLOCK FALSE
