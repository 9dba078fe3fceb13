CONSTANTS
  c1 = c1
  c2 = c2
  n1 = n1
  n2 = n2
  n3 = n3
  n4 = n4
  None = None
  NoConn = NoConn
  Client <- MCClient
  Conn <- MCConn
  Op <- EffectOps
  Backlog = 2
  MaxOps = 2
  MaxEvents = 1
  MaxBoots = 0
  MaxUnread = 2
SPECIFICATION Spec
SYMMETRY SymmetricAll
INVARIANT MediumChangedOnce
PROPERTY ExecutedInOrder
CHECK_DEADLOCK FALSE
