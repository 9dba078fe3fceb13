CONSTANTS
  c1 = c1
  c2 = c2
  Client = {c1, c2}
  UseSu = {c2}
  Secret = {"right", "wrong"}
  Right = "right"
  Pass = {"p"}
  MaxStarts = 2
  MaxTap = 1
  MaxAnswers = 2
  Blank = ""
  None = "none"
SPECIFICATION FairSpec
INVARIANT TypeOK
INVARIANT RootFailureExplained
INVARIANT VncPasswordExplained
PROPERTY StartReturns
CHECK_DEADLOCK FALSE
