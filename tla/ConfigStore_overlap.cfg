CONSTANTS
  p1 = p1
  p2 = p2
  vm1 = vm1
  vm2 = vm2
  Proc <- MCProc
  Name <- MCName
  NoName = NoName
  Key = {k1, k2}
  Value = {a}
  Unset = Unset
  Absent = Absent
  Empty = Empty
  Null = Null
  Covers <- Dotted
  Exclusive = FALSE
  MaxOps = 3
SPECIFICATION Spec
INVARIANT TypeOK
INVARIANT EmptyExplained
 
CHECK_DEADLOCK FALSE
