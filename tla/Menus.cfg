CONSTANTS
  t = t
  d = d
  a = a
  b = b
  User <- MCUser
  Ui <- MCUi
  FormOrder <- MCFormOrder
  OtherKey = {"size"}
  Always = {"memory"}
  Value = {a, b}
  Default <- MCDefault
  Asked = {a}
  Templates <- MCTemplates
  Blank = Blank
  Unsure = Unsure
  Absent = Absent
  None = None
  MaxOps = 3
SPECIFICATION Spec
INVARIANT TypeOK
INVARIANT ShowsWhatCounts
 
 
 
CHECK_DEADLOCK FALSE
