CONSTANTS
  Key <- MCKey
  Value <- MCValue
  TemplateOf <- MCTemplateOf
  MaxOptions = 4
SPECIFICATION Spec
INVARIANT CreateCreates
CHECK_DEADLOCK FALSE
