CONSTANTS
  Key <- MCKey
  Value <- MCValue
  TemplateOf <- MCTemplateOf
  MaxOptions = 4
SPECIFICATION Spec
INVARIANT TypeOK
 
CHECK_DEADLOCK FALSE
