SPECIFICATION Spec
CONSTANT
  Chars <- MCChars
  Code <- MCCode
  Forms <- MCForms
INVARIANT PortIsPositiveUint16
CHECK_DEADLOCK FALSE
