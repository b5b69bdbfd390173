SPECIFICATION Spec
CONSTANT
  Chars <- MCChars
  Code <- MCCode
  Forms <- MCForms
INVARIANT OriginFormSupported
CHECK_DEADLOCK FALSE
