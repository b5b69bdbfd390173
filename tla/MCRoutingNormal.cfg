SPECIFICATION RouteSpec
CONSTANTS
  Chars <- MCChars
  Code <- MCCode
  Forms <- MCForms
  Entries <- MCEntries
  Routes <- MCRoutes
INVARIANT MatchedPathIsNormal
CHECK_DEADLOCK FALSE
