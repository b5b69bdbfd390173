SPECIFICATION RouteSpec
CONSTANTS
  Chars <- MCChars
  Code <- MCCode
  Forms <- MCForms
  Entries <- MCEntries
  Routes <- MCRoutes
INVARIANTS
  TypeOK
  PartsRecovered
  QueryRecovered
  BadAuthorityRejected
  RoutedAsConfigured
PROPERTY EarlierLocationsWin
CHECK_DEADLOCK FALSE
