SPECIFICATION FairSpec
CONSTANTS
  Texts <- MCTexts
  Documents <- MCDocuments
  Ephemeral <- MCEphemeral
  Parses <- MCParses
  Extension <- MCExtension
INVARIANTS
  TypeOK
  RoutesByWholeRouter
  MediaTypesAreWhole
  
PROPERTIES
  AllOrNothing
  ComesUp
CHECK_DEADLOCK FALSE
