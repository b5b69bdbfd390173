SPECIFICATION Spec
CONSTANTS
  Texts <- MCTexts
  Documents <- MCDocuments
  Ephemeral <- MCEphemeral
  Parses <- MCParses
  Extension <- MCExtension
INVARIANT ServesOnlyChecked
CHECK_DEADLOCK FALSE
