SPECIFICATION Spec
CONSTANTS
  Dialects <- Inputs
INVARIANTS TypeOK RecognizesLanguage PrecedenceRespected ErrorsBounded EndsExplained
  SpansExplained
PROPERTIES Parsed
CHECK_DEADLOCK FALSE
