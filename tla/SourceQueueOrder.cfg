SPECIFICATION Spec
CONSTANTS
  input = input
  rt = rt
  lib = lib
  Files <- AllFiles
  Input = input
  Runtime = rt
  Texts <- ShortTexts
INVARIANT RuntimeFirst
CHECK_DEADLOCK FALSE
