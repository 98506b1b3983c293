SPECIFICATION Spec
CONSTANTS
  input = input
  rt = rt
  lib = lib
  Files <- AllFiles
  Input = input
  Runtime = rt
  Texts <- ShortTexts
INVARIANT NoPanic
CHECK_DEADLOCK FALSE
