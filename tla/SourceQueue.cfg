SPECIFICATION Spec
CONSTANTS
  input = input
  rt = rt
  lib = lib
  Files <- AllFiles
  Input = input
  Runtime = rt
  Texts <- ShortTexts
INVARIANTS TypeOK AllTokenized FilesContiguous ModulesExplained
PROPERTIES Terminates
CHECK_DEADLOCK FALSE
