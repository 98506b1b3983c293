SPECIFICATION SemSpec
CONSTANTS
  a = a
  b = b
  f = f
  Names <- SomeNames
  Mentions <- MentionedIn
  News <- NewsIn
  Vocabulary <- Words
  Beginnings <- Everything
  MaxLength = 4
  MaxDepth = 3
SYMMETRY Interchangeable
INVARIANTS SemTypeOK IdentifiersResolved NothingShadowed CollisionsExplained
CHECK_DEADLOCK FALSE
