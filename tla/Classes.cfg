SPECIFICATION Spec
CONSTANTS
  Names <- SomeNames
  Mentions <- MentionedIn
  News <- NewsIn
  Qualified <- QualifiedName
  Has <- HasIn
  ClassLowered <- InClass
  NewLowered <- Outside
  MirLowered <- Mir
  Generates <- GeneratesIn
  Accessed <- AccessedIn
  Called <- CalledIn
  Unseen <- UnseenIn
  Offsets <- OffsetsIn
  Created <- CreatedIn
  FieldsUsed <- FieldsUsedIn
  MethodsUsed <- MethodsUsedIn
  Foreign <- ForeignIn
  Vocabulary <- Words
  Beginnings <- Texts
  MaxLength = 7
  MaxDepth = 4
INVARIANTS PanicsExplained DanglingExplained FunctionsUnique ObjectsInBounds
CHECK_DEADLOCK FALSE
