SPECIFICATION Spec
CONSTANTS
  Names <- SomeNames
  Mentions <- MentionedIn
  News <- NewsIn
  Qualified <- QualifiedName
  Has <- HasIn
  ClassLowered <- InClass
  NewLowered <- Outside
  MirLowered <- Mir
  Generates <- GeneratesIn
  Accessed <- AccessedIn
  Called <- CalledIn
  Unseen <- UnseenIn
  Offsets <- OffsetsIn
  Created <- CreatedIn
  FieldsUsed <- FieldsUsedIn
  MethodsUsed <- MethodsUsedIn
  Foreign <- ForeignIn
  Vocabulary <- Words
  Beginnings <- Everything
  MaxLength = 4
  MaxDepth = 3
INVARIANTS TypeOK RedeclarationsExplained TopLevelExplained DanglingExplained
PROPERTIES Compiled
CHECK_DEADLOCK FALSE
