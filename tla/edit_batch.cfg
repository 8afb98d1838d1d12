SPECIFICATION Spec
CONSTANTS
  Sizes = {0, 1}
  Texts <- MCTexts
  Operations <- MCOperations
  BatchSize <- MCBatchSize
  MaxOperations = 3
  MaxBytes = 4
CHECK_DEADLOCK FALSE
INVARIANTS CursorNeverPassesAnEdit AnswerIsTheReferences SplicedAsRequested
