CONSTANTS
  Batches <- MCBatches
  Layouts <- MCLayouts
  AnswerLens = {4091, 4094, 9000}
SPECIFICATION Spec
INVARIANTS WritesStayInside EachItsOwnAnswer TransactionsRunOnce
PROPERTY EveryTextEnds
CHECK_DEADLOCK FALSE
