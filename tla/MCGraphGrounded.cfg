CONSTANTS
  a = a
  b = b
  c = c
  Arg <- MCArg
  Order <- MCOrder
  Tasks <- MCTasks
SPECIFICATION SolverSpec
INVARIANTS
  GroundedExact
  WrittenCorrect
  AnswerTruthful
PROPERTIES
  TaskEnds
CHECK_DEADLOCK FALSE
