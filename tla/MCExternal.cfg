CONSTANTS
  a = a
  b = b
  Arg <- MCArg
  Order <- MCOrder
  NbVars <- MCNbVars
  Changing <- MCChanging
  MaxChanges = 2
  Semantics <- MCSemantics
  Tasks <- MCTasks
  Kinds = {"call", "task"}
  NVars = 3
  Capacity = 5
  MaxComments = 2
  ValueLines = {1, 2}
  Statuses = {"SATISFIABLE", "UNSATISFIABLE", "UNKNOWN"}
SPECIFICATION MCSpec
INVARIANTS
  CallTruthful
  EarlyAnswersCorrect
PROPERTIES
  CallReturns
