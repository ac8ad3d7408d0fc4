CONSTANTS
  a = a
  b = b
  Arg <- MCArg
  Order <- MCOrder
  NbVars <- MCNbVars
  Changing <- MCChanging
  MaxChanges = 2
  Semantics <- MCStable
  Tasks <- MCEnumerate
  Kinds = {"task"}
  NVars = 3
  Capacity = 5
  MaxComments = 2
  ValueLines = {1, 2}
  Statuses = {"SATISFIABLE", "UNSATISFIABLE", "UNKNOWN"}
SPECIFICATION MCSpec
INVARIANTS
  AnswersCorrect
