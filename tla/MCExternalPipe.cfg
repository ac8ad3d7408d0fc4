CONSTANTS
  a = a
  b = b
  Arg <- MCArg
  Order <- MCOrder
  NbVars <- MCNbVars
  Changing <- MCChanging
  MaxChanges = 1
  Semantics <- MCSemantics
  Tasks <- MCTasks
  Kinds = {"call"}
  NVars = 3
  Capacity = 3
  MaxComments = 2
  ValueLines = {1}
  Statuses = {"SATISFIABLE", "UNSATISFIABLE"}
SPECIFICATION MCSpec
PROPERTIES
  CallReturns
CHECK_DEADLOCK FALSE
