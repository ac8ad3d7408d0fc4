CONSTANTS
  a = a
  b = b
  c = c
  d = d
  Arg <- TwoArg
  Order <- TwoOrder
  NbVars <- TwoNbVars
  Changing <- TwoChanging
  MaxChanges = 2
  Semantics <- MCSemantics
  Tasks <- TwoTasks
SPECIFICATION SolverSpec
INVARIANTS
  AnswersCorrect
  EncodingExact
  AssumpsExact
PROPERTIES
  RefinesDynFramework
