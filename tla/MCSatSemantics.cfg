CONSTANTS
  a = a
  b = b
  c = c
  Arg <- MCArg
  Order <- MCOrder
  NbVars <- MCNbVars
  Changing <- MCChanging
  MaxChanges = 2
  Semantics <- MCSemantics
  Tasks <- MCTasks
SPECIFICATION MCSpec
INVARIANTS
  AnswersCorrect
  ReductionSound
