CONSTANTS
  a = a
  b = b
  c = c
  d = d
  Arg <- FourArg
  Order <- FourOrder
  NbVars <- FourNbVars
  Changing <- FourChanging
  MaxChanges = 1
  Semantics <- MCSemantics
  Tasks <- FourTasks
SPECIFICATION FourSpec
INVARIANTS
  AnswersCorrect
