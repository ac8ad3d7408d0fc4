CONSTANTS
  a = a
  b = b
  Arg <- MCArg
  Lines <- MCLines
  Readable <- MCReadable
  MaxAttacks = 2
  MaxChanges = 3
SPECIFICATION MCSpec
ACTION_CONSTRAINT Small
INVARIANTS
  StoreExact
  NumberingExact
  ProblemAsAsked
CHECK_DEADLOCK FALSE
