CONSTANTS
  Invocations <- MCInvocations
SPECIFICATION MCSpec
INVARIANTS
  FormulaReproduces
  Minimal
  CountersExact
  SearchTruthful
  ContainersExact
PROPERTIES
  OnlyShrinks
  Ends
