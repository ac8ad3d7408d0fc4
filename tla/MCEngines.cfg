CONSTANTS
  MssProblems <- MCMssProblems
  SatProblems <- MCSatProblems
  ReducerProblems <- MCReducerProblems
  SimpProblems <- MCSimpProblems
  GlucoseSimpProblems <- MCGlucoseSimpProblems
SPECIFICATION MCSpec
INVARIANTS
  PropagationComplete
  SearchConsistent
  WatchesConsistent
  ClausesExact
  Irreducible
  AnswersRight
  ReductionPromised
PROPERTIES
  KeepsPromise
