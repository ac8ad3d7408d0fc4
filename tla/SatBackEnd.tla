----------------------------- MODULE SatBackEnd -----------------------------
(***************************************************************************)
(* BuiltInSatSolverNGGlucose, and the init of the semantics solvers that   *)
(* reduce and encode their problem into it.  One object serves all the     *)
(* steps of a dynamic task: clauses wait in newFormula until buildSolver   *)
(* (or the MSS enumerator) collects them, and blocking clauses are only    *)
(* switched off, by their selectors, never removed.                        *)
(***************************************************************************)
EXTENDS Encoding, Dung, Functions

CONSTANTS
  Semantics,    \* bound: the semantics and the tasks of the command line that
  Tasks         \* the solver answers

ASSUME ProblemAssumption ==
  /\ Semantics \subseteq {"GR", "CO", "ST", "PR", "ID", "SST", "STG"}
  /\ Tasks \subseteq {"SE", "EE", "DC", "DS"}

VARIABLES
  semantics, task,      \* the problem of the command line
  query,                \* acceptanceQueryArgument
  varOf, nArgs,         \* the map the encoding uses and its nVars
  formula,              \* clauses that were collected
  newFormula,           \* clauses that wait
  hasSolver, engine,    \* is there a SAT engine, and the clauses it was given
  nVars,                \* variables of formula and newFormula
  models,               \* models of computeModel and computeAllModels, as the
                        \* sets of the variables they make true
  blockingSelectors,    \* one for each model of the enumeration
  written, accepted     \* what the formatter got for this step

setup   == <<semantics, task, query, varOf, nArgs>>
backEnd == <<formula, newFormula, hasSolver, engine, nVars, models, blockingSelectors>>

Helper == HelperOf(semantics, varOf, nArgs)

----------------------------------------------------------------------------
(* init: reduce (not for the grounded semantics), then encode *)

MapsOf(s) ==
  IF s = "GR" THEN {[varOf |-> InitialVar, nArgs |-> NbArgs]} ELSE ReducedMaps(s)

BackEndInit ==
  /\ semantics \in Semantics
  /\ task \in Tasks
  /\ query \in Arg
  /\ task \in {"SE", "EE"} => query = Order[1]
  /\ ParsedProblem
  /\ reserveNotAttackedRepl = (semantics # "ST")
  /\ \E map \in MapsOf(semantics) : varOf = map.varOf /\ nArgs = map.nArgs
  /\ nbVars = Helper.base
  /\ BeforeFirstCall
  /\ formula = {}
  /\ newFormula = ClausesOf(semantics, Helper)
  /\ hasSolver = FALSE
  /\ engine = {}
  /\ nVars = NbVarsOf(Helper)
  /\ models = << >>
  /\ blockingSelectors = << >>
  /\ written = << >>
  /\ accepted = FALSE

----------------------------------------------------------------------------
(* The operations of the back end *)

Collected == formula \cup newFormula

\* What the engine knows once buildSolver has run.
Given == (IF hasSolver THEN engine ELSE formula) \cup newFormula

BuildSolver ==
  /\ engine' = Given
  /\ hasSolver' = TRUE
  /\ formula' = Collected

\* The argument variables that propagation makes true: those of the clauses
\* alone, or more of the entailed ones when learnt clauses help.
Propagations(A) ==
  {Propagate(Given, A) \cap (1..nArgs),
   {v \in 1..nArgs : ~Satisfiable(Given, A \cup {-v})}}

PropagatedAtDecisionLvlZero ==
  /\ BuildSolver
  /\ newFormula' = {}
  /\ UNCHANGED <<nVars, models, blockingSelectors>>

ModelsOf(A) == Models(Given, A, nArgs)

ComputeModel(A) ==
  /\ BuildSolver
  /\ newFormula' = {}
  /\ IF ModelsOf(A) = {} THEN models' = << >>
     ELSE \E T \in ModelsOf(A) : models' = <<T>>
  /\ blockingSelectors' = << >>
  /\ UNCHANGED nVars

\* blockingClauseFunction: the accepted arguments only for the stable, the
\* semi-stable and the stage semantics; for the others the back end's own, every
\* one of the first realNVars variables (all but these are reserved as auxVar).
BlockingClause(T) ==
  IF semantics \in {"ST", "SST", "STG"} THEN Neg(T)
  ELSE Neg(T) \cup ((1..nArgs) \ T)

\* Mutant: the clause has no selector.
Unselected(clause, selector) == clause

\* addSelectedClause
Selected(clause, selector) == clause \cup {-selector}

\* Start of computeAllModels.
ClearedEnumeration ==
  /\ BuildSolver
  /\ newFormula' = {}
  /\ models' = << >>
  /\ blockingSelectors' = << >>
  /\ UNCHANGED nVars

\* A round of the loop: buildSolver, and the model T is kept and blocked.
BlockedModel(T, ms, sels) ==
  /\ BuildSolver
  /\ newFormula' = {Selected(BlockingClause(T), nVars + 1)}
  /\ models' = Append(ms, T)
  /\ blockingSelectors' = Append(sels, nVars + 1)
  /\ nVars' = nVars + 1

\* The unit clauses at the end of computeAllModels.
Retired == {{-blockingSelectors[k]} : k \in DOMAIN models}

----------------------------------------------------------------------------
(* What the solvers see of it *)

Assumptions == Range(assumps)

Decode(T) == {x \in Arg : varOf[x] \in T}

Write(exts)     == written' = exts /\ accepted' = FALSE
Accept(verdict) == written' = << >> /\ accepted' = verdict

----------------------------------------------------------------------------
(* What the solvers of every semantics must get right *)

\* The extensions of the framework of step n, by the definitions.
ExtensionsAt(n) ==
  LET R == Framework(n)
  IN  CASE semantics = "GR"  -> {Grounded(Arg, R)}
        [] semantics = "CO"  -> Complete(Arg, R)
        [] semantics = "ST"  -> Stable(Arg, R)
        [] semantics = "PR"  -> Preferred(Arg, R)
        [] semantics = "ID"  -> {Ideal(Arg, R)}
        [] semantics = "SST" -> SemiStable(Arg, R)
        [] semantics = "STG" -> Stage(Arg, R)

\* What is written for each step is right for the framework of that step,
\* whatever the steps before left in the back end: one extension, or none if
\* there is none; all of them, each once; credulous or sceptical acceptance
\* (the answers of the semantics solvers under iterate).
AnswersCorrect ==
  pc = "returned" =>
    LET E == ExtensionsAt(dynStep + 1)
    IN  CASE task = "SE" -> IF E = {} THEN written = << >>
                            ELSE Len(written) = 1 /\ written[1] \in E
          [] task = "EE" -> Range(written) = E /\ Len(written) = Cardinality(E)
          [] task = "DC" -> accepted <=> \E S \in E : query \in S
          [] task = "DS" -> accepted <=> \A S \in E : query \in S

\* The models under the assumptions of the step are the sets that the encoding
\* stands for in the framework of the step.
FormulaExact ==
  {Decode(T) : T \in ModelsOf(Assumptions)} =
    LET R == Framework(dynStep + 1)
    IN  CASE semantics = "ST"  -> Stable(Arg, R)
          [] semantics = "STG" -> {S \in SUBSET Arg : ConflictFree(R, S)}
          [] OTHER             -> Complete(Arg, R)

\* Arguments that share a variable are together in or out of every extension
\* of every step, although the classes are found before the first one
\* (SatProblemReducer::search).
ReductionSound ==
  \A x, y \in Arg : varOf[x] = varOf[y] =>
    \A n \in 0..Len(dynAttacks) : \A S \in ExtensionsAt(n) : x \in S <=> y \in S
=============================================================================
