---------------------------- MODULE GlucoseBackEnd ----------------------------
(***************************************************************************)
(* BuiltInSatSolverNGGlucose over its engine: the detailed form of the     *)
(* operations that SatBackEnd takes by their results.  Clauses wait in     *)
(* newFormula until buildSolver gives them to the engine; propagation      *)
(* starts from an engine whose trail has been thrown away; an enumeration  *)
(* blocks each model by a clause with a selector, and retires the          *)
(* selectors at its end by unit clauses, which wait for the next call.     *)
(***************************************************************************)
EXTENDS Glucose

Cnf == INSTANCE Cnf

CONSTANT SatProblems
  \* bound: the problems, as records [realNVars, nVars, clauses, positiveOnly,
  \* program, restarts, reductions]: clauses is a sequence of sets of literals; positiveOnly tells that
  \* the blocking clause is that of the stable semantics; program is a sequence
  \* of calls [op, assumps], op being "propagate", "one", "all" or "others" (all,
  \* the last propagated variables being a known model)

VARIABLES
  problem,
  given,                \* history: all the clauses that were added
  step,                 \* the calls of the program that are over
  newFormula,           \* the clauses that wait
  newVars,              \* the variables that wait
  propagated,           \* the positive ones
  models,               \* the sets of the true variables
  blockingSelectors,
  shouldStop,           \* shouldStopModelEnum
  at                    \* "ready", "one", "loop", "all" or "done"

waiting == <<newFormula, newVars>>
found   == <<models, blockingSelectors, shouldStop>>
backEnd == <<problem, given, step, waiting, propagated, found, at>>
satVars == <<engine, backEnd>>

BackEndInit ==
  /\ problem \in SatProblems
  /\ solver = GlucoseSolver
  /\ phase = "idle"
  /\ confl = CRef_Undef
  /\ conflictC = FALSE
  /\ restarts = problem.restarts /\ reductions = problem.reductions
  /\ result = FALSE
  /\ given = Range(problem.clauses)
  /\ step = 0
  /\ newFormula = problem.clauses
  /\ newVars = problem.nVars
  /\ propagated = {}
  /\ models = << >> /\ blockingSelectors = << >>
  /\ shouldStop = FALSE
  /\ at = "ready"

Returned(place) == at = place /\ phase = "idle"

Asked(op) == Returned("ready") /\ step < Len(problem.program) /\ problem.program[step + 1].op = op

\* A call that is not over has its assumptions, and those of an enumeration are
\* completed by its selectors.
Assumptions == problem.program[step + 1].assumps \o blockingSelectors

Over == step' = step + 1 /\ at' = "ready" /\ UNCHANGED problem

----------------------------------------------------------------------------
(* buildSolver *)

Built ==
  LET s == FoldLeft(LAMBDA t, k : newVar(t), solver, [k \in 1..newVars |-> k])
  IN  FoldLeft(addClause, s, newFormula)

NothingWaits == newFormula' = << >> /\ newVars' = 0

----------------------------------------------------------------------------
(* propagatedAtDecisionLvlZero *)

Propagating(s, lits) ==
  propagate(EnqueuedAll(newDecisionLevel(useAsCompleteSolver(Reset(s))), lits)).s

PropagatedAtDecisionLvlZero ==
  /\ Asked("propagate")
  /\ \E s \in {Propagating(Built, problem.program[step + 1].assumps)} :
       /\ propagated' = {p \in s.assigns : p > 0}
       /\ solver' = cancelUntil(s, 0)
  /\ NothingWaits
  /\ Over
  /\ UNCHANGED <<given, phase, confl, search, result, found>>

----------------------------------------------------------------------------
(* computeModel *)

ClearModels == models' = << >> /\ blockingSelectors' = << >>

ComputeModel ==
  /\ Asked("one")
  /\ Call(Built, problem.program[step + 1].assumps)
  /\ NothingWaits
  /\ ClearModels
  /\ at' = "one"
  /\ UNCHANGED <<problem, given, step, propagated, shouldStop>>

ModelComputed ==
  /\ Returned("one")
  /\ models' = IF result THEN <<solver.model>> ELSE << >>
  /\ Over
  /\ UNCHANGED <<engine, given, waiting, propagated, blockingSelectors, shouldStop>>

----------------------------------------------------------------------------
(* computeAllModels *)

\* blockingClauseFunction, over the variables that are not auxiliary
BlockingClause(T) ==
  LET real == 1..problem.realNVars
  IN  {-v : v \in T \cap real} \cup IF problem.positiveOnly THEN {} ELSE real \ T

\* The model is kept, given to the callback, which may ask to stop, and blocked.
Keep(T, ms, sels, s) ==
  /\ models' = Append(ms, T)
  /\ blockingSelectors' = Append(sels, s.nVars + 1)
  /\ newFormula' = <<BlockingClause(T) \cup {-(s.nVars + 1)}>>
  /\ given' = given \cup Range(newFormula')
  /\ newVars' = 1
  /\ shouldStop' \in BOOLEAN
  /\ at' = "loop"

EnumerateAll ==
  /\ Asked("all")
  /\ solver' = Built
  /\ NothingWaits
  /\ ClearModels
  /\ shouldStop' = FALSE
  /\ at' = "loop"
  /\ UNCHANGED <<problem, given, step, propagated, phase, confl, search, result>>

EnumerateOthers ==
  /\ Asked("others")
  /\ solver' = Built
  /\ Keep(propagated \cap (1..problem.realNVars), << >>, << >>, solver')
  /\ UNCHANGED <<problem, step, propagated, phase, confl, search, result>>

NextModel ==
  /\ Returned("loop")
  /\ ~shouldStop
  /\ Call(Built, Assumptions)
  /\ NothingWaits
  /\ at' = "all"
  /\ UNCHANGED <<problem, given, step, propagated, found>>

ModelInList ==
  /\ Returned("all")
  /\ result
  /\ Keep(solver.model, models, blockingSelectors, solver)
  /\ UNCHANGED <<engine, problem, step, propagated>>

\* The selectors by unit clauses, one for each model.
Retired == newFormula \o [k \in DOMAIN models |-> {-blockingSelectors[k]}]

EndOfList ==
  /\ \/ Returned("loop") /\ shouldStop
     \/ Returned("all") /\ ~result
  /\ newFormula' = Retired
  /\ given' = given \cup Range(Retired)
  /\ Over
  /\ UNCHANGED <<engine, newVars, propagated, found>>

\* The program has no more calls.
Finish ==
  /\ Returned("ready")
  /\ step = Len(problem.program)
  /\ at' = "done"
  /\ UNCHANGED <<engine, problem, given, step, waiting, propagated, found>>

Engine == SearchStep /\ UNCHANGED backEnd

BackEndNext ==
  \/ Engine
  \/ PropagatedAtDecisionLvlZero
  \/ ComputeModel
  \/ ModelComputed
  \/ EnumerateAll
  \/ EnumerateOthers
  \/ NextModel
  \/ ModelInList
  \/ EndOfList
  \/ Finish

----------------------------------------------------------------------------
(* What the back end owes to the solvers: the operations of SatBackEnd *)

LastCall == problem.program[step]

Formula == Range(problem.clauses)

Expected == Cnf!Models(Formula, Range(LastCall.assumps), problem.realNVars)

\* The variables found true: all that unit propagation finds, and none that
\* does not follow.
PropagatedRight ==
  Expected # {} =>
    \A v \in 1..problem.nVars :
      /\ v \in Cnf!Propagate(Formula, Range(LastCall.assumps)) => v \in propagated
      /\ v \in propagated => ~Cnf!Satisfiable(Formula, Range(LastCall.assumps) \cup {-v})

OnReal(T) == T \cap (1..problem.realNVars)

Listed == {OnReal(models[k]) : k \in DOMAIN models}

ModelRight == IF Expected = {} THEN models = << >> ELSE Len(models) = 1 /\ Listed \subseteq Expected

\* Each model of the real variables once, all of them unless the callback has
\* asked to stop.
ListRight ==
  /\ Cardinality(Listed) = Len(models)
  /\ Listed \subseteq Expected
  /\ Listed = Expected \/ shouldStop

\* After each call its answer is that of the formula of the problem under the
\* assumptions of the call, whatever the calls before have learnt, blocked,
\* retired or left on the trail (the operations of BuiltInSatSolverNGGlucose).
BackEndRight ==
  Returned("ready") /\ step > 0 =>
    CASE LastCall.op = "propagate"       -> PropagatedRight
      [] LastCall.op = "one"             -> ModelRight
      [] LastCall.op \in {"all", "others"} -> ListRight
=============================================================================
