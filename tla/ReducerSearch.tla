---------------------------- MODULE ReducerSearch ----------------------------
(***************************************************************************)
(* SatProblemReducer over its own back end, a BuiltInSatSolverNG with the  *)
(* MiniSat engine: what Encoding says it returns.  The throw-away encoding *)
(* is given to the engine at the first call; each call of                  *)
(* propagatedAtDecisionLvlZero throws the trail away and propagates again, *)
(* at level 0, and what it finds for a variable is kept for the            *)
(* comparisons that follow.                                                *)
(***************************************************************************)
EXTENDS Minisat

CONSTANT ReducerProblems
  \* bound: the problems, as records [nArgs, nVars, clauses, maps]; clauses is
  \* the throw-away encoding, a sequence of sets of literals; maps is what Encoding
  \* promises of it

VARIABLES
  problem,
  fixed,            \* the arguments that propagation fixes, as literals
  equivalentTo,
  eqClasses,        \* the classes so far, in order, each a set
  propagatedOf,     \* propagated: what is known of a variable, in order
  comparing,        \* the variable of lookForEquivalencesOf
  others,           \* what it propagates and is not looked at yet
  equivalencies,    \* its class so far
  reduced,          \* reducedVarMap
  at                \* "new", "scan", "compare" or "done"

classes    == <<fixed, equivalentTo, eqClasses>>
comparison == <<comparing, others, equivalencies>>
reducer    == <<problem, classes, propagatedOf, comparison, reduced, at>>

ArgVars == 1..problem.nArgs

ReducerInit ==
  /\ problem \in ReducerProblems
  /\ EngineInit(MinisatSolver)
  /\ restarts = 0 /\ reductions = 0
  /\ fixed = {}
  /\ equivalentTo = [v \in ArgVars |-> v]
  /\ eqClasses = << >>
  /\ propagatedOf = << >>
  /\ comparing = 0
  /\ others = << >>
  /\ equivalencies = {}
  /\ reduced = << >>
  /\ at = "new"

NotSearching == UNCHANGED <<phase, confl, search, result>>

----------------------------------------------------------------------------
(* The back end *)

\* buildSolver, at the first call
Built ==
  LET s == FoldLeft(LAMBDA t, k : NewVar(t, TRUE), [MinisatSolver EXCEPT !.phase_saving = FALSE],
                    [k \in 1..problem.nVars |-> k])
  IN  FoldLeft(addClause, s, problem.clauses)

\* Mutant: the unit clauses went with the trail.
PropagatingBare(s, lits) == propagate(EnqueuedAll(Reset(s), lits)).s

\* propagatedAtDecisionLvlZero: the trail of the engine afterwards is its answer.
Propagating(s, lits) == propagate(EnqueuedAll(useAsCompleteSolver(Reset(s)), lits)).s

TrailLits(s) == [k \in DOMAIN s.trail |-> s.trail[k].lit]

\* The one that comes first in the trail.
First(s, S) == CHOOSE v \in S : \A w \in S : Place(s, v) <= Place(s, w)

----------------------------------------------------------------------------
(* search *)

\* propagateAtDecisionLvlZero, of the reducer: the classes of the fixed arguments.
FixArguments ==
  /\ at = "new"
  /\ \E s \in {Propagating(Built, << >>)} :
       LET T == {v \in ArgVars : v \in s.assigns}
           F == {v \in ArgVars : -v \in s.assigns}
       IN  /\ solver' = s
           /\ fixed' = T \cup {-v : v \in F}
           /\ equivalentTo' = [v \in ArgVars |-> IF v \in T THEN First(s, T)
                                                 ELSE IF v \in F THEN First(s, F) ELSE v]
           /\ eqClasses' = SelectSeq(<<T, F>>, LAMBDA c : c # {})
  /\ at' = "scan"
  /\ UNCHANGED <<problem, propagatedOf, comparison, reduced>>
  /\ NotSearching

IsFixed(v) == v \in fixed \/ -v \in fixed

\* computePropagationsOf: the variables that v makes true, in the order of the trail.
PropagationsComputed(v) ==
  IF v \in DOMAIN propagatedOf THEN UNCHANGED <<solver, propagatedOf>>
  ELSE \E s \in {Propagating(solver, <<v>>)} :
         /\ solver' = s
         /\ propagatedOf' = propagatedOf @@ (v :> SelectSeq(TrailLits(s), LAMBDA p : p > 0))

\* lookForEquivalencesOf, for the next variable that is alone in its class.
Unclassed(v) == v > comparing /\ ~IsFixed(v) /\ equivalentTo[v] = v

Open(v) ==
  /\ at = "scan"
  /\ Unclassed(v) /\ \A w \in ArgVars : Unclassed(w) => v <= w
  /\ PropagationsComputed(v)
  /\ comparing' = v
  /\ others' = propagatedOf'[v]
  /\ equivalencies' = {v}
  /\ at' = "compare"
  /\ UNCHANGED <<problem, classes, reduced>>
  /\ NotSearching

Comparable(w) == w \in ArgVars /\ w > comparing /\ ~IsFixed(w) /\ equivalentTo[w] = w

Ignore ==
  /\ at = "compare"
  /\ others # << >> /\ ~Comparable(Head(others))
  /\ others' = Tail(others)
  /\ UNCHANGED <<engine, problem, classes, propagatedOf, comparing, equivalencies, reduced, at>>

Compare ==
  /\ at = "compare"
  /\ others # << >> /\ Comparable(Head(others))
  /\ LET w == Head(others)
     IN  /\ PropagationsComputed(w)
         /\ equivalencies' = IF comparing \in Range(propagatedOf'[w]) THEN equivalencies \cup {w}
                             ELSE equivalencies
  /\ others' = Tail(others)
  /\ UNCHANGED <<problem, classes, comparing, reduced, at>>
  /\ NotSearching

Close ==
  /\ at = "compare"
  /\ others = << >>
  /\ equivalentTo' = [v \in ArgVars |-> IF v \in equivalencies THEN comparing ELSE equivalentTo[v]]
  /\ eqClasses' = Append(eqClasses, equivalencies)
  /\ at' = "scan"
  /\ UNCHANGED <<engine, problem, fixed, propagatedOf, comparison, reduced>>

\* The classes are numbered in the order in which they were found.
TranslateVarMap ==
  /\ at = "scan"
  /\ \A v \in ArgVars : ~Unclassed(v)
  /\ reduced' = [varOf |-> [v \in ArgVars |-> CHOOSE k \in DOMAIN eqClasses : v \in eqClasses[k]],
                 nArgs |-> Len(eqClasses)]
  /\ at' = "done"
  /\ UNCHANGED <<engine, problem, classes, propagatedOf, comparison>>

ReducerNext ==
  \/ FixArguments
  \/ \E v \in ArgVars : Open(v)
  \/ Ignore
  \/ Compare
  \/ Close
  \/ TranslateVarMap

----------------------------------------------------------------------------
\* What search owes to the solvers: one of the maps that Encoding allows.
MapPromised == at = "done" => reduced \in problem.maps
=============================================================================
