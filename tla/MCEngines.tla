------------------------------ MODULE MCEngines ------------------------------
(***************************************************************************)
(* The back ends of the program, each over its engine: the MSS back end    *)
(* over MiniSat and the SAT back end over Glucose, which SolverFactory     *)
(* creates, and the problem reducer with its own MiniSat.  A behaviour     *)
(* uses one of them, on the clauses that Encoding gives for a small        *)
(* framework, with the calls that the solvers make; or the preprocessor of *)
(* one of the two engines, on small formulas.                              *)
(***************************************************************************)
EXTENDS CoMssExtract, TLC

CONSTANTS
  SatProblems,        \* bound: as in GlucoseBackEnd
  ReducerProblems,    \* bound: as in ReducerSearch
  SimpProblems,       \* bound: as in SimpSolver, for the copy of MiniSat
  GlucoseSimpProblems \* bound: for that of Glucose

VARIABLES
  kind,             \* which one: "mss", "sat", "reduce", "simp" or "glucose simp"
  step, newFormula, newVars, propagated, models, blockingSelectors, shouldStop,
  fixed, equivalentTo, eqClasses, propagatedOf, comparing, others, equivalencies, reduced,
  resume, elim, extra_frozen, interrupted, answer

Sat == INSTANCE GlucoseBackEnd

Reduction == INSTANCE ReducerSearch

newVar(s) == NewVar(s, FALSE)

Simp == INSTANCE SimpSolver WITH
  isGlucose <- FALSE, EngineSolver <- MinisatSolver,
  Solver_newVar <- newVar, Solver_addClause <- addClause, Solver_propagate <- propagate,
  Solver_attachClause <- Watched, Solver_detachClause <- detachClause,
  Solver_removeClause <- removeClause,
  Solver_satisfied <- Satisfied,
  Solver_simplified <- Simplified, Solver_garbageCollect <- Relocated

\* Below the preprocessor the phases are saved, as is the default.
GlucoseSimp == INSTANCE SimpSolver WITH
  SimpProblems <- GlucoseSimpProblems,
  isGlucose <- TRUE, EngineSolver <- [Sat!GlucoseSolver EXCEPT !.phase_saving = TRUE],
  Solver_newVar <- Sat!newVar, Solver_addClause <- Sat!addClause,
  Solver_propagate <- Sat!propagate,
  Solver_attachClause <- Sat!attachClause, Solver_detachClause <- Sat!detachClause,
  Solver_removeClause <- Sat!removeClause,
  Solver_satisfied <- Sat!satisfied,
  Solver_simplified <- Sat!Simplified, Solver_garbageCollect <- Sat!garbageCollect

----------------------------------------------------------------------------
(* The problems: the arguments are 1..n, dyn the attacks that may change *)

Enc(A, order, attacks, dyn, sem) == INSTANCE Encoding WITH
  Arg <- A, Order <- order, instance <- attacks, dynAttacks <- dyn,
  reserveNotAttackedRepl <- (sem # "ST"),
  Changing <- {}, MaxChanges <- 0, NbVars <- {}, nbVars <- 0,
  dynStep <- -1, i <- 0, assumps <- << >>, pc <- "scan", asked <- << >>

Ids(n) == [k \in 1..n |-> k]

HelperFor(n, attacks, dyn, sem) ==
  Enc(1..n, Ids(n), attacks, dyn, sem)!HelperOf(sem, Ids(n), n)

NbVarsFor(n, attacks, dyn, sem) ==
  Enc(1..n, Ids(n), attacks, dyn, sem)!NbVarsOf(HelperFor(n, attacks, dyn, sem))

\* In one order; the solvers give them argument by argument.
ClausesFor(n, attacks, dyn, sem) ==
  FoldSet(LAMBDA c, s : Append(s, c), << >>,
          Enc(1..n, Ids(n), attacks, dyn, sem)!ClausesOf(sem, HelperFor(n, attacks, dyn, sem)))

SoftsFor(n, attacks, dyn, sem) ==
  LET softs == Enc(1..n, Ids(n), attacks, dyn, sem)!SoftClauses(sem, HelperFor(n, attacks, dyn, sem), n)
  IN  [k \in DOMAIN softs |-> Sorted(softs[k])]

\* The assumption that switches a dynamic attack on.
Switch(n, attacks, dyn, sem, attack) ==
  Enc(1..n, Ids(n), attacks, dyn, sem)!Assump(HelperFor(n, attacks, dyn, sem), attack)

MssProblem(n, attacks, dyn, sem, as, count, limits) ==
  [nVars      |-> NbVarsFor(n, attacks, dyn, sem),
   hards      |-> ClausesFor(n, attacks, dyn, sem),
   softs      |-> SoftsFor(n, attacks, dyn, sem),
   assumps    |-> as,
   max        |-> count,
   restarts   |-> limits[1],
   reductions |-> limits[2]]

\* max is read by the promise of the MSS back end alone.
SatProblem(n, attacks, dyn, sem, program, limits) ==
  [max          |-> 0,
   realNVars    |-> n,
   nVars        |-> NbVarsFor(n, attacks, dyn, sem),
   clauses      |-> ClausesFor(n, attacks, dyn, sem),
   positiveOnly |-> sem = "ST",
   program      |-> program,
   restarts     |-> limits[1],
   reductions   |-> limits[2]]

\* The clauses in one order or in the opposite one; max is read by the promise of
\* the MSS back end alone.
ReducerProblem(n, attacks, dyn, sem, reversed) ==
  [max     |-> 0,
   nArgs   |-> n,
   nVars   |-> NbVarsFor(n, attacks, dyn, sem),
   clauses |-> LET c == ClausesFor(n, attacks, dyn, sem) IN IF reversed THEN Reverse(c) ELSE c,
   maps    |-> Enc(1..n, Ids(n), attacks, dyn, sem)!ReducedMaps(sem)]

Ask(op, as) == [op |-> op, assumps |-> as]

Mutual == {<<1, 2>>, <<2, 1>>}
Cycle  == {<<1, 2>>, <<2, 3>>, <<3, 1>>}
Self   == {<<1, 1>>}

Dyn(attack) == <<[from |-> attack[1], to |-> attack[2]]>>

\* The switch of a self-attack of 1, alone or in the pair.
Alone(sem)  == Switch(1, {}, Dyn(<<1, 1>>), sem, <<1, 1>>)
InPair(sem) == Switch(2, Mutual, Dyn(<<1, 1>>), sem, <<1, 1>>)

\* The switch of the attack that answers the one of 1.
Back(sem) == Switch(2, {<<1, 2>>}, Dyn(<<2, 1>>), sem, <<2, 1>>)

\* Two soft clauses that share a literal, as the ranges of two arguments of one
\* class: when one is refuted the other is known to be false.
Shared ==
  [nVars |-> 3, hards |-> <<{-1, 3}, {-1, -3}, {-2, 3}, {-2, -3}>>,
   softs |-> <<<<1>>, <<2>>, <<1, 2>>>>, assumps |-> << >>, max |-> 0,
   restarts |-> 0, reductions |-> 0]

MCMssProblems ==
  {MssProblem(2, Mutual, << >>, "PR", << >>, 0, <<1, 1>>),
   MssProblem(3, Mutual \cup {<<1, 3>>, <<2, 3>>}, << >>, "PR", << >>, 1, <<1, 1>>),
   MssProblem(2, {<<1, 2>>}, Dyn(<<2, 1>>), "PR", <<Back("PR")>>, 0, <<1, 1>>),
   MssProblem(2, Mutual, Dyn(<<1, 1>>), "PR", <<InPair("PR")>>, 0, <<1, 1>>),
   MssProblem(2, Mutual \cup Self, << >>, "SST", << >>, 0, <<0, 0>>),
   MssProblem(1, {}, Dyn(<<1, 1>>), "SST", <<Alone("SST")>>, 0, <<1, 1>>),
   MssProblem(1, {}, Dyn(<<1, 1>>), "SST", <<-Alone("SST")>>, 0, <<1, 1>>),
   MssProblem(1, {}, Dyn(<<1, 1>>), "STG", <<Alone("STG")>>, 0, <<1, 1>>),
   Shared}

\* The complete solver for the extensions: the grounded one first, then the others;
\* with the attack, then without.
Extensions(as) == <<Ask("propagate", as), Ask("others", as)>>
Both(switch)   == Extensions(<<switch>>) \o Extensions(<<-switch>>)

MCSatProblems ==
  {SatProblem(2, Mutual, << >>, "CO", Extensions(<< >>), <<1, 1>>),
   SatProblem(3, {<<2, 2>>, <<3, 3>>, <<2, 3>>, <<3, 1>>}, << >>, "CO", Extensions(<< >>), <<0, 0>>),
   SatProblem(3, Mutual \cup {<<1, 3>>, <<2, 3>>}, << >>, "CO", Extensions(<< >>), <<0, 0>>),
   SatProblem(2, {<<1, 2>>}, Dyn(<<2, 1>>), "CO", Both(Back("CO")), <<1, 1>>),
   SatProblem(2, Mutual, Dyn(<<1, 1>>), "CO", Both(InPair("CO")), <<0, 0>>),
   SatProblem(3, Cycle, << >>, "ST", <<Ask("all", << >>), Ask("one", <<1>>)>>, <<1, 1>>),
   SatProblem(4, Mutual \cup {<<3, 4>>, <<4, 3>>, <<1, 3>>}, << >>, "ST",
              <<Ask("all", << >>), Ask("one", <<1>>), Ask("one", <<-2>>)>>, <<1, 1>>),
   SatProblem(2, Mutual, Dyn(<<1, 1>>), "ST",
              <<Ask("all", <<InPair("ST")>>), Ask("one", <<-InPair("ST"), 1>>),
                Ask("all", <<-InPair("ST")>>)>>, <<1, 1>>)}

\* Every framework of two arguments, with and without an attack that may change,
\* and some of more.
MCReducerProblems ==
  {ReducerProblem(2, A, d, sem, r) :
     A \in SUBSET ((1..2) \X (1..2)), d \in {<< >>, Dyn(<<1, 1>>), Dyn(<<2, 1>>)},
     sem \in {"CO", "ST", "STG"}, r \in BOOLEAN}
  \cup
  {ReducerProblem(3, A, d, sem, r) :
     A \in {Cycle, Mutual \cup {<<1, 3>>, <<3, 3>>}, {<<1, 2>>, <<2, 3>>}, {<<1, 1>>, <<1, 2>>}},
     d \in {<< >>, Dyn(<<1, 2>>)},
     sem \in {"CO", "ST", "STG"}, r \in BOOLEAN}



Add(c)          == [op |-> "add", clause |-> c, vars |-> Vars(c)]
Freeze(v, on)   == [op |-> "frozen", var |-> v, on |-> on, vars |-> {v}]
Subst(v, x)     == [op |-> "substitute", var |-> v, by |-> x, vars |-> Vars({v, x})]
Elim(off)       == [op |-> "eliminate", off |-> off, vars |-> {}]
Solve(as)       == [op |-> "solve", assumps |-> as, simp |-> TRUE, off |-> FALSE, vars |-> Vars(Range(as))]
SolveLast(as)   == [Solve(as) EXCEPT !.off = TRUE]
SolveOnly(as)   == [Solve(as) EXCEPT !.simp = FALSE]

Adds(cs) == [k \in DOMAIN cs |-> Add(cs[k])]

SimpProblem(n, clauses, program) ==
  [nVars |-> n, grow |-> 0, clause_lim |-> 20, sub_lim |-> 1000,
   asymm |-> FALSE, rcheck |-> FALSE, elim |-> TRUE,
   program |-> Adds(clauses) \o program,
   interrupts |-> FALSE, max |-> 0, restarts |-> 0, reductions |-> 0]

SomeClauses == {{1, 2}, {-1, 3}, {-2, -3}, {1, -3}, {-1, 2, 3}, {1, 2, -3}, {-1, -2, 3}}

\* Not everybody in one of two holes, one of three pairs, and equivalent variables.
Holes  == <<{1, 2}, {3, 4}, {-1, -3}, {-2, -4}, {-1, -4}, {-2, -3}>>
Choice == <<{1, 2, 3}, {-1, -2}, {-1, -3}, {-2, -3}, {1, 4}, {-4, 2, 3}>>
Circle == <<{-1, 2}, {-2, 3}, {-3, 1}, {1, 2, 4}, {-2, -3, -4}>>

\* The second clause is subsumed by the first once that is strengthened by the third.
Shrinking == <<{-1, 2, 3}, {2, 3, 4}, {1, 2}, {-4, -2, -3}>>

MCSimpProblems ==
  {SimpProblem(3, SetToSeq(S), <<Solve(<< >>)>>) : S \in SUBSET SomeClauses}
  \cup
  {[SimpProblem(3, SetToSeq(S), <<Freeze(1, TRUE), Solve(<< >>)>>) EXCEPT !.asymm = TRUE] :
     S \in {S \in SUBSET SomeClauses : Cardinality(S) = 5}}
  \cup
  {[SimpProblem(4, cs, <<Solve(<< >>), Add({1, 2, 4}), Solve(<< >>)>>) EXCEPT !.elim = FALSE] :
     cs \in {Holes, Choice, Circle, Shrinking}}
  \cup
  {[SimpProblem(4, cs, <<Freeze(1, TRUE), Solve(<< >>)>>) EXCEPT !.interrupts = TRUE] :
     cs \in {Holes, Choice, Circle}}
  \cup
  {[SimpProblem(4, cs, <<Freeze(4, TRUE), Solve(<<1>>), Add({4, 3}), Freeze(4, FALSE), Solve(<<-4>>),
                         Elim(TRUE), Solve(<< >>)>>)
      EXCEPT !.rcheck = r, !.restarts = 1, !.reductions = 1] :
     cs \in {Holes, Choice, Circle}, r \in BOOLEAN}
  \cup
  {[SimpProblem(4, cs, <<SolveOnly(<<-3>>), Subst(4, -1), Elim(FALSE), Add({1, 3}), SolveLast(<<2>>),
                         SolveOnly(<< >>)>>)
      EXCEPT !.sub_lim = lim, !.clause_lim = 1, !.grow = 1] :
     cs \in {Holes, Choice, Circle}, lim \in {-1, 3}}

\* In the copy of Glucose rcheck loses clauses, and so does asymm if a clause is
\* true in a literal that is not watched: no formula of these has one.
MCGlucoseSimpProblems == {p \in MCSimpProblems : ~p.rcheck}

----------------------------------------------------------------------------
(* One of the five runs, the others are as they were created *)

MssIdle ==
  /\ profiles = {}
  /\ selectors = << >> /\ mapIdxClause = << >> /\ selectedClause = << >>
  /\ marked = {}
  /\ unknown = << >> /\ mss = << >> /\ coMss = << >> /\ prev_assums = << >>
  /\ tried = 0
  /\ model = {}
  /\ emitted = << >> /\ mustStopEnum = FALSE /\ nbCoMSS = 0
  /\ emptyBlockClause = FALSE
  /\ limitRestart = 0

SatIdle ==
  /\ newFormula = << >> /\ newVars = 0
  /\ propagated = {}
  /\ models = << >> /\ blockingSelectors = << >> /\ shouldStop = FALSE

ReducerIdle ==
  /\ fixed = {} /\ equivalentTo = << >> /\ eqClasses = << >>
  /\ propagatedOf = << >>
  /\ comparing = 0 /\ others = << >> /\ equivalencies = {}
  /\ reduced = << >>

SimpIdle ==
  /\ resume = "ready"
  /\ elim = [var |-> 0, was_frozen |-> FALSE]
  /\ extra_frozen = {}
  /\ interrupted = FALSE
  /\ answer = "none"

mssOnly == <<profiles, selectors, mapIdxClause, selectedClause, growing, model, reported, limitRestart>>
satOnly == <<newFormula, newVars, propagated, models, blockingSelectors, shouldStop>>
reducerOnly == <<fixed, equivalentTo, eqClasses, propagatedOf, comparing, others, equivalencies, reduced>>
simpOnly == <<resume, elim, extra_frozen, interrupted, answer>>
allVars == <<kind, mssVars, step, satOnly, reducerOnly, simpOnly>>

MCInit ==
  \/ kind = "mss" /\ ExtractorInit /\ step = 0 /\ SatIdle /\ ReducerIdle /\ SimpIdle
  \/ kind = "sat" /\ Sat!BackEndInit /\ MssIdle /\ ReducerIdle /\ SimpIdle
  \/ kind = "reduce" /\ Reduction!ReducerInit /\ step = 0 /\ given = {} /\ MssIdle /\ SatIdle /\ SimpIdle
  \/ kind = "simp" /\ Simp!SimpInit /\ MssIdle /\ SatIdle /\ ReducerIdle
  \/ kind = "glucose simp" /\ GlucoseSimp!SimpInit /\ MssIdle /\ SatIdle /\ ReducerIdle

\* Solver::solve_, called by the preprocessor.
SimpSearch ==
  /\ \/ at = "search" /\ Call(solver, solver.assumptions, 0, FALSE) /\ at' = "searched"
     \/ at = "searched" /\ ~interrupted /\ SearchStep /\ UNCHANGED at
     \/ at = "searched" /\ interrupted /\ Onward /\ UNCHANGED at
     \/ at = "searched" /\ interrupted /\ Interrupted /\ at' = "unknown"
  /\ UNCHANGED <<problem, given, step, simpOnly>>

GlucoseSimpSearch ==
  /\ \/ at = "search" /\ Sat!Call(solver, solver.assumptions) /\ at' = "searched"
     \/ at = "searched" /\ Sat!SearchStep /\ UNCHANGED at
     \/ at = "searched" /\ interrupted /\ Sat!Interrupted /\ at' = "unknown"
  /\ UNCHANGED <<problem, given, step, simpOnly>>

MCNext ==
  \/ kind = "mss" /\ ExtractorNext /\ UNCHANGED <<kind, step, satOnly, reducerOnly, simpOnly>>
  \/ kind = "sat" /\ Sat!BackEndNext /\ UNCHANGED <<kind, mssOnly, reducerOnly, simpOnly>>
  \/ kind = "reduce" /\ Reduction!ReducerNext /\ UNCHANGED <<kind, step, mssOnly, satOnly, simpOnly, given>>
  \/ /\ kind = "simp"
     /\ Simp!SimpNext \/ SimpSearch
     /\ UNCHANGED <<kind, mssOnly, satOnly, reducerOnly>>
  \/ /\ kind = "glucose simp"
     /\ GlucoseSimp!SimpNext \/ GlucoseSimpSearch
     /\ UNCHANGED <<kind, mssOnly, satOnly, reducerOnly>>
  \/ at = "done" /\ UNCHANGED allVars

\* Weak fairness of MCNext, without ENABLED: one thread, which can go on until it
\* is over.
MCProgress == []<><<TRUE>>_allVars \/ []<>(at = "done")

MCSpec == MCInit /\ [][MCNext]_allVars /\ MCProgress

----------------------------------------------------------------------------
(* The engines *)

Searching == phase = "handle"

\* After propagate no clause is false and none is left with one literal to make
\* true, unless it has returned a clause that is false: the watchers of the two
\* engines miss nothing, through backtracking, kept levels and learnt clauses.  A
\* preprocessing that was interrupted may leave a clause that it has strengthened
\* without its watchers on literals that are open: the search then gives up.
PropagationComplete == Searching /\ ~interrupted => PropagationOK(solver, confl)

\* The trail justifies itself, literal by literal, and each variable without a
\* value can still be decided; the levels that are kept from call to call are
\* those of the assumptions of the call that follows (cancelUntil, restartUntil,
\* resetSolverState, limitRestart, search, pickBranchLit, simplify).
SearchConsistent ==
  /\ Searching => TrailOK(solver) /\ HeapOK(solver)
  /\ phase # "idle" => LevelsOK(solver)

\* Every clause, learnt or not, is in the lists of its two watched literals and in
\* no other, and a removed clause is in none; the lists, counters and heap of the
\* preprocessor are those of the clauses that are left (attachClause, propagate,
\* removeClause, and addClause_, removeClause, strengthenClause of SimpSolver).
WatchesConsistent ==
  CASE kind = "mss"          -> Searching => WatchesOK(solver)
    [] kind = "sat"          -> Searching => Sat!WatchesOK(solver)
    [] kind = "reduce"       -> WatchesOK(solver)
    [] kind = "simp"         -> WatchesOK(solver) /\ Simp!ListsOK(solver)
    [] kind = "glucose simp" -> Sat!WatchesOK(solver) /\ GlucoseSimp!ListsOK(solver)

\* Between two calls the engine knows what it was given and nothing more: nothing
\* learnt is wrong, and no clause is lost when the trail is cut or the satisfied
\* clauses go.  What waits in newFormula is not known yet, nor is the empty
\* blocking clause.  The preprocessor keeps, at each of its steps, the models over
\* the variables that it has not eliminated.
ClausesExact ==
  /\ kind \in {"mss", "sat"} /\ phase = "idle" /\ at # "new" /\ ~emptyBlockClause =>
       LET known == Known(solver)
       IN  /\ \A c \in given \ Range(newFormula) : ~Cnf!Satisfiable(known, Cnf!Neg(c))
           /\ \A c \in known : ~Cnf!Satisfiable(given, Cnf!Neg(c))
  /\ kind = "simp" => Simp!SameModels
  /\ kind = "glucose simp" => GlucoseSimp!SameModels

\* A preprocessing that is not interrupted ends only when there is nothing left to
\* do: no clause is subsumed by another or could lose a literal to it, and no
\* variable that is not frozen could still be eliminated (the queue, the touched
\* variables and the heap of SimpSolver::eliminate).
Irreducible ==
  /\ kind = "simp" => Simp!Exhausted
  /\ kind = "glucose simp" => GlucoseSimp!Exhausted

----------------------------------------------------------------------------
(* The back ends *)

\* Each call of the SAT back end answers for the formula and its assumptions,
\* whatever the calls before have learnt, blocked or retired
\* (BuiltInSatSolverNGGlucose), and the model that comes with an MSS is one of
\* that set (BuiltInMssSolverNG, CoMSSEnum::run).
AnswersRight ==
  /\ kind = "sat" => Sat!BackEndRight
  /\ kind = "mss" => ModelFits
  /\ kind = "simp" => Simp!SolveRight
  /\ kind = "glucose simp" => GlucoseSimp!SolveRight

\* The map that the reducer returns is one that Encoding says it may return, on
\* which the rest of the development rests: no call of its engine misses a literal
\* because the call before has thrown the trail away, and none takes a literal of
\* the call before for one of its own (SatProblemReducer::search over
\* BuiltInSatSolverNG::propagatedAtDecisionLvlZero).
ReductionPromised == kind = "reduce" => Reduction!MapPromised
=============================================================================
