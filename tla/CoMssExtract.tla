---------------------------- MODULE CoMssExtract ----------------------------
(***************************************************************************)
(* CoMSSEnum with the constructive extractor over the engine: the detailed *)
(* form of MssEnumerator.  The constructor gives the engine the hard and   *)
(* the soft clauses, the latter behind selectors; run asks for a model,    *)
(* search grows an MSS from it with one call of the engine for each soft   *)
(* clause, on levels that are kept from call to call, and the rest is      *)
(* blocked.                                                                *)
(***************************************************************************)
EXTENDS Minisat

Cnf == INSTANCE Cnf

CONSTANT MssProblems
  \* bound: the problems, as records [nVars, hards, softs, assumps, max,
  \* restarts, reductions]; hards is a sequence of sets of literals, softs one of
  \* sequences, assumps one of literals, max is CoMSSEnum::max (0 for no limit)

VARIABLES
  problem,
  profiles,             \* history: what its models satisfy of the soft clauses
  given,                \* history: all the clauses that were added
  selectors,            \* a literal for each soft clause that level 0 leaves open
  mapIdxClause,         \* the soft clauses of a selector
  selectedClause,       \* the clause of a selector that is not an original literal
  marked,               \* markedSelector, as the literals that are marked true
  unknown, mss, coMss, prev_assums,         \* the sequences of search
  tried,                \* ls
  model,                \* SatSolver::model
  emitted, mustStopEnum, nbCoMSS,
  emptyBlockClause,
  at                    \* where the extractor is, or what it waits for

built     == <<problem, profiles, given, selectors, mapIdxClause, selectedClause>>
growing   == <<marked, unknown, mss, coMss, prev_assums, tried>>
reported  == <<emitted, mustStopEnum, nbCoMSS, emptyBlockClause>>
extractor == <<built, growing, model, reported, at>>
mssVars   == <<engine, extractor>>

\* For each model of the hard clauses under the assumptions, the soft clauses it
\* satisfies.
ProfilesOf(p) ==
  {{i \in DOMAIN p.softs : Range(p.softs[i]) \cap (T \cup Cnf!Neg((1..p.nVars) \ T)) # {}} :
     T \in Cnf!FullModels(Range(p.hards), Range(p.assumps), p.nVars)}

ExtractorInit ==
  /\ problem \in MssProblems
  /\ profiles = ProfilesOf(problem)
  /\ given = Range(problem.hards)
  /\ EngineInit(MinisatSolver)
  /\ restarts = problem.restarts /\ reductions = problem.reductions
  /\ selectors = << >>
  /\ mapIdxClause = << >>
  /\ selectedClause = << >>
  /\ marked = {}
  /\ unknown = << >> /\ mss = << >> /\ coMss = << >> /\ prev_assums = << >>
  /\ tried = 0
  /\ model = {}
  /\ emitted = << >>
  /\ mustStopEnum = FALSE
  /\ nbCoMSS = 0
  /\ emptyBlockClause = FALSE
  /\ at = "new"

Returned(place) == at = place /\ phase = "idle"

----------------------------------------------------------------------------
(* The constructor *)

\* initNbVariable
Variables(n) ==
  LET s == FoldLeft(LAMBDA t, v : NewVar(t, FALSE), MinisatSolver, [k \in 1..n |-> k])
  IN  [s EXCEPT !.nbInitVariable = n]

HardsAdded == FoldLeft(addClause, Variables(problem.nVars), problem.hards)

ConstructHards ==
  /\ at = "new"
  /\ Call(HardsAdded, << >>, 0, FALSE)
  /\ at' = "hards"
  /\ UNCHANGED <<built, growing, model, reported>>

WithSelector(b, p, i) ==
  IF p \in DOMAIN b.ids THEN [b EXCEPT !.ids[p] = @ \cup {i}]
  ELSE [b EXCEPT !.selectors = Append(@, p), !.ids = @ @@ (p :> {i})]

\* Mutant: the clause that has lost its selector is not recorded.
SoftForgotten(b, i) ==
  LET c    == problem.softs[i]
      open == {q \in Range(c) : ~IsFalse(b.s, q)}
  IN  IF Cardinality(open) > 0 THEN b ELSE WithSelector(b, c[1], i)

\* A soft clause satisfied at level 0 needs no selector; one of which a literal
\* is left is its own; one that is false has its first literal.
SoftAdded(b, i) ==
  LET c    == problem.softs[i]
      open == {q \in Range(c) : ~IsFalse(b.s, q)}
      v    == b.s.nVars + 1
  IN  IF Len(c) = 1 THEN WithSelector(b, c[1], i)
      ELSE IF \E q \in open : IsTrue(b.s, q) \/ -q \in open THEN b
      ELSE IF open = {} THEN WithSelector(b, c[1], i)
      ELSE IF Cardinality(open) = 1 THEN WithSelector(b, CHOOSE q \in open : TRUE, i)
      ELSE [WithSelector(b, v, i) EXCEPT
              !.s = addClause(NewVar(@, TRUE), open \cup {-v}),
              !.clauses = @ @@ (v :> Sorted(open \cup {-v}))]

SoftsAdded(s) ==
  FoldLeft(SoftAdded, [s |-> s, selectors |-> << >>, ids |-> << >>, clauses |-> << >>],
           [i \in DOMAIN problem.softs |-> i])

\* What the hard clauses make true without search.
RootLiterals == Len(HardsAdded.trail)

\* The end of the constructor (it exits when the hard clauses have no model),
\* and the first call of run; phase_saving is switched off between the two.
ConstructSofts ==
  /\ Returned("hards")
  /\ \E b \in {SoftsAdded(restartUntil(solver, RootLiterals))} :
       /\ selectors' = b.selectors
       /\ mapIdxClause' = b.ids
       /\ selectedClause' = b.clauses
       /\ given' = given \cup {Range(b.clauses[v]) : v \in DOMAIN b.clauses}
       /\ IF result
            THEN /\ Call([b.s EXCEPT !.phase_saving = FALSE],
                         problem.assumps \o problem.assumps, 0, FALSE)
                 /\ at' = "first"
            ELSE at' = "exit" /\ UNCHANGED engine
  /\ UNCHANGED <<problem, profiles, growing, model, reported>>

----------------------------------------------------------------------------
(* run: a new round *)

\* SatSolver::model is copied from each call that finds one.
Copied == model' = IF result THEN solver.model ELSE model

\* operator(): the call that must succeed before the search.
BeginRound ==
  /\ Returned("first") \/ Returned("again")
  /\ result /\ ~emptyBlockClause
  /\ Copied
  /\ marked' = {}
  /\ unknown' = selectors
  /\ mss' = << >> /\ coMss' = << >> /\ prev_assums' = << >>
  /\ Call(solver, problem.assumps, 0, FALSE)
  /\ at' = "mss"
  /\ UNCHANGED <<built, tried, reported>>

EndOfRun ==
  /\ Returned("first") \/ Returned("again")
  /\ ~result \/ emptyBlockClause
  /\ Copied
  /\ at' = "done"
  /\ UNCHANGED <<engine, built, growing, reported>>

BeginSearch ==
  /\ Returned("mss")
  /\ Copied
  /\ at' = IF result THEN "search" ELSE "exit"
  /\ UNCHANGED <<engine, built, growing, reported>>

----------------------------------------------------------------------------
(* search *)

Marked(m, p) == (m \ {-p}) \cup {p}

\* What is left of unknown, in order, and which of its literals are decided.
Popped == Front(unknown)

\* A soft clause that the backbone has made false.
Skip ==
  /\ at = "search"
  /\ unknown # << >>
  /\ -Last(unknown) \in marked
  /\ coMss' = Append(coMss, Last(unknown))
  /\ unknown' = Popped
  /\ UNCHANGED <<engine, built, marked, mss, prev_assums, tried, model, reported, at>>

\* The levels to keep.
Limit(prev) == Len(prev)

Try ==
  /\ at = "search"
  /\ unknown # << >>
  /\ -Last(unknown) \notin marked
  /\ tried' = Last(unknown)
  /\ unknown' = Popped
  /\ Call(solver, prev_assums \o problem.assumps \o <<Last(unknown)>>, Limit(prev_assums), FALSE)
  /\ at' = "try"
  /\ UNCHANGED <<built, marked, mss, coMss, prev_assums, model, reported>>

\* T is the set of the variables true in a model.
TrueIn(T, q) == IF q > 0 THEN q \in T ELSE -q \notin T

\* Is the soft clause of p satisfied by the model T?  (Its selector apart.)
SatisfiedSoft(T, p) ==
  LET lits == IF p \in DOMAIN selectedClause THEN Range(selectedClause[p]) \ {-p} ELSE {p}
  IN  \E q \in lits : TrueIn(T, q)

\* One soft clause of shrinkUnknown.
Shrunk(a, p) ==
  IF -p \in a.marked THEN [a EXCEPT !.coMss = Append(@, p)]
  ELSE IF p \in a.marked THEN [a EXCEPT !.mss = Append(@, p)]
  ELSE IF SatisfiedSoft(solver.model, p)
    THEN [a EXCEPT !.mss = Append(@, p), !.marked = Marked(@, p)]
  ELSE [a EXCEPT !.unknown = Append(@, p)]

Grow ==
  /\ Returned("try")
  /\ result
  /\ Copied
  /\ LET a == FoldLeft(Shrunk, [marked |-> Marked(marked, tried), mss |-> <<tried>>,
                                coMss |-> << >>, unknown |-> << >>], unknown)
     IN  /\ marked' = a.marked
         /\ mss' = mss \o a.mss
         /\ prev_assums' = prev_assums \o a.mss
         /\ coMss' = coMss \o a.coMss
         /\ unknown' = a.unknown
  /\ at' = "search"
  /\ UNCHANGED <<engine, built, tried, reported>>

\* backbone: the negations of the other literals of the clause, where neither the
\* kept levels nor a mark decides them.
Backbone(m) ==
  IF tried \notin DOMAIN selectedClause THEN << >>
  ELSE LET c == SelectSeq(selectedClause[tried],
                          LAMBDA q : IsUndef(solver, q) /\ {q, -q} \cap m = {})
       IN  [k \in DOMAIN c |-> -c[k]]

Refute ==
  /\ Returned("try")
  /\ ~result
  /\ Copied
  /\ LET m == Marked(marked, -tried)
         f == Backbone(m)
     IN  /\ marked' = m \cup Range(f)
         /\ prev_assums' = prev_assums \o <<-tried>> \o f
  /\ coMss' = Append(coMss, tried)
  /\ at' = "search"
  /\ UNCHANGED <<engine, built, unknown, mss, tried, reported>>

----------------------------------------------------------------------------
(* run: report and block *)

\* in2ex
SoftsOf(ps) == UNION {mapIdxClause[p] : p \in Range(ps)}

\* The callback may ask to stop.
Report ==
  /\ at = "search"
  /\ unknown = << >>
  /\ emitted' = Append(emitted, DOMAIN problem.softs \ SoftsOf(coMss))
  /\ mustStopEnum' \in BOOLEAN
  /\ at' = "block"
  /\ UNCHANGED <<engine, built, growing, model, nbCoMSS, emptyBlockClause>>

\* Nothing is left to satisfy, or the callback has asked to stop.
Stop ==
  /\ at = "block"
  /\ mustStopEnum \/ coMss = << >>
  /\ at' = "done"
  /\ UNCHANGED <<engine, built, growing, model, reported>>

\* blockDown, at level 0.
Blocked(s, ps) ==
  LET open == {p \in Range(ps) : IsUndef(s, p)}
  IN  IF open = {} THEN s
      ELSE IF Cardinality(open) = 1
        THEN uncheckedEnqueue(s, CHOOSE p \in open : TRUE, CRef_Undef)
      ELSE addClause(s, open)

\* The next model is looked for with the selectors off, even when the clause is
\* empty.
BlockDown ==
  /\ at = "block"
  /\ ~mustStopEnum /\ coMss # << >>
  /\ LET s == cancelUntil(solver, 0)
     IN  /\ emptyBlockClause' = \A p \in Range(coMss) : IsFalse(s, p)
         /\ Call(Blocked(s, coMss), problem.assumps \o problem.assumps, 0, TRUE)
  /\ given' = given \cup {Range(coMss)}
  /\ at' = "blocked"
  /\ UNCHANGED <<problem, profiles, selectors, mapIdxClause, selectedClause, growing, model, emitted, mustStopEnum, nbCoMSS>>

\* initAssignment fills an mss that the next round clears.
Counted ==
  /\ Returned("blocked")
  /\ nbCoMSS' = nbCoMSS + 1
  /\ at' = IF nbCoMSS' = problem.max THEN "done" ELSE "again"
  /\ UNCHANGED <<engine, built, growing, model, emitted, mustStopEnum, emptyBlockClause>>

Engine == SearchStep /\ UNCHANGED extractor

ExtractorNext ==
  \/ Engine
  \/ ConstructHards
  \/ ConstructSofts
  \/ BeginRound
  \/ EndOfRun
  \/ BeginSearch
  \/ Skip
  \/ Try
  \/ Grow
  \/ Refute
  \/ Report
  \/ Stop
  \/ BlockDown
  \/ Counted

\* Weak fairness of ExtractorNext, without ENABLED: one thread, which can go on
\* until the enumeration is done.
Progress == []<><<TRUE>>_mssVars \/ []<>(at = "done")

ExtractorSpec == ExtractorInit /\ [][ExtractorNext]_mssVars /\ Progress

----------------------------------------------------------------------------
(* What the extractor owes to the back end *)

\* The model that the callback gets with a set satisfies exactly the soft clauses
\* of the set, although the last calls of the engine may have failed, and an MSS
\* is grown by models of several calls (CoMSSEnum::run, search).
ModelFits ==
  at = "block" =>
    emitted[Len(emitted)] =
      {i \in DOMAIN problem.softs : \E q \in Range(problem.softs[i]) : TrueIn(model, q)}

Promise ==
  INSTANCE MssPromise WITH
    Softs     <- 1..Max({Len(p.softs) : p \in MssProblems}),
    MaxCounts <- {p.max : p \in MssProblems},
    max       <- problem.max,
    stopped   <- mustStopEnum,
    finished  <- (at = "done")

\* Over the engine with its kept levels, its learnt clauses and its forgetting,
\* the enumeration gives each maximal satisfiable set once, and ends.
KeepsPromise == Promise!Spec
=============================================================================
