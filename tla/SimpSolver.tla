----------------------------- MODULE SimpSolver -----------------------------
(***************************************************************************)
(* SimpSolver, the preprocessor that MiniSat and Glucose put before their  *)
(* search: it removes subsumed clauses, strengthens others, eliminates     *)
(* variables by resolution, and completes the models that are found        *)
(* afterwards.  The two copies differ in the order in which old clauses go *)
(* and new ones come, and in the value of a variable without one.          *)
(*                                                                         *)
(* The engine below comes as operators on the solver object (Solver_...);  *)
(* its object has more fields here.  A method that fails leaves ok FALSE,  *)
(* as its callers do.  The loop of eliminate is one action for each of its *)
(* stages, the subsumption check one for each clause of the queue; an      *)
(* interrupt may come between any two.                                     *)
(***************************************************************************)
EXTENDS Cdcl

Cnf == INSTANCE Cnf

CONSTANTS
  SimpProblems,
    \* bound: the problems, as records [nVars, grow, clause_lim, sub_lim, asymm,
    \* rcheck, elim, program, interrupts, max, restarts, reductions]: the options
    \* of the module, a sequence of calls, and whether an interrupt may come
  isGlucose,        \* the copy in glucose/
  EngineSolver,     \* the object below
  Solver_newVar(_), Solver_addClause(_, _), Solver_propagate(_),
  Solver_attachClause(_, _), Solver_detachClause(_, _), Solver_removeClause(_, _),
  Solver_satisfied(_, _), Solver_simplified(_), Solver_garbageCollect(_)

VARIABLES
  solver,
  phase, confl, conflictC, restarts, reductions, result,    \* of the search
  problem,
  given,            \* history: all the clauses that were added
  step,             \* the calls of the program that are over
  at,               \* where the call is
  resume,           \* where it goes after the subsumption check
  elim,             \* the variable that left the heap, and whether it was frozen
  extra_frozen,     \* the assumptions that solve has frozen
  interrupted,      \* asynch_interrupt: nothing calls clearInterrupt
  answer            \* of the last call of solve

searching == <<phase, confl, conflictC, restarts, reductions, result>>
calls     == <<problem, given, step>>
simpOnly  == <<resume, elim, extra_frozen, interrupted, answer>>
simpVars  == <<solver, searching, calls, at, simpOnly>>

SimpObject ==
  EngineSolver @@
  [use_simplification |-> TRUE,
   frozen         |-> {},
   eliminated     |-> {},
   n_occ          |-> << >>,    \* the occurrences of each literal
   touched        |-> {},       \* variables with a new clause
   elim_heap      |-> << >>,
   bwdsub_assigns |-> 0,        \* what is checked of the trail
   elimclauses    |-> << >>]    \* [lit, others]: lit is made true if all of others are false

----------------------------------------------------------------------------
(* Heap<Comp>, the binary heap that the two engines share: a minimum heap  *)
(* of integers ordered by a cost which changes while they are in it.  The  *)
(* vector is a sequence without repetition; the places of its elements     *)
(* (indices) follow from it.                                               *)

left(i)   == 2 * i
right(i)  == 2 * i + 1
parent(i) == i \div 2

Exchanged(heap, i, k) == [heap EXCEPT ![i] = heap[k], ![k] = heap[i]]

RECURSIVE percolateUp(_, _, _)
percolateUp(heap, i, costs) ==
  IF i = 1 \/ costs[heap[i]] >= costs[heap[parent(i)]] THEN heap
  ELSE percolateUp(Exchanged(heap, i, parent(i)), parent(i), costs)

\* The child that may go up.
SmallerChild(heap, i, costs) ==
  IF right(i) <= Len(heap) /\ costs[heap[right(i)]] < costs[heap[left(i)]]
    THEN right(i) ELSE left(i)

RECURSIVE percolateDown(_, _, _)
percolateDown(heap, i, costs) ==
  LET child == SmallerChild(heap, i, costs)
  IN  IF left(i) > Len(heap) \/ costs[heap[child]] >= costs[heap[i]] THEN heap
      ELSE percolateDown(Exchanged(heap, i, child), child, costs)

inHeap(heap, n) == Contains(heap, n)

Index(heap, n) == CHOOSE i \in DOMAIN heap : heap[i] = n

insert(heap, n, costs) == percolateUp(Append(heap, n), Len(heap) + 1, costs)

increase(heap, n, costs) == percolateDown(heap, Index(heap, n), costs)

\* The cost of n may have changed either way.
update(heap, n, costs) ==
  IF ~inHeap(heap, n) THEN insert(heap, n, costs)
  ELSE LET up == percolateUp(heap, Index(heap, n), costs)
       IN  percolateDown(up, Index(up, n), costs)

\* What is left without the first element.
removeMin(heap, costs) ==
  IF Len(heap) = 1 THEN << >>
  ELSE percolateDown([Front(heap) EXCEPT ![1] = Last(heap)], 1, costs)

\* No element costs less than its parent.
Ordered(heap, costs) == \A i \in 2..Len(heap) : costs[heap[parent(i)]] <= costs[heap[i]]

----------------------------------------------------------------------------
(* Occurrences, and the heap of the variables to eliminate *)

\* ElimLt
cost(s) == [v \in 1..s.nVars |-> s.n_occ[v] * s.n_occ[-v]]

updateElimHeap(s, v) ==
  IF Contains(s.elim_heap, v) \/ (v \notin s.frozen \cup s.eliminated /\ IsUndef(s, v))
    THEN [s EXCEPT !.elim_heap = update(@, v, cost(s))] ELSE s

setFrozen(s, v, b) ==
  LET t == [s EXCEPT !.frozen = IF b THEN @ \cup {v} ELSE @ \ {v}]
  IN  IF s.use_simplification /\ ~b THEN updateElimHeap(t, v) ELSE t

newVar(s) ==
  LET t == Solver_newVar(s)
      v == t.nVars
      u == [t EXCEPT !.n_occ = [p \in Literals(v) |-> IF Var(p) = v THEN 0 ELSE @[p]],
                     !.occurs = Append(@, << >>)]
  IN  [u EXCEPT !.elim_heap = insert(@, v, cost(u))]

\* OccLists::lookup: the removed clauses leave the list.
Looked(s, v) == [s EXCEPT !.occurs[v] = SelectSeq(@, LAMBDA cr : s.ca[cr] # << >>)]

CleanedUp(s) ==
  [s EXCEPT !.occurs = [v \in DOMAIN @ |-> SelectSeq(@[v], LAMBDA cr : s.ca[cr] # << >>)]]

----------------------------------------------------------------------------
(* Clauses come and go *)

removeClause(s, cr) ==
  LET Less(t, p) == updateElimHeap([t EXCEPT !.n_occ[p] = @ - 1], Var(p))
  IN  Solver_removeClause(FoldLeft(Less, s, s.ca[cr]), cr)

\* With the negated literals assumed, propagation fails; the trail comes back.
implied(s, c) ==
  LET open     == {p \in c : IsUndef(s, p)}
      t        == FoldLeft(LAMBDA u, p : uncheckedEnqueue(u, -p, CRef_Undef),
                           newDecisionLevel(s), Sorted(open))
      After(r) == [s |-> cancelUntil(r.s, 0), is |-> r.confl # CRef_Undef]
  IN  IF \E p \in c : IsTrue(s, p) \/ -p \in c THEN [s |-> s, is |-> FALSE]
      ELSE After(Solver_propagate(t))

\* The new clause cr, in the lists of its variables.
Recorded(s, cr) ==
  LET Occurs(t, p) ==
        [t EXCEPT !.occurs[Var(p)] = Append(@, cr),
                  !.n_occ[p] = @ + 1,
                  !.touched = @ \cup {Var(p)}]
      Later(t, v) == IF Contains(t.elim_heap, v)
                       THEN [t EXCEPT !.elim_heap = increase(@, v, cost(t))] ELSE t
  IN  FoldLeft(LAMBDA t, p : Later(Occurs(t, p), Var(p)),
               [s EXCEPT !.subsumption_queue = Append(@, cr)], s.ca[cr])

addClause(s, c) ==
  LET Added(t, u) ==
        IF t.use_simplification /\ Len(u.ca) = Len(t.ca) + 1 THEN Recorded(u, Len(u.ca)) ELSE u
      Checked(r)  == IF r.is THEN r.s ELSE Added(r.s, Solver_addClause(r.s, c))
  IN  IF problem.rcheck THEN Checked(implied(s, c)) ELSE Added(s, Solver_addClause(s, c))

\* enqueue and propagate, at level 0
Enqueued(s, p) ==
  LET Settled(r) == [r.s EXCEPT !.ok = r.confl = CRef_Undef]
  IN  IF IsFalse(s, p) THEN [s EXCEPT !.ok = FALSE]
      ELSE Settled(Solver_propagate(IF IsTrue(s, p) THEN s ELSE uncheckedEnqueue(s, p, CRef_Undef)))

\* The clause cr without its literal l is c, of more than one literal.
Replaced(s, cr, l, c) ==
  LET t == Solver_attachClause([Solver_detachClause(s, cr) EXCEPT !.ca[cr] = c], cr)
  IN  updateElimHeap([t EXCEPT !.occurs[Var(l)] = Remove(@, cr), !.n_occ[l] = @ - 1], Var(l))

\* Mutant: the shorter clause is not compared with the others.
strengthenQuietly(s, cr, l) ==
  LET c == SelectSeq(s.ca[cr], LAMBDA p : p # l)
  IN  IF Len(c) = 1 THEN Enqueued(removeClause(s, cr), c[1]) ELSE Replaced(s, cr, l, c)

strengthenClause(s, cr, l) ==
  LET c == SelectSeq(s.ca[cr], LAMBDA p : p # l)
      t == [s EXCEPT !.subsumption_queue = Append(@, cr)]
  IN  IF Len(c) = 1 THEN Enqueued(removeClause(t, cr), c[1]) ELSE Replaced(t, cr, l, c)

----------------------------------------------------------------------------
(* Subsumption *)

\* The clauses of the touched variables go to the queue, unless they are there.
gatherTouchedClauses(s) ==
  LET Fresh(t, v) ==
        SelectSeq(t.occurs[v], LAMBDA cr : ~Contains(t.subsumption_queue, cr))
      Gather(t, v) ==
        LET u == Looked(t, v)
        IN  IF v \in s.touched
              THEN [u EXCEPT !.subsumption_queue = @ \o Fresh(u, v)] ELSE t
  IN  [FoldLeft(Gather, s, [v \in 1..s.nVars |-> v]) EXCEPT !.touched = {}]

\* Clause::subsumes, with the literals of c that d lacks: none, or one which d
\* has negated.
Comparable(c, d) ==
  LET missing == Range(c) \ Range(d)
  IN  /\ Len(c) <= Len(d)
      /\ missing = {} \/ \E l \in missing : missing = {l} /\ -l \in Range(d)

WithinLimit(d) == problem.sub_lim = -1 \/ Len(d) < problem.sub_lim

\* The variable of c with the shortest list, removed clauses included.
Best(s, c) ==
  LET least == CHOOSE k \in DOMAIN c :
                 \A j \in DOMAIN c :
                   \/ Len(s.occurs[Var(c[k])]) < Len(s.occurs[Var(c[j])])
                   \/ Len(s.occurs[Var(c[k])]) = Len(s.occurs[Var(c[j])]) /\ k <= j
  IN  Var(c[least])

\* The clause cr, which is c (a literal of the trail has no reference), against
\* the j-th of the list of best and those that follow.  A clause that has lost
\* its literal of best has left the list: the next one is at its place.
RECURSIVE Scanned(_, _, _, _, _)
Scanned(s, cr, c, best, j) ==
  LET d    == s.occurs[best][j]
      miss == Range(c) \ Range(s.ca[d])
      l    == CHOOSE l \in miss : TRUE
  IN  IF ~s.ok \/ j > Len(s.occurs[best]) \/ (cr # CRef_Undef /\ s.ca[cr] = << >>) THEN s
      ELSE IF d = cr \/ s.ca[d] = << >> \/ ~WithinLimit(s.ca[d]) \/ ~Comparable(c, s.ca[d])
        THEN Scanned(s, cr, c, best, j + 1)
      ELSE IF miss = {} THEN Scanned(removeClause(s, d), cr, c, best, j + 1)
      ELSE Scanned(strengthenClause(s, d, -l), cr, c, best, IF Var(l) = best THEN j ELSE j + 1)

ComparedAll(s, cr, c) ==
  LET best == Best(s, c) IN Scanned(Looked(s, best), cr, c, best, 1)

\* One turn of backwardSubsumptionCheck.
Compared(s) ==
  LET cr == Head(s.subsumption_queue)
      t  == [s EXCEPT !.subsumption_queue = Tail(@)]
  IN  IF s.subsumption_queue = << >>
        THEN ComparedAll([s EXCEPT !.bwdsub_assigns = @ + 1], CRef_Undef,
                         <<s.trail[s.bwdsub_assigns + 1].lit>>)
      ELSE IF s.ca[cr] = << >> THEN t
      ELSE ComparedAll(t, cr, s.ca[cr])

ToCompare(s) == s.subsumption_queue # << >> \/ s.bwdsub_assigns < Len(s.trail)

----------------------------------------------------------------------------
(* Asymmetric branching *)

\* If the other literals of cr cannot all be false, the one of v goes, or one that
\* is false.  A literal that is true is negated as the open ones are, if the
\* engine does not find the clause satisfied; going back then leaves it without a
\* value, but in the trail.
asymm(s, v, cr) ==
  LET c        == s.ca[cr]
      Other(p) == Var(p) # v /\ ~IsFalse(s, p)
      l        == Last(SelectSeq(c, LAMBDA p : ~Other(p)))
      t        == FoldLeft(LAMBDA u, p : uncheckedEnqueue(u, -p, CRef_Undef),
                           newDecisionLevel(s), SelectSeq(c, Other))
      After(r) == LET u == cancelUntil(r.s, 0)
                  IN  IF r.confl # CRef_Undef THEN strengthenClause(u, cr, l) ELSE u
  IN  IF c = << >> \/ Solver_satisfied(s, cr) THEN s ELSE After(Solver_propagate(t))

\* From the i-th clause of the list of v, which changes on the way.
RECURSIVE asymmFrom(_, _, _)
asymmFrom(s, v, i) ==
  IF ~s.ok \/ i > Len(s.occurs[v]) THEN s
  ELSE asymmFrom(asymm(s, v, s.occurs[v][i]), v, i + 1)

----------------------------------------------------------------------------
(* Variable elimination *)

Tautology(L) == \E p \in L : -p \in L

\* merge
Resolvent(c, d, v) == {p \in c \cup d : Var(p) # v}

\* The clauses of v with this literal of it, in the order of the list.
ClausesWith(s, v, p) ==
  LET crs == SelectSeq(s.occurs[v], LAMBDA cr : s.ca[cr] # << >> /\ p \in Range(s.ca[cr]))
  IN  [k \in DOMAIN crs |-> s.ca[crs[k]]]

\* The resolvents that are no tautologies.
Resolvents(s, v) ==
  LET pos == ClausesWith(s, v, v)
      neg == ClausesWith(s, v, -v)
      All(c) == FoldLeft(LAMBDA rs, d : Append(rs, Resolvent(Range(c), Range(d), v)), << >>, neg)
  IN  SelectSeq(FoldLeft(LAMBDA rs, c : rs \o All(c), << >>, pos), LAMBDA r : ~Tautology(r))

\* Neither too many of them, nor too long.
WorthEliminating(s, v) ==
  LET rs == Resolvents(s, v)
  IN  /\ Len(rs) <= Len(ClausesWith(s, v, v)) + Len(ClausesWith(s, v, -v)) + problem.grow
      /\ \A k \in DOMAIN rs : problem.clause_lim = -1 \/ Cardinality(rs[k]) <= problem.clause_lim

\* mkElimClause
Stored(p, c) == [lit |-> p, others |-> Range(c) \ {p}]

\* The clauses of the rarer literal, and its negation for when they are satisfied.
elimClausesOf(s, v) ==
  LET pos == ClausesWith(s, v, v)
      neg == ClausesWith(s, v, -v)
      p   == IF Len(pos) > Len(neg) THEN -v ELSE v
  IN  [k \in 1..Len(ClausesWith(s, v, p)) |-> Stored(p, ClausesWith(s, v, p)[k])]
      \o <<[lit |-> -p, others |-> {}]>>

AddedAll(s, cs) == FoldLeft(LAMBDA t, c : IF t.ok THEN addClause(t, c) ELSE t, s, cs)

RemovedEach(s, crs) == FoldLeft(removeClause, s, crs)

\* setDecisionVar(v, false) included.
MarkedEliminated(s, v) ==
  [s EXCEPT !.eliminated = @ \cup {v}, !.decision = @ \ {v}]

\* New clauses cs for the old ones crs; Glucose adds before it removes, and removes
\* nothing if it fails.
Exchange(s, crs, cs) ==
  LET added == AddedAll(s, cs)
  IN  IF ~isGlucose THEN AddedAll(RemovedEach(s, crs), cs)
      ELSE IF added.ok THEN RemovedEach(added, crs) ELSE added

\* eliminateVar, before the subsumption check
Eliminated(s, v) ==
  LET t == [MarkedEliminated(s, v) EXCEPT !.elimclauses = @ \o elimClausesOf(s, v)]
      u == Exchange(t, s.occurs[v], Resolvents(s, v))
  IN  IF u.ok THEN [u EXCEPT !.occurs[v] = << >>] ELSE u

\* substitute: x for v in the clauses of v, one after the other.
substitute(s, v, x) ==
  LET t         == Looked(s, v)
      Image(p)  == IF p = v THEN x ELSE IF p = -v THEN -x ELSE p
      One(u, cr) ==
        IF u.ok THEN Exchange(u, <<cr>>, <<{Image(p) : p \in Range(u.ca[cr])}>>) ELSE u
  IN  FoldLeft(One, MarkedEliminated(t, v), t.occurs[v])

----------------------------------------------------------------------------
(* Models *)

\* The model T with values for the eliminated variables; Glucose leaves those of
\* the others, which were substituted, undefined.
extendModel(s, T) ==
  LET IsFalseIn(m, p) == Var(p) \notin m.undefined /\ (p > 0 <=> Var(p) \notin m.T)
      Back(e, m) ==
        IF \E p \in e.others : ~IsFalseIn(m, p) THEN m
        ELSE [T |-> IF e.lit > 0 THEN m.T \cup {e.lit} ELSE m.T \ {-e.lit},
              undefined |-> m.undefined \ {Var(e.lit)}]
  IN  FoldRight(Back, s.elimclauses,
                [T |-> T, undefined |-> IF isGlucose THEN s.eliminated ELSE {}]).T

----------------------------------------------------------------------------
(* eliminate *)

Fresh == FoldLeft(LAMBDA s, k : newVar(s), SimpObject, [k \in 1..problem.nVars |-> k])

\* The constructor of Minisat::Solver leaves nbInitVariable as it is.
SimpInit ==
  /\ problem \in SimpProblems
  /\ solver \in IF isGlucose THEN {Fresh}
                ELSE {[Fresh EXCEPT !.nbInitVariable = n] : n \in {0, problem.nVars}}
  /\ phase = "idle" /\ confl = CRef_Undef /\ conflictC = FALSE /\ result = FALSE
  /\ restarts = problem.restarts /\ reductions = problem.reductions
  /\ given = {}
  /\ step = 0
  /\ at = "ready"
  /\ resume = "ready"
  /\ elim = [var |-> 0, was_frozen |-> FALSE]
  /\ extra_frozen = {}
  /\ interrupted = FALSE
  /\ answer = "none"

Returned(place) == at = place /\ phase = "idle"

CurrentCall == problem.program[step + 1]

Goto(place) == at' = place

\* checkGarbage, in this module and below: whether enough is wasted depends on sizes.
GarbageChecked(s) == {s, Solver_garbageCollect(CleanedUp(s))}

\* simplify: whether the learnt clauses are looked at depends on counters.
Simplify ==
  /\ Returned("simplify")
  /\ \E r \in IF solver.ok THEN {Solver_propagate(solver)} ELSE {[s |-> solver, confl |-> CRef_Undef]} :
       IF r.s.ok /\ r.confl = CRef_Undef
         THEN /\ solver' \in {r.s} \cup GarbageChecked(Solver_simplified(r.s))
              /\ Goto(IF solver.use_simplification THEN "head" ELSE "simplified")
         ELSE solver' = [r.s EXCEPT !.ok = FALSE] /\ Goto("simplified")
  /\ UNCHANGED <<searching, calls, simpOnly>>

MoreToDo(s) == s.touched # {} \/ s.bwdsub_assigns < Len(s.trail) \/ s.elim_heap # << >>

Gather ==
  /\ Returned("head")
  /\ IF MoreToDo(solver)
       THEN /\ solver' = gatherTouchedClauses(solver)
            /\ Goto("subsume")
            /\ resume' = "checked"
       ELSE Goto("cleanup") /\ UNCHANGED <<solver, resume>>
  /\ UNCHANGED <<searching, calls, elim, extra_frozen, interrupted, answer>>

\* backwardSubsumptionCheck, which an interrupt empties.
Subsume ==
  /\ Returned("subsume")
  /\ ToCompare(solver)
  /\ solver' = IF interrupted
                 THEN [solver EXCEPT !.subsumption_queue = << >>, !.bwdsub_assigns = Len(solver.trail)]
                 ELSE Compared(solver)
  /\ Goto(IF solver'.ok THEN "subsume" ELSE "cleanup")
  /\ UNCHANGED <<searching, calls, simpOnly>>

Subsumed ==
  /\ Returned("subsume")
  /\ ~ToCompare(solver)
  /\ Goto(resume)
  /\ UNCHANGED <<solver, searching, calls, simpOnly>>

CheckDone ==
  /\ Returned("checked")
  /\ IF interrupted THEN solver' = [solver EXCEPT !.elim_heap = << >>] /\ Goto("cleanup")
                    ELSE Goto("pick") /\ UNCHANGED solver
  /\ UNCHANGED <<searching, calls, simpOnly>>

\* The variable of the smallest cost leaves the heap; asymmVar freezes it for a
\* while, for it would come back at once.
Pick ==
  /\ Returned("pick")
  /\ solver.elim_heap # << >>
  /\ LET v == Head(solver.elim_heap)
         s == [solver EXCEPT !.elim_heap = removeMin(@, cost(solver))]
         t == Looked([s EXCEPT !.frozen = @ \cup {v}], v)
     IN  IF interrupted
           THEN solver' = s /\ Goto("head") /\ UNCHANGED <<resume, elim>>
         ELSE IF v \in s.eliminated \/ ~IsUndef(s, v)
           THEN solver' = s /\ Goto("pick") /\ UNCHANGED <<resume, elim>>
         ELSE /\ elim' = [var |-> v, was_frozen |-> v \in s.frozen]
              /\ IF problem.asymm
                   THEN /\ solver' = asymmFrom(t, v, 1)
                        /\ Goto(IF ~solver'.ok THEN "cleanup"
                                ELSE IF t.occurs[v] = << >> THEN "thaw" ELSE "subsume")
                        /\ resume' = "thaw"
                   ELSE solver' = s /\ Goto("var") /\ UNCHANGED resume
  /\ UNCHANGED <<searching, calls, extra_frozen, interrupted, answer>>

Thaw ==
  /\ Returned("thaw")
  /\ solver' = IF elim.was_frozen THEN solver
               ELSE [solver EXCEPT !.frozen = @ \ {elim.var}]
  /\ Goto("var")
  /\ UNCHANGED <<searching, calls, simpOnly>>

HeapEmpty ==
  /\ Returned("pick")
  /\ solver.elim_heap = << >>
  /\ Goto("head")
  /\ UNCHANGED <<solver, searching, calls, simpOnly>>

EliminateVar ==
  /\ Returned("var")
  /\ LET v == elim.var
         s == Looked(solver, v)
     IN  IF ~problem.elim \/ ~IsUndef(solver, v) \/ v \in solver.frozen
           THEN Goto("collect") /\ UNCHANGED <<solver, resume>>
         ELSE IF ~WorthEliminating(s, v)
           THEN solver' = s /\ Goto("collect") /\ UNCHANGED resume
         ELSE /\ solver' = Eliminated(s, v)
              /\ Goto(IF solver'.ok THEN "subsume" ELSE "cleanup")
              /\ resume' = "collect"
  /\ UNCHANGED <<searching, calls, elim, extra_frozen, interrupted, answer>>

Collect ==
  /\ Returned("collect")
  /\ solver' \in GarbageChecked(solver)
  /\ Goto("pick")
  /\ UNCHANGED <<searching, calls, simpOnly>>

\* Without further use the lists are freed.
TurnedOff(s) ==
  Solver_garbageCollect(rebuildOrderHeap(
    [s EXCEPT !.touched = {}, !.occurs = << >>, !.n_occ = << >>, !.elim_heap = << >>,
              !.subsumption_queue = << >>, !.use_simplification = FALSE]))

CleanUp ==
  /\ Returned("cleanup")
  /\ IF CurrentCall.off THEN solver' = TurnedOff(solver)
                        ELSE solver' \in GarbageChecked(CleanedUp(solver))
  /\ Goto("simplified")
  /\ UNCHANGED <<searching, calls, simpOnly>>

----------------------------------------------------------------------------
(* The calls of the program *)

Asked(op) ==
  /\ Returned("ready")
  /\ step < Len(problem.program)
  /\ CurrentCall.op = op

Over == step' = step + 1 /\ Goto("ready") /\ UNCHANGED problem

\* The code asserts that no variable of a call was eliminated: such a call is not
\* made.
Allowed(vars) == vars \cap solver.eliminated = {}

Skip ==
  /\ Returned("ready")
  /\ step < Len(problem.program)
  /\ ~Allowed(CurrentCall.vars)
  /\ Over
  /\ UNCHANGED <<solver, searching, given, simpOnly>>

AddClause ==
  /\ Asked("add")
  /\ Allowed(CurrentCall.vars)
  /\ solver' = addClause(solver, CurrentCall.clause)
  /\ given' = given \cup {CurrentCall.clause}
  /\ Over
  /\ UNCHANGED <<searching, simpOnly>>

SetFrozen ==
  /\ Asked("frozen")
  /\ Allowed(CurrentCall.vars)
  /\ solver' = setFrozen(solver, CurrentCall.var, CurrentCall.on)
  /\ Over
  /\ UNCHANGED <<searching, given, simpOnly>>

Substitution(c, v, x) == {IF p = v THEN x ELSE IF p = -v THEN -x ELSE p : p \in c}

\* Of a variable without a value that is not frozen.
Substitute ==
  /\ Asked("substitute")
  /\ Allowed(CurrentCall.vars)
  /\ LET v == CurrentCall.var
     IN  IF IsUndef(solver, v) /\ v \notin solver.frozen /\ solver.ok /\ solver.use_simplification
           THEN /\ solver' = substitute(solver, v, CurrentCall.by)
                /\ given' = {Substitution(c, v, CurrentCall.by) : c \in given}
           ELSE UNCHANGED <<solver, given>>
  /\ Over
  /\ UNCHANGED <<searching, simpOnly>>

Eliminate ==
  /\ Asked("eliminate")
  /\ Goto("simplify")
  /\ UNCHANGED <<solver, searching, calls, simpOnly>>

EliminateOver ==
  /\ Returned("simplified")
  /\ CurrentCall.op = "eliminate"
  /\ Over
  /\ UNCHANGED <<solver, searching, given, simpOnly>>

\* solve_: the assumptions are frozen for the time of the call.
Solve ==
  /\ Asked("solve")
  /\ Allowed(CurrentCall.vars)
  /\ IF CurrentCall.simp /\ solver.use_simplification
       THEN /\ extra_frozen' = Vars(Range(CurrentCall.assumps)) \ solver.frozen
            /\ solver' = [solver EXCEPT !.assumptions = CurrentCall.assumps,
                                        !.frozen = @ \cup extra_frozen']
            /\ Goto("simplify")
       ELSE /\ extra_frozen' = {}
            /\ solver' = [solver EXCEPT !.assumptions = CurrentCall.assumps]
            /\ Goto("search")
  /\ UNCHANGED <<searching, calls, resume, elim, interrupted, answer>>

\* Those that were frozen for the call go back to the heap.
Unfrozen(s) ==
  FoldLeft(LAMBDA t, p : IF Var(p) \in extra_frozen \cap t.frozen
                           THEN setFrozen(t, Var(p), FALSE) ELSE t,
           s, s.assumptions)

\* Solver::solve_ comes next, unless eliminate has failed; the old model stays.
SimplifiedForSolve ==
  /\ Returned("simplified")
  /\ CurrentCall.op = "solve"
  /\ IF solver.ok
       THEN Goto("search") /\ UNCHANGED <<solver, step, problem, answer>>
       ELSE solver' = Unfrozen(solver) /\ answer' = "UNSAT" /\ Over
  /\ UNCHANGED <<searching, given, resume, elim, extra_frozen, interrupted>>

SearchOver ==
  /\ at \in {"searched", "unknown"} /\ phase = "idle"
  /\ answer' = IF result THEN "SAT" ELSE IF at = "unknown" THEN "UNKNOWN" ELSE "UNSAT"
  /\ solver' = Unfrozen(IF result THEN [solver EXCEPT !.model = extendModel(solver, @)]
                                  ELSE solver)
  /\ Over
  /\ UNCHANGED <<searching, given, resume, elim, extra_frozen, interrupted>>

Finish ==
  /\ Returned("ready")
  /\ step = Len(problem.program)
  /\ Goto("done")
  /\ UNCHANGED <<solver, searching, calls, simpOnly>>

Interrupt ==
  /\ problem.interrupts
  /\ ~interrupted
  /\ at # "done"
  /\ interrupted' = TRUE
  /\ UNCHANGED <<solver, searching, calls, at, resume, elim, extra_frozen, answer>>

\* All but the search, which MCEngines starts at "search" and which ends at
\* "searched", or at "unknown" after an interrupt.
SimpNext ==
  \/ Simplify
  \/ Gather
  \/ Subsume
  \/ Subsumed
  \/ CheckDone
  \/ Pick
  \/ Thaw
  \/ HeapEmpty
  \/ EliminateVar
  \/ Collect
  \/ CleanUp
  \/ Skip
  \/ AddClause
  \/ SetFrozen
  \/ Substitute
  \/ Eliminate
  \/ EliminateOver
  \/ Solve
  \/ SimplifiedForSolve
  \/ SearchOver
  \/ Finish
  \/ Interrupt

----------------------------------------------------------------------------
(* What must hold of the simplifier *)

\* The clauses that were not learnt.
Originals(s) == CRefs(s) \ s.learnts

\* The list of each variable has the clauses it occurs in, once each, the
\* occurrences are those of the clauses, and the heap is ordered by them.
ListsOK(s) ==
  s.ok /\ s.use_simplification =>
    /\ \A v \in 1..s.nVars :
         LET crs == Looked(s, v).occurs[v]
         IN  /\ Range(crs) = {cr \in Originals(s) : v \in Vars(Range(s.ca[cr]))}
             /\ Cardinality(Range(crs)) = Len(crs)
    /\ \A p \in Literals(s.nVars) :
         s.n_occ[p] = Cardinality({cr \in Originals(s) : p \in Range(s.ca[cr])})
    /\ Ordered(s.elim_heap, cost(s))

\* The models of F, without the eliminated variables.
OnKept(F) == {T \ solver.eliminated : T \in Cnf!FullModels(F, {}, problem.nVars)}

\* The clauses that are left allow what the clauses that were given allow.
SameModels == phase = "idle" => OnKept(Known(solver)) = OnKept(given)

LastCall == problem.program[step]

\* A substituted variable is stored nowhere, and the model need not be right for
\* the variables that went before it.
HasSubstituted == \E k \in 1..step : problem.program[k].op = "substitute"

\* After solve: its answer is that of the clauses that were given, and the model
\* satisfies them, those of the eliminated variables included.
SolveRight ==
  Returned("ready") /\ step > 0 /\ LastCall.op = "solve" /\ Allowed(LastCall.vars) =>
    LET models == Cnf!FullModels(given, Range(LastCall.assumps), problem.nVars)
    IN  CASE answer = "UNSAT" -> models = {}
          [] answer = "SAT" ->
               IF HasSubstituted
                 THEN \E T \in models : T \ solver.eliminated = solver.model \ solver.eliminated
                 ELSE solver.model \in models
          [] answer = "UNKNOWN" -> interrupted

\* The first preprocessing tries each variable whenever one of its clauses goes; a
\* clause that is added later does not bring its variables back to the heap, nor
\* does a shorter clause, which may count when the resolvents are limited.
TriesAll ==
  /\ problem.elim
  /\ problem.clause_lim \notin 0..problem.nVars
  /\ \A k \in 1..step : problem.program[k].op \notin {"eliminate", "solve"}

\* When eliminate has gone through: no clause is subsumed or could be
\* strengthened by another or by a value, and no variable could still go.
Exhausted ==
  Returned("cleanup") /\ solver.ok /\ ~interrupted =>
    /\ \A cr \in Originals(solver) :
         WithinLimit(solver.ca[cr]) =>
           /\ \A p \in Range(solver.ca[cr]) : IsUndef(solver, p)
           /\ \A d \in Originals(solver) \ {cr} : ~Comparable(solver.ca[d], solver.ca[cr])
    /\ TriesAll =>
         \A v \in (1..solver.nVars) \ (solver.frozen \cup solver.eliminated) :
           IsUndef(solver, v) => ~WorthEliminating(solver, v)
=============================================================================
