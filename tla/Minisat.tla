------------------------------- MODULE Minisat -------------------------------
(***************************************************************************)
(* Minisat::Solver, the engine of the MSS extractor: the clauses go in,    *)
(* solve_ searches under the assumptions and keeps the first levels for    *)
(* the next call (limitRestart).                                           *)
(*                                                                         *)
(* The loop of search is two actions: Propagate, then what the result      *)
(* calls for.  When it restarts and what it forgets depend on activities   *)
(* and counters: both may happen whenever the code can get there.          *)
(***************************************************************************)
EXTENDS Cdcl

VARIABLES
  solver,           \* the Minisat::Solver
  phase,            \* "idle", "propagate" or "handle"
  confl,            \* what propagate returned
  limitRestart,
  conflictC,        \* has this search met a conflict?
  restarts,         \* bound: the restarts that may still come,
  reductions,       \* and the reductions of the learnt clauses
  result            \* of the last call

search  == <<limitRestart, conflictC, restarts, reductions>>
engine  == <<solver, phase, confl, search, result>>

MinisatSolver == NewSolver @@ [nbInitVariable |-> 0, deact_selector |-> FALSE]

EngineInit(s) ==
  /\ solver = s
  /\ phase = "idle"
  /\ confl = CRef_Undef
  /\ limitRestart = 0
  /\ conflictC = FALSE
  /\ result = FALSE

----------------------------------------------------------------------------
(* propagate *)

\* After a conflict nothing is left to propagate.
Emptied(v) == [v EXCEPT !.s.qhead = Len(v.s.trail)]

RECURSIVE propagate(_)
propagate(s) ==
  LET Goes(v) == IF v.confl = CRef_Undef THEN propagate(v.s) ELSE Emptied(v)
  IN  IF s.qhead = Len(s.trail) THEN [s |-> s, confl |-> CRef_Undef]
      ELSE Goes(VisitAll([s EXCEPT !.qhead = @ + 1], s.trail[s.qhead + 1].lit))

\* Propagated at level 0; ok tells whether that worked.
Settled(s) ==
  LET Outcome(r) == [r.s EXCEPT !.ok = (r.confl = CRef_Undef)]
  IN  Outcome(propagate(s))

\* addClause_; c is a set of literals.
addClause(s, c) ==
  LET ps == {p \in c : ~IsFalse(s, p)}
      p  == CHOOSE p \in ps : TRUE
      t  == Alloc(s, Sorted(ps))
  IN  IF ~s.ok \/ \E q \in c : IsTrue(s, q) \/ -q \in c THEN s
      ELSE IF ps = {} THEN [s EXCEPT !.ok = FALSE]
      ELSE IF Cardinality(ps) = 1
        THEN Settled(uncheckedEnqueue([s EXCEPT !.unitLits = Append(@, p)], p, CRef_Undef))
      ELSE Watched(t, Len(t.ca))

useAsCompleteSolver(s) ==
  LET Propagated(t) == IF t.ok THEN Settled(t) ELSE t
  IN  Propagated(UnitsEnqueued(s, s.unitLits))

----------------------------------------------------------------------------
(* Removing clauses *)

detachClause(s, cr) == [s EXCEPT !.watches = Unwatched(@, cr)]

removeClause(s, cr) ==
  LET t == [detachClause(s, cr) EXCEPT !.ca[cr] = << >>,
                                       !.learnts = @ \ {cr}]
  IN  IF locked(s, cr)
        THEN [t EXCEPT !.trail[Place(s, Var(s.ca[cr][1]))].reason = CRef_Undef]
        ELSE t

RemovedAll(s, crs) == FoldSet(LAMBDA cr, t : removeClause(t, cr), s, crs)

\* restartUntil: the trail is cut to its first v literals, and nothing learnt
\* remains.
restartUntil(s, v) ==
  LET t    == cancelUntil(s, 0)
      kept == SubSeq(t.trail, 1, v)
      u    == [t EXCEPT !.trail = kept,
                        !.assigns = Lits(kept),
                        !.qhead = 0,
                        !.order_heap = @ \cup (Vars(t.assigns \ Lits(kept)) \cap s.decision)]
  IN  RemovedAll(u, u.learnts)

----------------------------------------------------------------------------
(* solve_ *)

\* The beginning, up to the call of search; the heap is rebuilt before the
\* levels above the limit are cancelled.
Call(s, assumptions, limit, deact) ==
  LET t    == [rebuildOrderHeap(s) EXCEPT !.assumptions = assumptions,
                                          !.deact_selector = deact,
                                          !.model = {}, !.conflict = {}]
      deaf == ~t.ok \/ t.reallyUnsat
  IN  /\ solver' = IF t.ok THEN cancelUntil(t, limit) ELSE t
      /\ phase' = IF deaf THEN "idle" ELSE "propagate"
      /\ result' = FALSE
      /\ limitRestart' = limit
      /\ conflictC' = FALSE
      /\ UNCHANGED <<restarts, reductions>>
      /\ confl' = CRef_Undef

\* The end: a variable without a value is true in the model.
Return(s, sat) ==
  /\ solver' = cancelUntil(IF sat THEN [s EXCEPT !.model = {v \in 1..s.nVars : ~IsFalse(s, v)}]
                                  ELSE s, limitRestart)
  /\ result' = sat
  /\ phase' = "idle"
  /\ UNCHANGED <<confl, search>>

----------------------------------------------------------------------------
(* search *)

Propagate ==
  /\ phase = "propagate"
  /\ \E r \in {propagate(solver)} : solver' = r.s /\ confl' = r.confl
  /\ phase' = "handle"
  /\ UNCHANGED <<search, result>>

InConflict == phase = "handle" /\ confl # CRef_Undef
NoConflict == phase = "handle" /\ confl = CRef_Undef

RootConflict ==
  /\ InConflict
  /\ decisionLevel(solver) = 0
  /\ Return([solver EXCEPT !.reallyUnsat = TRUE], FALSE)

\* analyze
Learnt(s, cr) == WithHighestSecond(s, Minimized(s, FirstUIP(s, s.ca[cr], {}, << >>)))

\* s is the solver at the level where the learnt clause c is asserting.
Asserting(s, c) ==
  LET t == Alloc(s, c)
  IN  IF Len(c) = 1 THEN uncheckedEnqueue(s, c[1], CRef_Undef)
      ELSE uncheckedEnqueue([Watched(t, Len(t.ca)) EXCEPT !.learnts = @ \cup {Len(t.ca)}],
                            c[1], Len(t.ca))

Backjumped(s, c) == Asserting(cancelUntil(s, btlevel(s, c)), c)

Learn ==
  /\ InConflict
  /\ decisionLevel(solver) > 0
  /\ solver' = Backjumped(solver, Learnt(solver, confl))
  /\ conflictC' = TRUE
  /\ phase' = "propagate"
  /\ UNCHANGED <<confl, limitRestart, restarts, reductions, result>>

\* Enough conflicts in this search: the assumptions are kept.
Restart ==
  /\ NoConflict
  /\ conflictC /\ restarts > 0
  /\ solver' = cancelUntil(solver, Len(solver.assumptions))
  /\ conflictC' = FALSE
  /\ restarts' = restarts - 1
  /\ phase' = "propagate"
  /\ UNCHANGED <<confl, limitRestart, reductions, result>>

\* simplify, at level 0: the satisfied learnt clauses go.
Simplified(s) ==
  rebuildOrderHeap(RemovedAll(s, {cr \in s.learnts : Satisfied(s, cr)}))

\* reduceDB: neither the short clauses nor those that are reasons go.
Removable(s) == {cr \in s.learnts : Len(s.ca[cr]) > 2 /\ ~locked(s, cr)}

\* checkGarbage: whether enough memory is wasted depends on the sizes.
GarbageChecked(s) == {s, Relocated(s)}

Forget ==
  /\ NoConflict
  /\ reductions > 0
  /\ \/ decisionLevel(solver) = 0 /\ solver' \in GarbageChecked(Simplified(solver))
     \/ \E D \in SUBSET Removable(solver) : solver' \in GarbageChecked(RemovedAll(solver, D))
  /\ solver' # solver
  /\ reductions' = reductions - 1
  /\ UNCHANGED <<phase, confl, limitRestart, conflictC, restarts, result>>

\* analyzeFinal: the assumptions that made p true, negated; nothing at level 0,
\* where search adds p itself.
analyzeFinal(s, p) ==
  LET upper == SubSeq(s.trail, s.trail_lim[1] + 1, Len(s.trail))
      Why(e, a) ==
        IF Var(e.lit) \notin a.seen THEN a
        ELSE IF e.reason = CRef_Undef THEN [a EXCEPT !.out = @ \cup {-e.lit}]
        ELSE [a EXCEPT !.seen = @ \cup {Var(q) : q \in Range(s.ca[e.reason])}]
  IN  IF decisionLevel(s) = 0 THEN {p}
      ELSE FoldRight(Why, upper, [seen |-> {Var(p)}, out |-> {p}]).out

AssumptionFails ==
  /\ NoConflict
  /\ LET s == Assumed(solver)
     IN  /\ ~AllAssumed(s)
         /\ IsFalse(s, NextAssumption(s))
         /\ Return([s EXCEPT !.conflict = analyzeFinal(s, -NextAssumption(s))], FALSE)

Assume ==
  /\ NoConflict
  /\ LET s == Assumed(solver)
     IN  /\ ~AllAssumed(s)
         /\ IsUndef(s, NextAssumption(s))
         /\ solver' = Decided(s, NextAssumption(s))
  /\ phase' = "propagate"
  /\ UNCHANGED <<confl, search, result>>

\* pickBranchLit; a selector has the sign that the caller of solve_ wants.
DecisionLit(s, v) ==
  LET positive == IF v > s.nbInitVariable THEN ~s.deact_selector ELSE v \in s.polarity
  IN  IF positive THEN v ELSE -v

Decide ==
  /\ NoConflict
  /\ LET s == Assumed(solver)
     IN  /\ AllAssumed(s)
         /\ \E v \in Branchable(s) : solver' = Decided(Picked(s, v), DecisionLit(s, v))
  /\ phase' = "propagate"
  /\ UNCHANGED <<confl, search, result>>

ModelFound ==
  /\ NoConflict
  /\ LET s == Assumed(solver)
     IN  /\ AllAssumed(s)
         /\ Branchable(s) = {}
         /\ Return([s EXCEPT !.order_heap = {}], TRUE)

\* After interrupt, search returns l_Undef as soon as there is no conflict.
Interrupted == NoConflict /\ Return(solver, FALSE)

Onward ==
  \/ Propagate
  \/ RootConflict
  \/ Learn

SearchStep ==
  \/ Onward
  \/ Restart
  \/ Forget
  \/ AssumptionFails
  \/ Assume
  \/ Decide
  \/ ModelFound

WatchesOK(s) == Attached(s, s.watches, CRefs(s))
=============================================================================
