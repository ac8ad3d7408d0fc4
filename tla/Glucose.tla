------------------------------- MODULE Glucose -------------------------------
(***************************************************************************)
(* Glucose::Solver, the engine of the SAT back end.  It differs from       *)
(* MiniSat by what it keeps: the binary clauses have their own watch       *)
(* lists, propagated first; and nothing of a search is left on the trail   *)
(* but the first level.                                                    *)
(*                                                                         *)
(* It runs in its incremental mode, which is the default and which nothing *)
(* turns off: a restart keeps the levels of the assumptions, learnt        *)
(* clauses are not reduced by binary ones, and a clause counts as          *)
(* satisfied if one of its two watched literals is true.  No variable is a *)
(* selector, for initNbInitialVars is not called: the rest of that mode,   *)
(* in propagate and in computeLBD, does what the other mode does.          *)
(*                                                                         *)
(* As in Minisat, when it restarts and what it forgets may be anything     *)
(* that the guards allow; so are the clauses that their LBD protects.      *)
(***************************************************************************)
EXTENDS Cdcl

VARIABLES
  solver,           \* the Glucose::Solver
  phase,            \* "idle", "propagate" or "handle"
  confl,            \* what propagate returned
  conflictC,        \* has this search met a conflict?
  restarts, reductions,     \* bounds, as in Minisat
  result            \* of the last call

search == <<conflictC, restarts, reductions>>
engine == <<solver, phase, confl, search, result>>

\* phase_saving is 0: every decision is negative.
GlucoseSolver == [NewSolver EXCEPT !.phase_saving = FALSE] @@ [watchesBin |-> << >>]

newVar(s) ==
  LET t == NewVar(s, FALSE)
  IN  [t EXCEPT !.watchesBin =
         [p \in DOMAIN t.watches |-> IF Var(p) = t.nVars THEN << >> ELSE @[p]]]

----------------------------------------------------------------------------
(* Clauses *)

attachClause(s, cr) ==
  LET c == s.ca[cr]
  IN  IF Len(c) = 2
        THEN [s EXCEPT !.watchesBin[-c[1]] = Append(@, Watcher(cr, c[2])),
                       !.watchesBin[-c[2]] = Append(@, Watcher(cr, c[1]))]
        ELSE Watched(s, cr)

detachClause(s, cr) ==
  [s EXCEPT !.watches = Unwatched(@, cr), !.watchesBin = Unwatched(@, cr)]

\* A binary clause may be the reason of its second literal, whose reason is then
\* left behind: only at level 0, where no reason is read.
removeClause(s, cr) ==
  LET t == [detachClause(s, cr) EXCEPT !.ca[cr] = << >>,
                                       !.learnts = @ \ {cr}]
  IN  IF locked(s, cr)
        THEN [t EXCEPT !.trail[Place(s, Var(s.ca[cr][1]))].reason = CRef_Undef]
        ELSE t

RemovedAll(s, crs) == FoldSet(LAMBDA cr, t : removeClause(t, cr), s, crs)

----------------------------------------------------------------------------
(* propagate *)

VisitBinary(a, w) ==
  IF a.confl # CRef_Undef \/ IsTrue(a.s, w.blocker) THEN a
  ELSE IF IsFalse(a.s, w.blocker) THEN [a EXCEPT !.confl = w.cref]
  ELSE [a EXCEPT !.s = uncheckedEnqueue(@, w.blocker, w.cref)]

\* After a conflict nothing is left to propagate.
Emptied(v) == [v EXCEPT !.s.qhead = Len(v.s.trail)]

\* The binary watchers of p first.  Their conflict returns at once: the rest of
\* the trail stays to be propagated.
RECURSIVE propagate(_)
propagate(s) ==
  LET p         == s.trail[s.qhead + 1].lit
      binary    == FoldLeft(VisitBinary,
                            [s |-> [s EXCEPT !.qhead = @ + 1], confl |-> CRef_Undef],
                            s.watchesBin[p])
      Goes(v)   == IF v.confl = CRef_Undef THEN propagate(v.s) ELSE Emptied(v)
      Longer(b) == IF b.confl = CRef_Undef THEN Goes(VisitAll(b.s, p)) ELSE b
  IN  IF s.qhead = Len(s.trail) THEN [s |-> s, confl |-> CRef_Undef] ELSE Longer(binary)

\* Propagated at level 0; ok tells whether that worked.
Settled(s) ==
  LET Outcome(r) == [r.s EXCEPT !.ok = (r.confl = CRef_Undef)]
  IN  Outcome(propagate(s))

\* addClause_; c is a set of literals.
addClause(s, c) ==
  LET ps == {p \in c : ~IsFalse(s, p)}
      p  == CHOOSE p \in ps : TRUE
      t  == Alloc(s, Sorted(ps))
  IN  IF ~s.ok \/ \E q \in c : IsTrue(s, q) \/ -q \in c THEN s
      ELSE IF ps = {} THEN [s EXCEPT !.ok = FALSE]
      ELSE IF Cardinality(ps) = 1
        THEN Settled(uncheckedEnqueue([s EXCEPT !.unitLits = Append(@, p)], p, CRef_Undef))
      ELSE attachClause(t, Len(t.ca))

useAsCompleteSolver(s) ==
  LET Propagated(t) == IF t.ok THEN Settled(t) ELSE t
  IN  Propagated(UnitsEnqueued(s, s.unitLits))

----------------------------------------------------------------------------
(* solve_ *)

Call(s, assumptions) ==
  LET t == [rebuildOrderHeap(s) EXCEPT !.assumptions = assumptions,
                                       !.model = {}, !.conflict = {}]
  IN  /\ solver' = t
      /\ phase' = IF t.ok /\ ~t.reallyUnsat THEN "propagate" ELSE "idle"
      /\ result' = FALSE
      /\ conflictC' = FALSE
      /\ UNCHANGED <<restarts, reductions>>
      /\ confl' = CRef_Undef

\* Mutant: the search leaves its levels.
ReturnAsIs(s, sat) ==
  /\ solver' = IF sat THEN [s EXCEPT !.model = {v \in 1..s.nVars : IsTrue(s, v)}] ELSE s
  /\ result' = sat
  /\ phase' = "idle"
  /\ UNCHANGED <<confl, search>>

Return(s, sat) ==
  /\ solver' = cancelUntil(IF sat THEN [s EXCEPT !.model = {v \in 1..s.nVars : IsTrue(s, v)}]
                                  ELSE s, 0)
  /\ result' = sat
  /\ phase' = "idle"
  /\ UNCHANGED <<confl, search>>

----------------------------------------------------------------------------
(* search *)

Propagate ==
  /\ phase = "propagate"
  /\ \E r \in {propagate(solver)} : solver' = r.s /\ confl' = r.confl
  /\ phase' = "handle"
  /\ UNCHANGED <<search, result>>

InConflict == phase = "handle" /\ confl # CRef_Undef
NoConflict == phase = "handle" /\ confl = CRef_Undef

RootConflict ==
  /\ InConflict
  /\ decisionLevel(solver) = 0
  /\ Return([solver EXCEPT !.reallyUnsat = TRUE], FALSE)

\* What analyze does with the first implication point out: the literals that the
\* others imply go, the second watch is on the level to backtrack to.
Shortened(s, out) == WithHighestSecond(s, Minimized(s, out))

\* analyze
Learnt(s, cr) == Shortened(s, FirstUIP(s, s.ca[cr], {}, << >>))

\* s is the solver at the level where the learnt clause c is asserting.
Asserting(s, c) ==
  LET t == Alloc(s, c)
  IN  IF Len(c) = 1 THEN uncheckedEnqueue(s, c[1], CRef_Undef)
      ELSE uncheckedEnqueue([attachClause(t, Len(t.ca)) EXCEPT !.learnts = @ \cup {Len(t.ca)}],
                            c[1], Len(t.ca))

Backjumped(s, c) == Asserting(cancelUntil(s, btlevel(s, c)), c)

Learn ==
  /\ InConflict
  /\ decisionLevel(solver) > 0
  /\ solver' = Backjumped(solver, Learnt(solver, confl))
  /\ conflictC' = TRUE
  /\ phase' = "propagate"
  /\ UNCHANGED <<confl, restarts, reductions, result>>

\* The levels that a restart keeps: those of the assumptions.
KeptLevels(s) ==
  IF decisionLevel(s) < Len(s.assumptions) THEN decisionLevel(s) ELSE Len(s.assumptions)

\* search returns l_Undef, and is called again.
Restart ==
  /\ NoConflict
  /\ conflictC /\ restarts > 0
  /\ solver' = cancelUntil(solver, KeptLevels(solver))
  /\ conflictC' = FALSE
  /\ restarts' = restarts - 1
  /\ phase' = "propagate"
  /\ UNCHANGED <<confl, reductions, result>>

\* After interrupt, the search goes on to its next restart.
Interrupted == NoConflict /\ conflictC /\ Return(solver, FALSE)

\* Of the watched literals alone, "too time consuming" otherwise.
satisfied(s, cr) == IsTrue(s, s.ca[cr][1]) \/ IsTrue(s, s.ca[cr][2])

\* simplify, at level 0
Simplified(s) ==
  rebuildOrderHeap(RemovedAll(s, {cr \in s.learnts : satisfied(s, cr)}))

\* reduceDB: of any learnt clauses, whatever reduceDB_lt puts first, but neither the
\* short ones nor the reasons go.
Removable(s) == {cr \in s.learnts : Len(s.ca[cr]) > 2 /\ ~locked(s, cr)}

garbageCollect(s) == [Relocated(s) EXCEPT !.watchesBin = RelocatedLists(s, @)]

\* checkGarbage: whether enough memory is wasted depends on the sizes.
GarbageChecked(s) == {s, garbageCollect(s)}

Forget ==
  /\ NoConflict
  /\ reductions > 0
  /\ \/ decisionLevel(solver) = 0 /\ solver' \in GarbageChecked(Simplified(solver))
     \/ \E D \in SUBSET Removable(solver) : solver' \in GarbageChecked(RemovedAll(solver, D))
  /\ solver' # solver
  /\ reductions' = reductions - 1
  /\ UNCHANGED <<phase, confl, conflictC, restarts, result>>

\* analyzeFinal: the assumptions that made p true, negated, and p.
analyzeFinal(s, p) ==
  LET upper == SubSeq(s.trail, s.trail_lim[1] + 1, Len(s.trail))
      Why(e, a) ==
        IF Var(e.lit) \notin a.seen THEN a
        ELSE IF e.reason = CRef_Undef THEN [a EXCEPT !.out = @ \cup {-e.lit}]
        ELSE [a EXCEPT !.seen = @ \cup {Var(q) : q \in Range(s.ca[e.reason])}]
  IN  IF decisionLevel(s) = 0 THEN {p}
      ELSE FoldRight(Why, upper, [seen |-> {Var(p)}, out |-> {p}]).out

AssumptionFails ==
  /\ NoConflict
  /\ LET s == Assumed(solver)
     IN  /\ ~AllAssumed(s)
         /\ IsFalse(s, NextAssumption(s))
         /\ Return([s EXCEPT !.conflict = analyzeFinal(s, -NextAssumption(s))], FALSE)

Assume ==
  /\ NoConflict
  /\ LET s == Assumed(solver)
     IN  /\ ~AllAssumed(s)
         /\ IsUndef(s, NextAssumption(s))
         /\ solver' = Decided(s, NextAssumption(s))
  /\ phase' = "propagate"
  /\ UNCHANGED <<confl, search, result>>

\* The literals it may return: none is lit_Undef.
pickBranchLit(s) == {IF v \in s.polarity THEN v ELSE -v : v \in Branchable(s)}

Decide ==
  /\ NoConflict
  /\ LET s == Assumed(solver)
     IN  /\ AllAssumed(s)
         /\ \E next \in pickBranchLit(s) : solver' = Decided(Picked(s, Var(next)), next)
  /\ phase' = "propagate"
  /\ UNCHANGED <<confl, search, result>>

ModelFound ==
  /\ NoConflict
  /\ LET s == Assumed(solver)
     IN  /\ AllAssumed(s)
         /\ pickBranchLit(s) = {}
         /\ Return([s EXCEPT !.order_heap = {}], TRUE)

SearchStep ==
  \/ Propagate
  \/ RootConflict
  \/ Learn
  \/ Restart
  \/ Forget
  \/ AssumptionFails
  \/ Assume
  \/ Decide
  \/ ModelFound

WatchesOK(s) ==
  LET binary == {cr \in CRefs(s) : Len(s.ca[cr]) = 2}
  IN  /\ Attached(s, s.watchesBin, binary)
      /\ Attached(s, s.watches, CRefs(s) \ binary)
=============================================================================
