-------------------------------- MODULE Cdcl --------------------------------
(***************************************************************************)
(* The clause-learning SAT solver, as far as the two engines that the      *)
(* repository embeds share it: MiniSat, inside the MSS extractor and the   *)
(* problem reducer, and Glucose, behind the SAT back end.  A solver object *)
(* is a record; its methods are operators on it.                           *)
(*                                                                         *)
(* A literal is a non-zero integer.  A clause is a sequence of literals,   *)
(* the first two being watched.  A removed clause (Clause::mark) is the    *)
(* empty sequence, until the garbage collection gives every clause a new   *)
(* reference; it leaves the watch lists at once.  The activities are       *)
(* abstracted: where they decide, any choice is possible.                  *)
(***************************************************************************)
EXTENDS Integers, FiniteSets, SequencesExt

----------------------------------------------------------------------------
(* Literals, values, levels *)

Var(p) == IF p < 0 THEN -p ELSE p

\* The variables of a set of literals.
Vars(L) == {Var(p) : p \in L}

\* Lit::operator <
LitIndex(p) == 2 * Var(p) + (IF p < 0 THEN 1 ELSE 0)

Sorted(c) ==
  [k \in 1..Cardinality(c) |->
     CHOOSE p \in c : Cardinality({q \in c : LitIndex(q) < LitIndex(p)}) = k - 1]

IsTrue(s, p)  == p \in s.assigns
IsFalse(s, p) == -p \in s.assigns
IsUndef(s, p) == ~IsTrue(s, p) /\ ~IsFalse(s, p)

CRef_Undef == 0

decisionLevel(s) == Len(s.trail_lim)

\* The last place in the trail of one of the variables.
LastPlace(s, vars) ==
  CHOOSE k \in DOMAIN s.trail :
    /\ Var(s.trail[k].lit) \in vars
    /\ \A j \in (k + 1)..Len(s.trail) : Var(s.trail[j].lit) \notin vars

\* vardata: the place of an assigned variable in the trail, hence its level and
\* its reason; the last one, should the variable be enqueued twice.
Place(s, v) == LastPlace(s, {v})

level(s, v) == Cardinality({k \in DOMAIN s.trail_lim : s.trail_lim[k] < Place(s, v)})

reason(s, v) == s.trail[Place(s, v)].reason

----------------------------------------------------------------------------
(* The object *)

NewSolver ==
  [ok          |-> TRUE,
   reallyUnsat |-> FALSE,      \* isReallyUnsatWhateverTheAssumptions
   nVars       |-> 0,
   decision    |-> {},         \* variables that may be decided
   order_heap  |-> {},         \* those among which the next one is picked
   polarity    |-> {},         \* those that are decided true
   phase_saving |-> TRUE,      \* an unassigned variable keeps its sign
   ca          |-> << >>,      \* the clauses, by their CRef
   learnts     |-> {},         \* which of them are learnt
   watches     |-> << >>,      \* for each literal, the watchers of its negation
   assigns     |-> {},         \* the true literals
   trail       |-> << >>,      \* the same in order, each with its reason
   trail_lim   |-> << >>,
   qhead       |-> 0,          \* what is propagated of the trail
   unitLits    |-> << >>,
   assumptions |-> << >>,
   conflict    |-> {},
   model       |-> {},         \* the variables true in it
   occurs      |-> << >>,      \* of SimpSolver: the clauses of each variable,
   subsumption_queue |-> << >>]  \* and those to be compared with others

Literals(n) == (-n..n) \ {0}

\* newVar: every variable may be decided.
NewVar(s, positive) ==
  LET v == s.nVars + 1
  IN  [s EXCEPT
        !.nVars = v,
        !.decision = @ \cup {v},
        !.order_heap = @ \cup {v},
        !.polarity = IF positive THEN @ \cup {v} ELSE @,
        !.watches = [p \in Literals(v) |-> IF p \in {v, -v} THEN << >> ELSE @[p]]]

\* The assertion that p has no value is not compiled in: p takes the place of its
\* negation.
uncheckedEnqueue(s, p, cr) ==
  [s EXCEPT !.assigns = (@ \ {-p}) \cup {p},
            !.trail = Append(@, [lit |-> p, reason |-> cr])]

newDecisionLevel(s) == [s EXCEPT !.trail_lim = Append(@, Len(s.trail))]

Lits(trail) == {trail[k].lit : k \in DOMAIN trail}

\* What is cut from the trail when it goes back to a level.
Lost(s, lvl) == Lits(SubSeq(s.trail, s.trail_lim[lvl + 1] + 1, Len(s.trail)))

\* The variables of what is cut have no value any more.
Without(assigns, lost) == {p \in assigns : Var(p) \notin Vars(lost)}

\* Mutant: the variables that lose their value are not decided again.
cancelUntilForgets(s, lvl) ==
  IF decisionLevel(s) <= lvl THEN s
  ELSE [s EXCEPT !.trail = SubSeq(@, 1, s.trail_lim[lvl + 1]),
                 !.assigns = Without(@, Lost(s, lvl)),
                 !.trail_lim = SubSeq(@, 1, lvl),
                 !.qhead = s.trail_lim[lvl + 1]]

cancelUntil(s, lvl) ==
  IF decisionLevel(s) <= lvl THEN s
  ELSE LET lost == Lost(s, lvl)
       IN  [s EXCEPT !.trail = SubSeq(@, 1, s.trail_lim[lvl + 1]),
                     !.assigns = Without(@, lost),
                     !.trail_lim = SubSeq(@, 1, lvl),
                     !.qhead = s.trail_lim[lvl + 1],
                     !.order_heap = @ \cup (Vars(lost) \cap s.decision),
                     !.polarity = IF s.phase_saving
                                    THEN (@ \ Vars(lost)) \cup {p \in lost : p > 0} ELSE @]

rebuildOrderHeap(s) == [s EXCEPT !.order_heap = {v \in s.decision : IsUndef(s, v)}]

----------------------------------------------------------------------------
(* Clauses and watchers *)

Watcher(cr, blocker) == [cref |-> cr, blocker |-> blocker]

\* ClauseAllocator::alloc; the new reference is Len(ca).
Alloc(s, c) == [s EXCEPT !.ca = Append(@, c)]

CRefs(s) == {cr \in DOMAIN s.ca : s.ca[cr] # << >>}

\* attachClause
Watched(s, cr) ==
  LET c == s.ca[cr]
  IN  [s EXCEPT !.watches[-c[1]] = Append(@, Watcher(cr, c[2])),
                !.watches[-c[2]] = Append(@, Watcher(cr, c[1]))]

\* detachClause
Unwatched(lists, cr) ==
  [p \in DOMAIN lists |-> SelectSeq(lists[p], LAMBDA w : w.cref # cr)]

\* A clause that is the reason of its first literal.
locked(s, cr) == LET c == s.ca[cr] IN IsTrue(s, c[1]) /\ reason(s, Var(c[1])) = cr

----------------------------------------------------------------------------
(* garbageCollect: the clauses that are left move to a new region *)

Relocation(s, cr) ==
  IF cr \in CRefs(s) THEN Cardinality({c \in CRefs(s) : c <= cr}) ELSE cr

RelocatedLists(s, lists) ==
  [p \in DOMAIN lists |->
     [k \in DOMAIN lists[p] |-> [lists[p][k] EXCEPT !.cref = Relocation(s, @)]]]

\* The clauses that are left of a list, where they have gone.
RelocatedRefs(s, crs) ==
  LET left == SelectSeq(crs, LAMBDA cr : cr \in CRefs(s))
  IN  [k \in DOMAIN left |-> Relocation(s, left[k])]

\* relocAll: the watchers, the reasons and the list of what is learnt follow, and
\* the lists of SimpSolver.
Relocated(s) ==
  [s EXCEPT !.ca = SelectSeq(@, LAMBDA c : c # << >>),
            !.watches = RelocatedLists(s, @),
            !.trail = [k \in DOMAIN @ |-> [@[k] EXCEPT !.reason = Relocation(s, @)]],
            !.learnts = {Relocation(s, cr) : cr \in @},
            !.occurs = [v \in DOMAIN @ |-> RelocatedRefs(s, @[v])],
            !.subsumption_queue = RelocatedRefs(s, @)]

----------------------------------------------------------------------------
(* propagate: the watchers of p, which has become true, one after the other *)

Swapped(c, j, k) == [c EXCEPT ![j] = c[k], ![k] = c[j]]

\* The false literal second.
Normalized(c, p) == IF c[1] = -p THEN Swapped(c, 1, 2) ELSE c

\* Mutant: a false literal will do.
AnyOther(s, c) == 3..Len(c)

\* Literals that can be watched instead.
Candidates(s, c) == {k \in 3..Len(c) : ~IsFalse(s, c[k])}

\* Mutant: the watchers after a conflict are lost.
KeptUntilConflict(a, w) ==
  IF a.confl # CRef_Undef THEN a ELSE [a EXCEPT !.kept = Append(@, w)]

Kept(a, w) == [a EXCEPT !.kept = Append(@, w)]

\* a is the solver, the conflict found and the watchers kept so far; c is the
\* clause of w, whose blocker is not true.
VisitClause(a, w, c) ==
  LET cand == Candidates(a.s, c)
      k    == CHOOSE k \in cand : \A j \in cand : k <= j
      t    == [a.s EXCEPT !.ca[w.cref] = c]
      here == Kept(a, Watcher(w.cref, c[1]))
  IN  IF IsTrue(t, c[1]) THEN [here EXCEPT !.s = t]
      ELSE IF cand # {}
        THEN [a EXCEPT !.s = [t EXCEPT !.ca[w.cref] = Swapped(c, 2, k),
                                       !.watches[-c[k]] = Append(@, Watcher(w.cref, c[1]))]]
      ELSE IF IsFalse(t, c[1]) THEN [here EXCEPT !.s = t, !.confl = w.cref]
      ELSE [here EXCEPT !.s = uncheckedEnqueue(t, c[1], w.cref)]

Visit(p, a, w) ==
  IF a.confl # CRef_Undef \/ IsTrue(a.s, w.blocker) THEN Kept(a, w)
  ELSE VisitClause(a, w, Normalized(a.s.ca[w.cref], p))

\* The kept watchers are the list of p from now on.
ListClosed(a, p) == [s |-> [a.s EXCEPT !.watches[p] = a.kept], confl |-> a.confl]

VisitAll(s, p) ==
  ListClosed(FoldLeft(LAMBDA a, w : Visit(p, a, w),
                      [s |-> s, confl |-> CRef_Undef, kept |-> << >>], s.watches[p]),
             p)

----------------------------------------------------------------------------
(* analyze: the first unique implication point, and a smaller clause *)

\* The other literals of the reason of p, which is its first literal (Glucose
\* swaps the two of a binary clause for that).
reasonLits(s, p) == SelectSeq(s.ca[reason(s, Var(p))], LAMBDA q : q # p)

\* new is the clause that comes in, seen the variables of the clause so far, and
\* out its literals of the lower levels.
RECURSIVE FirstUIP(_, _, _, _)
FirstUIP(s, new, seen, out) ==
  LET fresh == SelectSeq(new, LAMBDA q : Var(q) \notin seen /\ level(s, Var(q)) > 0)
      lower == out \o SelectSeq(fresh, LAMBDA q : level(s, Var(q)) < decisionLevel(s))
      From(vars, p) ==
        IF \E v \in vars \ {Var(p)} : level(s, v) = decisionLevel(s)
          THEN FirstUIP(s, reasonLits(s, p), vars \ {Var(p)}, lower)
          ELSE <<-p>> \o lower
      Resolved(vars) == From(vars, s.trail[LastPlace(s, vars)].lit)
  IN  Resolved(seen \cup Vars(Range(fresh)))

\* litRedundant: the variables of the trail that the rest of the clause decides,
\* over its levels only.
Implied(s, out) ==
  LET seen   == Vars(Range(Tail(out)))
      levels == {level(s, v) : v \in seen}
      Follows(p, known) ==
        /\ reason(s, Var(p)) # CRef_Undef
        /\ level(s, Var(p)) \in levels
        /\ \A q \in Range(reasonLits(s, p)) :
             level(s, Var(q)) = 0 \/ Var(q) \in seen \cup known
      Step(known, e) == IF Follows(e.lit, known) THEN known \cup {Var(e.lit)} ELSE known
  IN  FoldLeft(Step, {}, s.trail)

\* Mutant: what is implied may use what is left out.
MinimizedByHalf(s, out) ==
  <<out[1]>> \o SelectSeq(Tail(out), LAMBDA q : reason(s, Var(q)) = CRef_Undef)

Minimized(s, out) ==
  LET implied == Implied(s, out)
  IN  <<out[1]>> \o SelectSeq(Tail(out), LAMBDA q : Var(q) \notin implied)

\* The literal of the highest level comes second.
WithHighestSecond(s, out) ==
  IF Len(out) = 1 THEN out
  ELSE LET max_i == CHOOSE k \in 2..Len(out) :
                      \A j \in 2..Len(out) :
                        \/ level(s, Var(out[j])) < level(s, Var(out[k]))
                        \/ level(s, Var(out[j])) = level(s, Var(out[k])) /\ k <= j
       IN  Swapped(out, 2, max_i)

btlevel(s, out) == IF Len(out) = 1 THEN 0 ELSE level(s, Var(out[2]))

----------------------------------------------------------------------------
(* search: assumptions and decisions *)

\* Dummy levels for the assumptions that are already true.
RECURSIVE Assumed(_)
Assumed(s) ==
  IF decisionLevel(s) < Len(s.assumptions) /\ IsTrue(s, s.assumptions[decisionLevel(s) + 1])
    THEN Assumed(newDecisionLevel(s)) ELSE s

AllAssumed(s) == decisionLevel(s) >= Len(s.assumptions)

NextAssumption(s) == s.assumptions[decisionLevel(s) + 1]

\* pickBranchLit: the other variables of the heap are popped on the way.
Branchable(s) == {v \in s.order_heap \cap s.decision : IsUndef(s, v)}

Picked(s, v) == [s EXCEPT !.order_heap = Branchable(s) \ {v}]

Decided(s, p) == uncheckedEnqueue(newDecisionLevel(s), p, CRef_Undef)

\* Clauses satisfied at level 0.
Satisfied(s, cr) == \E p \in Range(s.ca[cr]) : IsTrue(s, p)

----------------------------------------------------------------------------
(* What the back ends do to the object from outside *)

\* resetSolverState; the heap is left as it is.
Reset(s) == [s EXCEPT !.assigns = {}, !.trail = << >>, !.trail_lim = << >>, !.qhead = 0]

\* The unit clauses again, until one of them fails (useAsCompleteSolver, before
\* it propagates).
RECURSIVE UnitsEnqueued(_, _)
UnitsEnqueued(s, lits) ==
  IF lits = << >> THEN [s EXCEPT !.ok = TRUE]
  ELSE IF IsFalse(s, Head(lits)) THEN [s EXCEPT !.ok = FALSE]
  ELSE UnitsEnqueued(IF IsTrue(s, Head(lits)) THEN s
                     ELSE uncheckedEnqueue(s, Head(lits), CRef_Undef), Tail(lits))

\* The literals that have a value already are not enqueued, whatever it is.
EnqueuedAll(s, lits) ==
  FoldLeft(LAMBDA t, p : IF IsUndef(t, p) THEN uncheckedEnqueue(t, p, CRef_Undef) ELSE t,
           s, lits)

----------------------------------------------------------------------------
(* What must hold of the object between the steps of a search *)

Root(s) == IF decisionLevel(s) = 0 THEN Len(s.trail) ELSE s.trail_lim[1]

\* Each literal of the trail is a decision, the first of its level, or follows
\* from the literals before it by its reason; each level but the last is closed.
TrailOK(s) ==
  LET before(k) == {s.trail[j].lit : j \in 1..(k - 1)}
  IN  /\ s.assigns = Lits(s.trail)
      /\ \A k \in DOMAIN s.trail : s.trail[k].lit \notin before(k) /\ -s.trail[k].lit \notin before(k)
      /\ \A k \in (Root(s) + 1)..Len(s.trail) :
           LET e == s.trail[k]
           IN  IF e.reason = CRef_Undef THEN k - 1 \in Range(s.trail_lim)
               ELSE \A q \in Range(s.ca[e.reason]) : q = e.lit \/ -q \in before(k)

\* Propagation has missed nothing: there is no false clause and no clause with one
\* literal left; or the clause of the conflict is false.
PropagationOK(s, confl) ==
  IF confl # CRef_Undef THEN \A p \in Range(s.ca[confl]) : IsFalse(s, p)
  ELSE \A cr \in CRefs(s) :
         LET c == Range(s.ca[cr])
         IN  (\E p \in c : IsTrue(s, p)) \/ Cardinality({p \in c : IsUndef(s, p)}) > 1

\* The clauses of some watch lists are crs; each is watched once by the negation
\* of its first literal and once by that of its second, each time with another of
\* its literals as the blocker.
Attached(s, lists, crs) ==
  \A p \in DOMAIN lists :
    /\ \A cr \in crs :
         LET c  == s.ca[cr]
             ws == SelectSeq(lists[p], LAMBDA w : w.cref = cr)
         IN  Len(ws) = IF -p \in {c[1], c[2]} THEN 1 ELSE 0
    /\ \A k \in DOMAIN lists[p] :
         LET w == lists[p][k]
         IN  w.cref \in crs /\ w.blocker \in Range(s.ca[w.cref]) \ {-p}

\* The first levels are those of the assumptions: each of them is true at its
\* level at the latest, and nothing else is decided there.
LevelsOK(s) ==
  LET assumed == {k \in DOMAIN s.assumptions : k <= decisionLevel(s)}
  IN  /\ \A k \in assumed :
           IsTrue(s, s.assumptions[k]) /\ level(s, Var(s.assumptions[k])) <= k
      /\ \A e \in Range(s.trail) :
           e.reason = CRef_Undef /\ level(s, Var(e.lit)) \in assumed =>
             e.lit = s.assumptions[level(s, Var(e.lit))]

\* A variable without a value can be decided, unless it was eliminated.
HeapOK(s) == {v \in s.decision : IsUndef(s, v)} \subseteq s.order_heap

\* The clauses, as sets of literals, and the literals of level 0: all that the
\* object knows.
Known(s) ==
  {Range(s.ca[cr]) : cr \in CRefs(s)}
  \cup {{s.trail[k].lit} : k \in 1..Root(s)}
  \cup {{s.unitLits[k]} : k \in DOMAIN s.unitLits}
  \cup IF s.ok /\ ~s.reallyUnsat THEN {} ELSE {{}}
=============================================================================
