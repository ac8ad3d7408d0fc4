------------------------------ MODULE SolverRL ------------------------------
(***************************************************************************)
(* The local search of the library (minisat/core/SolverRL.cc, and, with    *)
(* the same text, cmp/approx/localSearch.cc): a complete interpretation,   *)
(* and counters that each flip of a variable brings up to date instead of  *)
(* reading the clauses again.                                              *)
(*                                                                         *)
(* A literal is a non-zero integer, a clause a sequence of literals of     *)
(* different variables; the variables from limit on are the selectors of   *)
(* soft clauses.  The object is a record, its methods are operators on it. *)
(* The statistics (maxSat, isLitFree, addToRecup) are left out.            *)
(***************************************************************************)
EXTENDS Integers, FiniteSetsExt, SequencesExt

CONSTANTS
  Jobs,             \* bound: the calls, as records (see RlInit)
  FlipsPerTry,      \* bound: the 100000 of wsat
  MoreFlips,        \* bound: the 100 of oneDescent
  Rotations,        \* bound: the 50 of makeRotation
  MoreRotations     \* bound: the 25 of makeRotation_acc

VARIABLES
  rl,       \* the object
  job       \* the call: its arguments, its local variables, and where it is (at)

rlVars == <<rl, job>>

\* lit_Undef; a watch that no one has set
Undef == 0

Var(l) == IF l < 0 THEN -l ELSE l

\* WASS_TRUE
Holds(a, l) == a[Var(l)] = (l > 0)

VarsIn(s, c) == {Var(l) : l \in Range(s.clauses[c])}

Trues(s, c) == SelectSeq(s.clauses[c], LAMBDA l : Holds(s.atom, l))

Plus(count, vs, n) == [v \in DOMAIN count |-> IF v \in vs THEN count[v] + n ELSE count[v]]

Indices(s) == [c \in DOMAIN s.clauses |-> c]

\* occurence
Occurrences(s, l) == SelectSeq(Indices(s), LAMBDA c : l \in Range(s.clauses[c]))

----------------------------------------------------------------------------
(* initWithClauses(), adjustIsAssign() and initInterpretation() *)

\* A search over the clauses of f, the variables of isAssign being assigned.
NewSearch(f, atom, isAssign) ==
  LET none == [c \in DOMAIN f.clauses |-> Undef]
      zero == [v \in DOMAIN atom |-> 0]
  IN  [clauses |-> f.clauses, weight |-> f.weight, limit |-> f.limit,
       isAssign |-> isAssign, atom |-> atom, initialized |-> FALSE,
       numtruelit |-> none, watch1 |-> none, watch2 |-> none,
       falseClause |-> << >>, wherefalse |-> none,
       breakcount |-> zero, makecount |-> zero, changed |-> zero,
       numflip |-> 0]

----------------------------------------------------------------------------
(* The false clauses, and what a flip would break or make *)

BecomesFalse(s, c) ==
  [s EXCEPT !.falseClause = Append(@, c),
            !.wherefalse[c] = Len(s.falseClause) + 1,
            !.makecount = Plus(@, VarsIn(s, c), s.weight[c])]

\* Mutant: the clause that takes the free place does not know it.
BecomesTrueUnplaced(s, c) ==
  [s EXCEPT !.falseClause = Front([@ EXCEPT ![s.wherefalse[c]] = Last(s.falseClause)]),
            !.makecount = Plus(@, VarsIn(s, c), -s.weight[c])]

\* The last false clause takes its place.
BecomesTrue(s, c) ==
  LET last == Last(s.falseClause)
  IN  [s EXCEPT !.falseClause = Front([@ EXCEPT ![s.wherefalse[c]] = last]),
                !.wherefalse[last] = s.wherefalse[c],
                !.makecount = Plus(@, VarsIn(s, c), -s.weight[c])]

Breaks(s, v, n) == [s EXCEPT !.breakcount[v] = @ + n]

\* initVariableRL(), for one clause.
InitClause(s, c) ==
  LET trues == Trues(s, c)
      t     == [s EXCEPT !.numtruelit[c] = Len(trues)]
      first == [t EXCEPT !.watch1[c] = Var(trues[1])]
  IN  CASE Len(trues) = 0 -> BecomesFalse(t, c)
        [] Len(trues) = 1 -> Breaks(first, Var(trues[1]), s.weight[c])
        [] OTHER          -> [first EXCEPT !.watch2[c] = Var(trues[2])]

Reset(s) ==
  LET zero == [v \in DOMAIN s.atom |-> 0]
  IN  [s EXCEPT !.falseClause = << >>, !.breakcount = zero, !.makecount = zero,
                !.changed = [v \in DOMAIN s.atom |-> -1]]

\* init() and initVariableRL()
init(s) == FoldLeft(InitClause, Reset(s), Indices(s))

----------------------------------------------------------------------------
(* flipatom() *)

\* The first true literal of c that is not watched, if any, or else v.
Unwatched(s, c, v) ==
  LET found == SelectSeq(Trues(s, c), LAMBDA l : Var(l) \notin {s.watch1[c], s.watch2[c]})
  IN  IF found = << >> THEN v ELSE Var(found[1])

\* Mutant: of two watched literals, the one that is left is not looked for.
LosesUnwatched(v, s, c) ==
  LET t == [s EXCEPT !.numtruelit[c] = @ - 1]
  IN  CASE t.numtruelit[c] = 0 -> Breaks(BecomesFalse(t, c), v, -s.weight[c])
        [] t.numtruelit[c] = 1 -> Breaks(t, t.watch1[c], s.weight[c])
        [] OTHER -> t

\* The literal of variable v in clause c has become false.
Loses(v, s, c) ==
  LET t    == [s EXCEPT !.numtruelit[c] = @ - 1]
      left == [t EXCEPT !.watch1[c] = IF @ = v THEN s.watch2[c] ELSE @]
  IN  CASE t.numtruelit[c] = 0 -> Breaks(BecomesFalse(t, c), v, -s.weight[c])
        [] t.numtruelit[c] = 1 -> Breaks(left, left.watch1[c], s.weight[c])
        [] t.numtruelit[c] > 1 /\ s.watch1[c] = v ->
             [t EXCEPT !.watch1[c] = Unwatched(s, c, v)]
        [] t.numtruelit[c] > 1 /\ s.watch1[c] # v /\ s.watch2[c] = v ->
             [t EXCEPT !.watch2[c] = Unwatched(s, c, v)]
        [] OTHER -> t

\* The literal of variable v in clause c has become true.
Gains(v, s, c) ==
  LET t == [s EXCEPT !.numtruelit[c] = @ + 1]
  IN  CASE t.numtruelit[c] = 1 ->
             Breaks([BecomesTrue(t, c) EXCEPT !.watch1[c] = v], v, s.weight[c])
        [] t.numtruelit[c] = 2 ->
             Breaks([t EXCEPT !.watch2[c] = v], s.watch1[c], -s.weight[c])
        [] OTHER -> t

\* Flip one more, whatever the literal is.
Counted(s) == [s EXCEPT !.numflip = @ + 1]

Assigned(s, l) == [s EXCEPT !.atom[Var(l)] = l > 0, !.changed[Var(l)] = s.numflip]

\* Nothing, when l is true already.
flipatom(s, l) ==
  LET v    == Var(l)
      t    == Assigned(Counted(s), l)
      lost == FoldLeft(LAMBDA u, c : Loses(v, u, c), t, Occurrences(s, -l))
  IN  IF l = Undef \/ Holds(s.atom, l)
        THEN Counted(s)
        ELSE FoldLeft(LAMBDA u, c : Gains(v, u, c), lost, Occurrences(s, l))

----------------------------------------------------------------------------
(* The choice of a literal of a false clause: the sets of those that random() *)
(* may lead to                                                                *)

Free(s, c) == SelectSeq(s.clauses[c], LAMBDA l : Var(l) \notin s.isAssign)

FalseClauses(s) == Range(s.falseClause)

BestIn(s, lits) ==
  LET least == Min({s.breakcount[Var(l)] : l \in Range(lits)})
  IN  IF least > 0 THEN Range(lits)
      ELSE {l \in Range(lits) : s.breakcount[Var(l)] = least}

best(s) == UNION {BestIn(s, Free(s, c)) : c \in FalseClauses(s)}

tabu_length == 7

\* The candidates, and what the best of them breaks (-1: nothing yet).
Tabu(s, noisy, r, l) ==
  LET breaks == s.breakcount[Var(l)]
      better == r.value = -1 \/ breaks < r.value
      rested == tabu_length < s.numflip - s.changed[Var(l)]
  IN  CASE breaks = 0 \/ (rested /\ ~noisy) ->
             IF better THEN [value |-> breaks, lits |-> {l}]
             ELSE IF breaks = r.value THEN [r EXCEPT !.lits = @ \cup {l}]
             ELSE r
        [] breaks > 0 /\ rested /\ noisy ->
             IF r.value = 0 THEN r ELSE [r EXCEPT !.lits = @ \cup {l}]
        [] OTHER -> r

tabu(s) ==
  UNION {LET r == FoldLeft(LAMBDA q, l : Tabu(s, noisy, q, l),
                           [value |-> -1, lits |-> {}], Free(s, c))
         IN  IF r.lits = {} THEN Range(Free(s, c)) ELSE r.lits
         : c \in FalseClauses(s), noisy \in BOOLEAN}

Diff(s, l) == s.makecount[Var(l)] - s.breakcount[Var(l)]

\* diff is better, or the same for longer.
Better(s, l, m) ==
  \/ m = Undef
  \/ Diff(s, l) > Diff(s, m)
  \/ Diff(s, l) = Diff(s, m) /\ s.changed[Var(l)] < s.changed[Var(m)]

\* The youngest, the best and the second best of the literals so far.
Ranked(s, r, l) ==
  LET born == s.changed[Var(l)]
      q    == IF born > r.birth THEN [r EXCEPT !.birth = born, !.youngest = l] ELSE r
  IN  CASE Better(s, l, r.best)   -> [q EXCEPT !.second = r.best, !.best = l]
        [] ~Better(s, l, r.best) /\ Better(s, l, r.second) -> [q EXCEPT !.second = l]
        [] OTHER -> q

Ranking(s, lits, birth) ==
  FoldLeft(LAMBDA r, l : Ranked(s, r, l),
           [birth |-> birth, youngest |-> Undef, best |-> Undef, second |-> Undef], lits)

\* Every 256th flip is a random one.
Novel(s, c) ==
  LET lits == s.clauses[c]
      r    == Ranking(s, lits, -1)
  IN  CASE s.numflip % 256 = 0 -> Range(lits)
        [] s.numflip % 256 # 0 /\ (Len(lits) = 1 \/ r.best # r.youngest) -> {r.best}
        [] OTHER ->
             {r.best} \cup (IF s.makecount[Var(r.best)] <= s.makecount[Var(r.second)]
                              THEN {r.second} ELSE {})

rnovelty(s) == UNION {Novel(s, c) : c \in FalseClauses(s)}

\* The variables of cbs only, and no selector.
NovelFree(s, c, cbs) ==
  LET lits == SelectSeq(s.clauses[c], LAMBDA l : Var(l) \in cbs /\ Var(l) < s.limit)
      r    == Ranking(s, lits, -2)
  IN  CASE lits = << >> -> {Undef}
        [] Len(lits) = 1 \/ (lits # << >> /\ r.best # r.youngest) -> {r.best}
        [] OTHER -> IF Diff(s, r.best) - Diff(s, r.second) = 1
                      THEN {r.second} ELSE {r.best, r.second}

rnoveltyFree(s, cbs) == UNION {NovelFree(s, c, cbs) : c \in FalseClauses(s)}
----------------------------------------------------------------------------
(* The calls *)

\* The arguments of a call: its task, the formula f, the interpretation atom, the
\* variables that are assigned, and what the task needs.
RlInit ==
  \E args \in Jobs :
    /\ job = args @@ [at |-> "start"]
    /\ rl = init(NewSearch(args.f, args.atom, args.isAssign))

Task(name, where) == job.task = name /\ job.at = where

Done == [job EXCEPT !.at = "done"]

\* super(), Luby's sequence.
super[n \in 1..7] ==
  LET power == CHOOSE p \in {2, 4, 8} : p >= n + 1 /\ (p = 2 \/ p < 2 * (n + 1))
  IN  IF power = n + 1 THEN power \div 2 ELSE super[n - power \div 2 + 1]

bornMaxFlips == super[job.numtry] * FlipsPerTry

\* A step of wsat(): the flip of one of picks, the loop and flipatom counting it
\* both, or the end of a try.
WalkStep(picks) ==
  /\ rl.falseClause # << >> /\ job.numtry > 0
  /\ IF rl.numflip < bornMaxFlips
       THEN /\ \E l \in picks : rl' = Counted(flipatom(rl, l))
            /\ UNCHANGED job
       ELSE /\ rl' = [init(rl) EXCEPT !.numflip = 0]
            /\ job' = [job EXCEPT !.numtry = @ - 1]

WalkOver == rl.falseClause = << >> \/ job.numtry = 0

Wsat == Task("wsat", "start") /\ WalkStep(best(rl))

WsatEnds ==
  /\ Task("wsat", "start")
  /\ WalkOver
  /\ job' = Done
  /\ UNCHANGED rl

\* performNextFlip(), with each metaheuristic.
performNextFlip ==
  /\ Task("flips", "start")
  /\ rl.falseClause # << >> /\ rl.numflip < job.flips
  /\ \E l \in tabu(rl) \cup rnovelty(rl) \cup best(rl) : rl' = flipatom(rl, l)
  /\ UNCHANGED job

\* initInterpretationWithVecLit()
initInterpretationWithVecLit ==
  /\ Task("flips", "start")
  /\ rl.numflip < job.flips
  /\ \E lits \in job.vectors :
       rl' = IF rl.initialized
               THEN FoldLeft(LAMBDA s, l : IF Holds(s.atom, l) THEN s ELSE flipatom(s, l),
                             rl, lits)
               ELSE [init(FoldLeft(LAMBDA s, l : [s EXCEPT !.atom[Var(l)] = l > 0], rl, lits))
                       EXCEPT !.initialized = TRUE]
  /\ UNCHANGED job

FlipsEnd ==
  /\ Task("flips", "start")
  /\ rl.falseClause = << >> \/ rl.numflip >= job.flips
  /\ job' = Done
  /\ UNCHANGED rl

----------------------------------------------------------------------------
(* oneDescent(): transition constraints on the way of a descent, which is then *)
(* undone                                                                      *)

\* Clause::selector, Undef for a hard clause.
SelectorOf(s, c) ==
  LET sels == SelectSeq(s.clauses[c], LAMBDA l : Var(l) >= s.limit)
  IN  IF sels = << >> THEN Undef ELSE Var(Last(sels))

StartDescent ==
  /\ Task("descent", "start")
  /\ job' = [job EXCEPT !.at = "descent"]
             @@ [ite |-> 0, notFound |-> 1, flipped |-> << >>, odd |-> {}, mt |-> << >>]
  /\ UNCHANGED rl

\* Mutant: a transition is seen where two clauses are left.
AtTransitionOfTwo(s) ==
  /\ Len(s.falseClause) <= 2
  /\ SelectorOf(s, s.falseClause[1]) \in job.cbs

\* One clause is left, a soft one that may be selected.
AtTransition(s) ==
  /\ Len(s.falseClause) = 1
  /\ SelectorOf(s, s.falseClause[1]) \in job.cbs

\* tmpZero, as the variables flipped an odd number of times.
Toggled(vs, v) == IF v \in vs THEN vs \ {v} ELSE vs \cup {v}

Descended(s, l) ==
  LET found   == AtTransition(s)
      sel     == SelectorOf(s, s.falseClause[1])
      step    == IF found THEN 1 ELSE job.notFound + Len(rl.falseClause)
      seen    == \E k \in DOMAIN job.flipped : Var(job.flipped[k]) = Var(l)
  IN  [job EXCEPT
         !.flipped = IF seen THEN @ ELSE Append(@, l),
         !.odd = Toggled(@, Var(l)),
         !.ite = @ + step, !.notFound = step,
         !.mt = IF found THEN Append(@, sel) ELSE @,
         !.cbs = IF found THEN @ \ {sel} ELSE @,
         !.flips = IF found THEN @ + MoreFlips ELSE @]

DescentFlip ==
  /\ Task("descent", "descent")
  /\ job.ite < job.flips
  /\ \E l \in rnoveltyFree(rl, job.cbs) :
       IF l = Undef
         THEN job' = [job EXCEPT !.ite = job.flips] /\ UNCHANGED rl
         ELSE /\ rl' = flipatom(rl, l)
              /\ job' = Descended(rl', l)

Restored ==
  FoldLeft(LAMBDA s, l : IF Var(l) \in job.odd THEN flipatom(s, -l) ELSE s, rl, job.flipped)

DescentEnds ==
  /\ Task("descent", "descent")
  /\ job.ite >= job.flips
  /\ rl' = Restored
  /\ job' = Done

----------------------------------------------------------------------------
(* makeRotation(): from the interpretation cAss of an MSS, other clauses that *)
(* could be falsified instead of each clause of the coMSS                     *)

\* The clauses of -l that cAss falsifies.
Falsified(cAss, l) ==
  SelectSeq(Occurrences(rl, -l),
            LAMBDA c : \A k \in DOMAIN rl.clauses[c] : ~Holds(cAss, rl.clauses[c][k]))

\* Mutant: the first clause that l falsifies, of any number.
flipTransitionOfMany(cAss, l) ==
  IF Falsified(cAss, l) # << >> THEN Falsified(cAss, l)[1] ELSE Undef

\* flipTransition(): the clause that only l falsifies, if there is one only.
flipTransition(cAss, l) ==
  IF Len(Falsified(cAss, l)) = 1 THEN Falsified(cAss, l)[1] ELSE Undef

FlippedBack(r, l) == [r EXCEPT !.cAss[Var(l)] = l < 0]

RECURSIVE makeRotation_acc(_, _)

\* The recursive calls, for the literals of clause c.
Deeper(r, c) ==
  FoldLeft(LAMBDA q, m :
             IF Var(m) < rl.limit /\ Var(m) \in q.cbs
               THEN [makeRotation_acc([q EXCEPT !.cbs = @ \ {Var(m)}], m)
                       EXCEPT !.cbs = @ \cup {Var(m)}]
               ELSE q,
           r, rl.clauses[c])

Selected(r, sel) ==
  IF sel \in r.cbs
    THEN [r EXCEPT !.budget = @ + MoreRotations, !.cbs = @ \ {sel}, !.mt = Append(@, sel)]
    ELSE r

\* A clause that an ancestor handles is left as it is, and so is l.
makeRotation_acc(r, l) ==
  LET less == [r EXCEPT !.budget = @ - 1]
      r1   == [less EXCEPT !.cAss[Var(l)] = l > 0]
      c    == flipTransition(r1.cAss, l)
      r2   == Selected(Deeper([r1 EXCEPT !.wasHere = @ \cup {c}], c), SelectorOf(rl, c))
  IN  CASE less.budget <= 0 -> less
        [] less.budget > 0 /\ c = Undef -> FlippedBack(r1, l)
        [] less.budget > 0 /\ c # Undef /\ c \in r.wasHere -> r1
        [] OTHER -> FlippedBack([r2 EXCEPT !.wasHere = @ \ {c}], l)

\* The literals that can be flipped, in the order of the clauses of the coMSS.
Considered == {i \in DOMAIN job.idx : job.szCores[i] # 0 \/ Len(job.coMss) <= 1}

CanBeFlipped(cbs) ==
  LET all == FoldLeft(LAMBDA q, i : IF i \in Considered THEN q \o rl.clauses[job.idx[i]] ELSE q,
                      << >>, [i \in DOMAIN job.idx |-> i])
  IN  FoldLeft(LAMBDA q, l : IF Var(l) \in cbs /\ \A k \in DOMAIN q : Var(q[k]) # Var(l)
                               THEN Append(q, l) ELSE q,
               << >>, all)

StartRotation ==
  /\ Task("rotation", "start")
  /\ LET cbs == job.cbs \ Range(job.coMss)
     IN  job' = [job EXCEPT !.at = "rotation", !.cbs = cbs]
                @@ [cAss |-> job.atom, todo |-> CanBeFlipped(cbs),
                    wasHere |-> {}, mt |-> [i \in DOMAIN job.idx |-> << >>]]
  /\ UNCHANGED rl

\* What is found for a literal counts for each clause of the coMSS it is in, once.
Added(found, t) == found \o SelectSeq(t, LAMBDA p : p \notin Range(found))

RotateOne ==
  /\ Task("rotation", "rotation")
  /\ job.todo # << >>
  /\ LET l == Head(job.todo)
         r == makeRotation_acc([cAss |-> job.cAss, cbs |-> job.cbs \ {Var(l)}, mt |-> << >>,
                                budget |-> Rotations, wasHere |-> job.wasHere], l)
     IN  job' = [job EXCEPT
                   !.todo = Tail(@), !.cAss = r.cAss, !.wasHere = r.wasHere,
                   !.cbs = r.cbs \cup {Var(l)} \cup Range(r.mt),
                   !.mt = [i \in DOMAIN @ |->
                             IF i \in Considered /\ Var(l) \in VarsIn(rl, job.idx[i])
                               THEN Added(@[i], r.mt) ELSE @[i]]]
  /\ UNCHANGED rl

RotationEnds ==
  /\ Task("rotation", "rotation")
  /\ job.todo = << >>
  /\ job' = [Done EXCEPT !.cbs = @ \cup Range(job.coMss)]
  /\ UNCHANGED rl

----------------------------------------------------------------------------
RlNext ==
  \/ Wsat \/ WsatEnds
  \/ performNextFlip \/ initInterpretationWithVecLit \/ FlipsEnd
  \/ StartDescent \/ DescentFlip \/ DescentEnds
  \/ StartRotation \/ RotateOne \/ RotationEnds

----------------------------------------------------------------------------
(* debugTest(), which the code has and never calls *)

TrueVars(s, c) == {Var(l) : l \in Range(Trues(s, c))}

\* What it asserts of one clause.
ClauseTested(s, c) ==
  /\ s.numtruelit[c] = Len(Trues(s, c))
  /\ s.numtruelit[c] = 1 => TrueVars(s, c) = {s.watch1[c]}
  /\ s.numtruelit[c] = 2 => {s.watch1[c], s.watch2[c]} \subseteq TrueVars(s, c)

debugTest(s) ==
  LET all       == DOMAIN s.clauses
      total(cs) == FoldSet(LAMBDA c, n : n + s.weight[c], 0, cs)
      false     == {c \in all : Trues(s, c) = << >>}
  IN  /\ \A c \in all : ClauseTested(s, c)
      /\ Len(s.falseClause) = Cardinality(false)
      /\ \A v \in DOMAIN s.atom :
           /\ s.makecount[v] = total({c \in false : v \in VarsIn(s, c)})
           /\ s.breakcount[v] = total({c \in all : TrueVars(s, c) = {v}})
      /\ \A k \in DOMAIN s.falseClause : s.wherefalse[s.falseClause[k]] = k

\* The counters are those of the interpretation, whatever was flipped: debugTest
\* would pass, the list of the false clauses holds these and no other, and the two
\* watched literals are different true ones as soon as there are two.
CountersExact ==
  /\ debugTest(rl)
  /\ FalseClauses(rl) = {c \in DOMAIN rl.clauses : Trues(rl, c) = << >>}
  /\ \A c \in DOMAIN rl.clauses :
       /\ rl.numtruelit[c] > 0 => rl.watch1[c] \in TrueVars(rl, c)
       /\ rl.numtruelit[c] > 1 => rl.watch2[c] \in TrueVars(rl, c) \ {rl.watch1[c]}

\* Some values of the other variables satisfy the hard clauses and the soft ones
\* of these selectors.
Possible(sels) ==
  \E a \in [1..(rl.limit - 1) -> BOOLEAN] :
    \A c \in DOMAIN rl.clauses :
      SelectorOf(rl, c) \in sels \cup {Undef} =>
        \E l \in Range(rl.clauses[c]) : Var(l) < rl.limit /\ Holds(a, l)

ActiveAtFirst == {v \in DOMAIN job.atom : v >= rl.limit /\ job.atom[v]}

\* A transition constraint is one: without its clause, the others can all be
\* satisfied, with, for a rotation, the clause of the coMSS it is found for
\* (oneDescent, makeRotation).  Between two rotations the interpretation is the
\* one of the MSS, and at the end of a descent the one it began with.
TransitionsTrue ==
  /\ job.task = "descent" /\ job.at # "start" =>
       \A p \in Range(job.mt) : Possible(ActiveAtFirst \ {p})
  /\ job.task = "descent" /\ job.at = "done" => rl.atom = job.atom
  /\ job.task = "rotation" /\ job.at # "start" =>
       /\ job.cAss = job.atom /\ job.wasHere = {}
       /\ \A i \in DOMAIN job.mt : \A p \in Range(job.mt[i]) :
            Possible((ActiveAtFirst \ {p}) \cup {job.coMss[i]})
=============================================================================
