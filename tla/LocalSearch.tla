----------------------------- MODULE LocalSearch -----------------------------
(***************************************************************************)
(* What cmp/approx/localSearch.cc adds to the search of SolverRL: partial  *)
(* MaxSAT, with counters of hard and of soft clauses, and the refinement   *)
(* of an assignment.                                                       *)
(***************************************************************************)
EXTENDS SolverRL

CONSTANT FlipsOfRepair    \* bound: the flips of the last loop of wsat4PMS

isHardClause(s, c) == s.weight[c] > 1

----------------------------------------------------------------------------
(* Counters of hard and of soft clauses *)

\* n more false clauses: clause c.
FalseOfKind(s, c, n) ==
  IF isHardClause(s, c)
    THEN [s EXCEPT !.h_numfalse = @ + n,
                   !.h_makecount = Plus(@, VarsIn(s, c), n * s.weight[c])]
    ELSE [s EXCEPT !.s_numfalse = @ + n,
                   !.s_makecount = Plus(@, VarsIn(s, c), n)]

BreaksKind(s, c, v, n) ==
  IF isHardClause(s, c)
    THEN [s EXCEPT !.h_breakcount[v] = @ + n * s.weight[c]]
    ELSE [s EXCEPT !.s_breakcount[v] = @ + n]

InitClause4PMS(s, c) ==
  LET t == InitClause(s, c)
  IN  CASE t.numtruelit[c] = 0 -> FalseOfKind(t, c, 1)
        [] t.numtruelit[c] = 1 -> BreaksKind(t, c, t.watch1[c], 1)
        [] OTHER -> t

init_wsat4PMS(s) ==
  LET zero == [v \in DOMAIN s.atom |-> 0]
      kinds == [h_numfalse |-> 0, s_numfalse |-> 0, h_makecount |-> zero,
                s_makecount |-> zero, h_breakcount |-> zero, s_breakcount |-> zero]
  IN  FoldLeft(InitClause4PMS, kinds @@ Reset(s), Indices(s))

Loses4PMS(v, s, c) ==
  LET t == Loses(v, s, c)
  IN  CASE t.numtruelit[c] = 0 -> BreaksKind(FalseOfKind(t, c, 1), c, v, -1)
        [] t.numtruelit[c] = 1 -> BreaksKind(t, c, t.watch1[c], 1)
        [] OTHER -> t

\* Mutant: a hard clause that becomes true is still counted.
Gains4PMSUncounted(v, s, c) ==
  LET t == Gains(v, s, c)
  IN  IF t.numtruelit[c] = 1 /\ ~isHardClause(s, c) THEN FalseOfKind(t, c, -1) ELSE t

\* The second true literal: the test is on the weight and not on isHardClause, so
\* that the count of the hard clauses pays for the soft ones.
Gains4PMS(v, s, c) ==
  LET t == Gains(v, s, c)
  IN  CASE t.numtruelit[c] = 1 -> BreaksKind(FalseOfKind(t, c, -1), c, v, 1)
        [] t.numtruelit[c] = 2 -> [t EXCEPT !.h_breakcount[t.watch1[c]] = @ - s.weight[c]]
        [] OTHER -> t

flipatom4PMS(s, l) ==
  LET v    == Var(l)
      t    == Assigned(Counted(s), l)
      lost == FoldLeft(LAMBDA u, c : Loses4PMS(v, u, c), t, Occurrences(s, -l))
  IN  IF l = Undef \/ Holds(s.atom, l)
        THEN Counted(s)
        ELSE FoldLeft(LAMBDA u, c : Gains4PMS(v, u, c), lost, Occurrences(s, l))

\* The first literal of a variable in the clauses, true or false.
FirstLitOf(s, v) ==
  LET lits == SelectSeq(FlattenSeq(s.clauses), LAMBDA l : Var(l) = v) IN lits[1]

\* A variable that helps the hard clauses, or else one that helps the soft ones
\* most and harms no hard one, or none.
bestLitToFlip(s) ==
  LET hard(v) == s.h_makecount[v] - s.h_breakcount[v]
      soft(v) == s.s_makecount[v] - s.s_breakcount[v]
      occurs(v) == \E c \in DOMAIN s.clauses : v \in VarsIn(s, c)
      open   == DOMAIN s.atom \ s.isAssign
      better == {v \in open : hard(v) > 0 /\ occurs(v)}
      even   == {v \in open : hard(v) = 0 /\ soft(v) > 0}
      most   == {v \in even : \A u \in even : soft(v) >= soft(u)}
  IN  CASE better # {} -> {FirstLitOf(s, v) : v \in better}
        [] better = {} /\ most # {} -> {FirstLitOf(s, Min(most))}
        [] OTHER -> {Undef}

----------------------------------------------------------------------------
(* wsat(), with another choice than the one of SolverRL *)

LsWsat == Task("ls wsat", "start") /\ WalkStep(rnovelty(rl))

LsWsatEnds ==
  /\ Task("ls wsat", "start")
  /\ WalkOver
  /\ job' = Done
  /\ UNCHANGED rl

----------------------------------------------------------------------------
(* refineAssigns(): assigns is the interpretation of rl when it ends *)

\* wsat_()
RefineWalk == Task("refine", "start") /\ job.optWSAT /\ WalkStep(best(rl))

RefineWalkEnds ==
  /\ Task("refine", "start") /\ job.optWSAT
  /\ WalkOver
  /\ job' = Done @@ [assigns |-> rl.atom, result |-> rl.falseClause = << >>]
  /\ UNCHANGED rl

\* The literals of the false clauses, each variable once, selectors left out.
LitsToFlip(skipped) ==
  LET all == FlattenSeq([k \in DOMAIN rl.falseClause |-> rl.clauses[rl.falseClause[k]]])
  IN  FoldLeft(LAMBDA q, l : IF /\ Var(l) < rl.limit /\ Var(l) \notin skipped
                                /\ \A k \in DOMAIN q : Var(q[k]) # Var(l)
                               THEN Append(q, l) ELSE q,
               << >>, all)

StartRefine ==
  /\ job.task \in {"refine", "refine soft"} /\ job.at = "start" /\ ~job.optWSAT
  /\ job' = [job EXCEPT !.at = "refining"]
            @@ [todo |-> LitsToFlip(IF job.task = "refine" THEN {} ELSE rl.isAssign)]
  /\ UNCHANGED rl

\* Mutant: the flips are decided by the counters of the beginning.
IsGainAtFirst(l) ==
  LET s == init(NewSearch(job.f, job.atom, job.isAssign))
  IN  IF job.task = "refine" THEN Diff(s, l) > 0 ELSE s.breakcount[Var(l)] = 0

\* A flip that makes more than it breaks, or, for the soft part, breaks nothing.
IsGain(l) ==
  IF job.task = "refine" THEN Diff(rl, l) > 0 ELSE rl.breakcount[Var(l)] = 0

RefineOne ==
  /\ job.at = "refining" /\ job.todo # << >>
  /\ rl' = IF IsGain(Head(job.todo)) THEN flipatom(rl, Head(job.todo)) ELSE rl
  /\ job' = [job EXCEPT !.todo = Tail(@)]

RefineEnds ==
  /\ job.at = "refining" /\ job.todo = << >>
  /\ job' = Done @@ [assigns |-> rl.atom, result |-> rl.falseClause = << >>]
  /\ UNCHANGED rl

----------------------------------------------------------------------------
(* wsat4PMS(), called by refineSoftPartAssigns() *)

NoCost == 2147483647

StartPMS ==
  /\ Task("refine soft", "start") /\ job.optWSAT
  /\ rl' = init_wsat4PMS(rl)
  /\ job' = [job EXCEPT !.at = IF rl'.falseClause = << >> THEN "kept" ELSE "pms"]
            @@ [cost |-> NoCost, bestAtom |-> rl.atom]

\* Mutant: the best interpretation is the one with the fewest false soft clauses.
KeptAnyway(s) ==
  IF s.s_numfalse < job.cost
    THEN [job EXCEPT !.bestAtom = s.atom, !.cost = s.s_numfalse] ELSE job

\* The best interpretation of those that satisfy the hard clauses.
Kept(s) ==
  IF s.h_numfalse = 0 /\ s.s_numfalse < job.cost
    THEN [job EXCEPT !.bestAtom = s.atom, !.cost = s.s_numfalse] ELSE job

PmsStep ==
  /\ Task("refine soft", "pms")
  /\ rl.falseClause # << >> /\ job.numtry > 0
  /\ IF rl.numflip < bornMaxFlips
       THEN \E l \in best(rl) :
              LET s == flipatom4PMS(rl, l) IN rl' = Counted(s) /\ job' = Kept(s)
       ELSE /\ rl' = [init_wsat4PMS(rl) EXCEPT !.numflip = 0]
            /\ job' = [job EXCEPT !.numtry = @ - 1]

\* The last loop, as long as a hard clause is false: nothing says that it ends.
PmsRepair ==
  /\ Task("refine soft", "pms")
  /\ WalkOver /\ rl.h_numfalse # 0
  /\ rl.numflip < FlipsOfRepair
  /\ \E l \in bestLitToFlip(rl) :
       LET s == flipatom4PMS(rl, l) IN rl' = s /\ job' = Kept(s)

\* It goes on beyond the bound.
PmsStuck ==
  /\ Task("refine soft", "pms")
  /\ WalkOver /\ rl.h_numfalse # 0
  /\ rl.numflip >= FlipsOfRepair

PmsEnds ==
  /\ \/ Task("refine soft", "kept")
     \/ Task("refine soft", "pms") /\ WalkOver /\ rl.h_numfalse = 0
  /\ job' = Done @@ [assigns |-> job.bestAtom]
  /\ UNCHANGED rl

----------------------------------------------------------------------------
LsNext ==
  \/ LsWsat \/ LsWsatEnds
  \/ RefineWalk \/ RefineWalkEnds
  \/ StartRefine \/ RefineOne \/ RefineEnds
  \/ StartPMS \/ PmsStep \/ PmsRepair \/ PmsEnds

SearchInit == RlInit

SearchNext == RlNext \/ LsNext

SearchOver == job.at = "done" \/ PmsStuck

----------------------------------------------------------------------------
\* The counters by kind are exact too: the false clauses and the makecounts.  The two
\* breakcounts are left out, which flipatom4PMS does not keep exact.
KindsExact ==
  "h_numfalse" \in DOMAIN rl =>
    LET false(hard)    == {c \in FalseClauses(rl) : isHardClause(rl, c) <=> hard}
        of(cs, v)      == {c \in cs : v \in VarsIn(rl, c)}
        total(cs)      == FoldSet(LAMBDA c, n : n + rl.weight[c], 0, cs)
    IN  /\ rl.h_numfalse = Cardinality(false(TRUE))
        /\ rl.s_numfalse = Cardinality(false(FALSE))
        /\ \A v \in DOMAIN rl.atom :
             /\ rl.h_makecount[v] = total(of(false(TRUE), v))
             /\ rl.s_makecount[v] = Cardinality(of(false(FALSE), v))

SatisfiedBy(a) ==
  {c \in DOMAIN rl.clauses : \E l \in Range(rl.clauses[c]) : Holds(a, l)}

FalseWeight(a) ==
  FoldSet(LAMBDA c, n : n + rl.weight[c], 0, DOMAIN rl.clauses \ SatisfiedBy(a))

HardOf(cs) == {c \in cs : isHardClause(rl, c)}

\* What a refinement hands back.  A descent of refineAssigns leaves no more weight of
\* clauses false than there was; its walk keeps an interpretation that was a model, and
\* otherwise returns the one it ends with, worse or not; true is returned with models
\* only.  A descent of refineSoftPartAssigns falsifies no clause; wsat4PMS returns a
\* model that it ends with, and else the interpretation it was given or one that
\* satisfies the hard clauses, which may falsify more soft clauses than the given one.
RefinementExact ==
  "assigns" \in DOMAIN job =>
    LET all   == DOMAIN rl.clauses
        given == SatisfiedBy(job.atom)
        now   == SatisfiedBy(job.assigns)
    IN  /\ job.task = "refine" =>
             /\ job.result <=> now = all
             /\ job.optWSAT /\ given = all => job.assigns = job.atom
             /\ ~job.optWSAT => FalseWeight(job.assigns) <= FalseWeight(job.atom)
        /\ job.task = "refine soft" /\ ~job.optWSAT => given \subseteq now
        /\ job.task = "refine soft" /\ job.optWSAT =>
             /\ given = all => job.assigns = job.atom
             /\ rl.falseClause = << >> => now = all
             /\ job.assigns = job.atom \/ HardOf(now) = HardOf(all)
=============================================================================
