------------------------------- MODULE MtCnfdd -------------------------------
(***************************************************************************)
(* mtcnfdd.c: the threads of reduce() remove clauses of one part of the    *)
(* formula each, and main then merges what they found; those of shrink()   *)
(* falsify literals of one part each, and put them together clause by      *)
(* clause under a mutex.  A thread of shrink() prints the clauses of the   *)
(* others while they write them, without the mutex: it may then read the   *)
(* old or the new value of each literal, and not the same one for the      *)
(* header.                                                                 *)
(***************************************************************************)
EXTENDS DeltaDebugger

VARIABLES
  workers,      \* workerinfo of the running threads
  mutex,        \* the thread that holds headclauses_mutex, or 0
  startWidth,   \* start_reduce_width
  merging       \* the local variables of try_merge

mtOnly == <<workers, mutex, startWidth, merging>>
mtVars == <<debuggerVars, mtOnly>>

NoMerge == [failed |-> << >>, last |-> << >>, width |-> 0, start |-> 0, round |-> 0]

MtInit ==
  /\ DebuggerInit
  /\ workers = << >>
  /\ mutex = 0
  /\ startWidth = options.startWidth
  /\ merging = NoMerge

\* The part of each of some threads: positions start + 1 .. end.
Parts(count) ==
  LET part == Len(clauses) \div count
  IN  [t \in 1..count |->
         [start |-> (t - 1) * part, end |-> IF t = count THEN Len(clauses) ELSE t * part]]

PartOf(t) == (workers[t].start + 1)..workers[t].end

AllEnded == \A t \in DOMAIN workers : workers[t].position = workers[t].end

RemovedBy == [t \in DOMAIN workers |-> workers[t].removed]

----------------------------------------------------------------------------
(* reduce() and reduce_worker() *)

MtStartRound ==
  /\ phase = "round"
  /\ changed' = FALSE
  /\ width' = IF startWidth = -1 THEN Len(clauses) ELSE startWidth
  /\ startWidth' = -1
  /\ phase' = "reduce"
  /\ UNCHANGED <<options, formula, dst, answers, removed, workers, mutex, merging>>

StartReducers ==
  /\ phase = "reduce"
  /\ width > 0 /\ clauses # << >>
  /\ LET parts == Parts(Min({options.threads, (Len(clauses) + width - 1) \div width}))
     IN  workers' = [t \in DOMAIN parts |->
                       parts[t] @@ [position |-> parts[t].start, removed |-> 0, test |-> clauses]]
  /\ phase' = "reducing"
  /\ UNCHANGED <<options, formula, dst, answers, changed, width, removed, mutex, startWidth, merging>>

\* A thread tries to do without the next clauses of its part.
ReduceWorker(t) ==
  /\ phase = "reducing"
  /\ workers[t].position < workers[t].end
  /\ LET w     == workers[t]
         end   == Min({w.position + width, w.end})
         range == (w.position + 1)..end
         test  == [k \in DOMAIN w.test |-> IF k \in range THEN Removed ELSE w.test[k]]
     IN  \E expected \in BOOLEAN :
           /\ RunsExpected(File(test, falsified, movedto), expected)
           /\ workers' = [workers EXCEPT ![t] =
                IF expected
                  THEN [w EXCEPT !.position = end, !.removed = @ + Cardinality(range), !.test = test]
                  ELSE [w EXCEPT !.position = end]]
  /\ UNCHANGED <<options, formula, dst, changed, phase, width, removed, mutex, startWidth, merging>>

\* What the threads have left, each in its part.
Joined ==
  [k \in DOMAIN clauses |->
     workers[CHOOSE t \in DOMAIN workers : k \in PartOf(t)].test[k]]

\* The first thread that has removed the most.
Best ==
  CHOOSE t \in DOMAIN workers :
    \A u \in DOMAIN workers :
      RemovedBy[u] < RemovedBy[t] \/ (RemovedBy[u] = RemovedBy[t] /\ t <= u)

\* What the best thread has left, the other parts untouched.
OfBest ==
  [k \in DOMAIN clauses |-> IF k \in PartOf(Best) THEN workers[Best].test[k] ELSE clauses[k]]

\* The clauses that only the other threads could do without.
OthersRemoved ==
  SelectSeq([k \in DOMAIN clauses |-> k],
            LAMBDA k : OfBest[k] # Removed /\ Joined[k] = Removed)

\* Mutant: what each thread could do without, main does without.
MergeBlindly ==
  /\ clauses' = Joined
  /\ removed' = FoldLeft(+, 0, RemovedBy)
  /\ phase' = "reduced"
  /\ UNCHANGED <<answers, merging>>

\* The joined results, if the command exits as expected with them; or else those of
\* the best thread, with which try_merge starts.
Merge ==
  \E expected \in BOOLEAN :
    /\ RunsExpected(File(Joined, falsified, movedto), expected)
    /\ IF expected
         THEN /\ clauses' = Joined
              /\ removed' = FoldLeft(+, 0, RemovedBy)
              /\ phase' = "reduced"
              /\ UNCHANGED merging
         ELSE /\ clauses' = OfBest
              /\ removed' = workers[Best].removed
              /\ phase' = "merging"
              /\ merging' = [failed |-> Joined, last |-> OthersRemoved,
                             width |-> Len(OthersRemoved) \div 2, start |-> 0, round |-> 0]

\* All threads have ended.
MergeWorkers ==
  /\ phase = "reducing" /\ AllEnded
  /\ IF FoldLeft(+, 0, RemovedBy) = 0
       THEN removed' = 0 /\ phase' = "reduced" /\ UNCHANGED <<clauses, answers, merging>>
       ELSE Merge
  /\ UNCHANGED <<options, falsified, movedto, dst, changed, width, workers, mutex, startWidth>>

MergeGoesOn == merging.width > options.mergeWidth /\ merging.round # options.mergeRounds

\* The places of the next clauses of the other threads.
NextPlaces ==
  {merging.last[k] : k \in (merging.start + 1)..Min({merging.start + merging.width, Len(merging.last)})}

NextMerge ==
  IF merging.start + merging.width < Len(merging.last)
    THEN [merging EXCEPT !.start = @ + merging.width]
    ELSE [merging EXCEPT !.start = 0, !.round = @ + 1,
                         !.width = IF @ > 1 THEN (@ + 1) \div 2 ELSE 0]

\* try_merge: the next of the other threads' clauses are left out as well.
TryMerge ==
  /\ phase = "merging" /\ MergeGoesOn
  /\ LET test  == [k \in DOMAIN clauses |-> IF k \in NextPlaces THEN merging.failed[k] ELSE clauses[k]]
         found == Cardinality({k \in NextPlaces : test[k] # clauses[k]})
     IN  IF found = 0
           THEN UNCHANGED <<clauses, answers, removed>>
           ELSE \E expected \in BOOLEAN :
                  /\ RunsExpected(File(test, falsified, movedto), expected)
                  /\ clauses' = IF expected THEN test ELSE clauses
                  /\ removed' = IF expected THEN removed + found ELSE removed
  /\ merging' = NextMerge
  /\ UNCHANGED <<options, falsified, movedto, dst, changed, phase, width, workers, mutex, startWidth>>

EndMerge ==
  /\ phase = "merging" /\ ~MergeGoesOn
  /\ phase' = "reduced"
  /\ merging' = NoMerge
  /\ UNCHANGED <<options, formula, dst, answers, changed, width, removed, workers, mutex, startWidth>>

EndReducers ==
  /\ phase = "reduced"
  /\ EndPass
  /\ workers' = << >>
  /\ UNCHANGED <<mutex, startWidth, merging>>

MtEndReduce ==
  /\ phase = "reduce"
  /\ width = 0 \/ clauses = << >>
  /\ phase' = "move"
  /\ UNCHANGED <<options, formula, dst, answers, changed, width, removed, mtOnly>>

----------------------------------------------------------------------------
(* shrink() and shrink_worker() *)

\* The position after j of the next literal of clause c to try, or 0.
NextLit(c, j, gone) ==
  LET later == {k \in DOMAIN Source[c] : k > j /\ <<c, k>> \notin gone}
  IN  IF later = {} THEN 0 ELSE Min(later)

\* A thread that arrives at its (k+1)-th clause, of which it makes a copy.
AtClause(w, k) ==
  [w EXCEPT !.position = k, !.own = {}, !.at = "literal",
            !.lit = IF k < w.end THEN NextLit(clauses[k + 1], 0, falsified) ELSE 0]

Shrinker(part) ==
  AtClause(part @@ [position |-> 0, removed |-> 0, own |-> {}, lit |-> 0, at |-> "literal", torn |-> {}],
           part.start)

StartShrinkers ==
  /\ phase = "shrink" /\ clauses # << >>
  /\ LET parts == Parts(Min({options.threads, Len(clauses)}))
     IN  workers' = [t \in DOMAIN parts |-> Shrinker(parts[t])]
  /\ phase' = "shrinking"
  /\ UNCHANGED <<options, formula, dst, answers, changed, width, removed, mutex, startWidth, merging>>

SkipShrink ==
  /\ phase = "shrink" /\ clauses = << >>
  /\ phase' = "move again"
  /\ UNCHANGED <<options, formula, dst, answers, changed, width, removed, mtOnly>>

ClauseOf(t) == clauses[workers[t].position + 1]

Shrinking(t, at) ==
  /\ phase = "shrinking"
  /\ workers[t].position < workers[t].end
  /\ workers[t].at = at

\* Thread t writes some literals of the shared clauses: another one that is printing
\* them may read what they were or what they are.
Written(t, ws, lits) ==
  [u \in DOMAIN ws |->
     IF u # t /\ ws[u].at = "printing" THEN [ws[u] EXCEPT !.torn = @ \cup lits] ELSE ws[u]]

\* It falsifies the next literal of its copy, and starts to print the formula.
MtFalsifyLit(t) ==
  /\ Shrinking(t, "literal")
  /\ workers[t].lit # 0
  /\ workers' = [workers EXCEPT ![t].own = @ \cup {<<ClauseOf(t), workers[t].lit>>},
                                ![t].at = "printing", ![t].torn = {}]
  /\ UNCHANGED <<debuggerVars, mutex, startWidth, merging>>

\* The command exits on what was printed.
TestLit(t) ==
  /\ Shrinking(t, "printing")
  /\ LET w      == workers[t]
         sure   == (falsified \ w.torn) \cup w.own
         tested == <<ClauseOf(t), w.lit>>
     IN  \E counted \in SUBSET w.torn, printed \in SUBSET w.torn, expected \in BOOLEAN :
           LET own == IF expected THEN w.own ELSE w.own \ {tested}
           IN  /\ RunsExpected(Printed(clauses, sure \cup counted, sure \cup printed, movedto), expected)
               /\ workers' = [workers EXCEPT ![t] =
                    [w EXCEPT !.own = own, !.torn = {}, !.at = "literal",
                              !.lit = NextLit(ClauseOf(t), w.lit, falsified \cup own)]]
  /\ UNCHANGED <<options, formula, dst, changed, phase, width, removed, mutex, startWidth, merging>>

\* Nothing to synchronise for this clause.
NextClause(t) ==
  /\ Shrinking(t, "literal")
  /\ workers[t].lit = 0 /\ workers[t].own = {}
  /\ workers' = [workers EXCEPT ![t] = AtClause(@, @.position + 1)]
  /\ UNCHANGED <<debuggerVars, mutex, startWidth, merging>>

\* pthread_mutex_lock
Lock(t) == mutex = 0 /\ mutex' = t

\* With the mutex, the falsified literals are written into the shared clause ...
Synchronise(t) ==
  /\ Shrinking(t, "literal")
  /\ workers[t].lit = 0 /\ workers[t].own # {}
  /\ Lock(t)
  /\ falsified' = falsified \cup workers[t].own
  /\ workers' = Written(t, [workers EXCEPT ![t].at = "sync"], workers[t].own)
  /\ UNCHANGED <<options, clauses, movedto, dst, answers, changed, phase, width, removed, startWidth, merging>>

\* ... and stay if the command still exits as expected.
EndSynchronise(t) ==
  /\ Shrinking(t, "sync")
  /\ mutex' = 0
  /\ \E expected \in BOOLEAN :
       LET w == workers[t]
           v == [w EXCEPT !.removed = IF expected THEN @ + Cardinality(w.own) ELSE @]
       IN  /\ RunsExpected(Current, expected)
           /\ falsified' = IF expected THEN falsified ELSE falsified \ w.own
           /\ workers' = Written(t, [workers EXCEPT ![t] = AtClause(v, w.position + 1)],
                                 IF expected THEN {} ELSE w.own)
  /\ UNCHANGED <<options, clauses, movedto, dst, changed, phase, width, removed, startWidth, merging>>

ShrinkWorker(t) ==
  \/ MtFalsifyLit(t)
  \/ TestLit(t)
  \/ NextClause(t)
  \/ Synchronise(t)
  \/ EndSynchronise(t)

MtEndShrink ==
  /\ phase = "shrinking" /\ AllEnded
  /\ EndShrinking(FoldLeft(+, 0, RemovedBy))
  /\ workers' = << >>
  /\ UNCHANGED <<mutex, startWidth, merging>>

----------------------------------------------------------------------------
MtMain ==
  \/ MtStartRound
  \/ StartReducers
  \/ MergeWorkers
  \/ TryMerge
  \/ EndMerge
  \/ EndReducers
  \/ MtEndReduce
  \/ StartShrinkers
  \/ SkipShrink
  \/ MtEndShrink
  \/ MainStep /\ UNCHANGED mtOnly

Worker(t) == t \in DOMAIN workers /\ (ReduceWorker(t) \/ ShrinkWorker(t))

MtNext == MtMain \/ \E t \in DOMAIN workers : Worker(t)
=============================================================================
