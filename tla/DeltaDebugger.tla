---------------------------- MODULE DeltaDebugger ----------------------------
(***************************************************************************)
(* What the two delta debuggers of dtools share (cnfdd.c, and mtcnfdd.c,   *)
(* its version with threads): both remove clauses and literals from a      *)
(* formula and renumber its variables, as long as a command exits as it    *)
(* did on the formula of src, and keep the smallest formula so far in dst. *)
(* The command is any deterministic one: on a new file it ends in either   *)
(* way, and on a known one as before.                                      *)
(***************************************************************************)
EXTENDS Integers, FiniteSetsExt, SequencesExt, TLC

CONSTANT Invocations
  \* bound: the command lines, as records [source, thorough, threads, startWidth,
  \* mergeWidth, mergeRounds]: the formula of src, a sequence of sequences of
  \* literals, and the options -t, -T, -s, -mmw and -mmr (-1 where the last three
  \* of them have no limit)

VARIABLES
  options,
  clauses,      \* the clauses that are left, as positions in the source, or Removed
  falsified,    \* <<c, j>>: the j-th literal of clause c has become FALSE
  movedto,      \* the number that each variable is printed with
  dst,          \* the file of the result
  answers,      \* of each file the command has run on: is the exit code as expected?
  changed,      \* something was saved in this round
  phase,        \* where main is
  width,        \* how many clauses reduce() removes at once
  removed       \* how much the running loop of reduce() or shrink() has removed

formula == <<clauses, falsified, movedto>>
debuggerVars == <<options, formula, dst, answers, changed, phase, width, removed>>

Removed == 0

Source == options.source

LitAt(e) == Source[e[1]][e[2]]

VarAt(e) == IF LitAt(e) < 0 THEN -LitAt(e) ELSE LitAt(e)

\* The literals of some clauses, as <<c, j>>.
LitsOf(cs) == UNION {{c} \X DOMAIN Source[c] : c \in cs \ {Removed}}

----------------------------------------------------------------------------
(* print() and run() *)

\* The literals of clause c that are not FALSE, by their positions.
KeptLits(c, gone) ==
  SelectSeq([j \in DOMAIN Source[c] |-> j], LAMBDA j : <<c, j>> \notin gone)

PrintedLit(e, names) == IF LitAt(e) < 0 THEN -names[VarAt(e)] ELSE names[VarAt(e)]

PrintedClause(c, gone, names) ==
  LET kept == KeptLits(c, gone)
  IN  [k \in DOMAIN kept |-> PrintedLit(<<c, kept[k]>>, names)]

\* keptvariables(), for the header.
KeptVariables(cls, gone, names) ==
  Max({0} \cup {names[VarAt(e)] : e \in LitsOf(Range(cls)) \ gone})

\* A file, its header counted first, from the literals that were FALSE then.
Printed(cls, counted, gone, names) ==
  LET left == SelectSeq(cls, LAMBDA c : c # Removed)
  IN  [vars    |-> KeptVariables(cls, counted, names),
       clauses |-> [k \in DOMAIN left |-> PrintedClause(left[k], gone, names)]]

File(cls, gone, names) == Printed(cls, gone, gone, names)

Current == File(clauses, falsified, movedto)

\* The command runs on a file: does it exit with the expected code?
RunsExpected(file, expected) ==
  /\ expected \in IF file \in DOMAIN answers THEN {answers[file]} ELSE BOOLEAN
  /\ answers' = (file :> expected) @@ answers

\* save(), of a formula.
Save(cls, gone, names) ==
  /\ dst' = File(cls, gone, names)
  /\ changed' = TRUE

NothingSaved == UNCHANGED <<dst, changed>>

\* parse() and setup(): the expected code is the one of the formula of src.
DebuggerInit ==
  /\ options \in Invocations
  /\ clauses = [c \in DOMAIN Source |-> c]
  /\ falsified = {}
  /\ movedto = [v \in {VarAt(e) : e \in LitsOf(DOMAIN Source)} |-> v]
  /\ dst = Current
  /\ answers = (dst :> TRUE)
  /\ changed = TRUE
  /\ phase = "round"
  /\ width = 0
  /\ removed = 0

----------------------------------------------------------------------------
(* What the main loops and reduce() have in common *)

\* Mutant: the last pass is the one of width 2.
NextWidthAboveOne(found) ==
  IF found > 0 /\ options.thorough THEN Len(clauses)
  ELSE IF width > 2 THEN (width + 1) \div 2 ELSE 0

\* The array still has its places for the clauses removed in this pass.
NextWidth(found) ==
  IF found > 0 /\ options.thorough THEN Len(clauses)
  ELSE IF width > 1 THEN (width + 1) \div 2 ELSE 0

\* The end of a pass of reduce(): the removed clauses are taken out of the array.
EndPass ==
  /\ IF removed > 0 THEN Save(clauses, falsified, movedto) ELSE NothingSaved
  /\ width' = NextWidth(removed)
  /\ clauses' = SelectSeq(clauses, LAMBDA c : c # Removed)
  /\ phase' = "reduce"
  /\ UNCHANGED <<options, falsified, movedto, answers, removed>>

\* Mutant: it saves even when nothing was removed.
EndShrinkingSaved(n) ==
  /\ removed' = n
  /\ Save(clauses, falsified, movedto)
  /\ phase' = "move again"
  /\ UNCHANGED <<options, formula, answers, width>>

\* The end of shrink(), which has removed n literals.
EndShrinking(n) ==
  /\ removed' = n
  /\ IF n > 0 THEN Save(clauses, falsified, movedto) ELSE NothingSaved
  /\ phase' = "move again"
  /\ UNCHANGED <<options, formula, answers, width>>

\* The variables that occur, and the numbers 1, 2, ... for them in their order.
Used == {VarAt(e) : e \in LitsOf(Range(clauses)) \ falsified}

Compacted ==
  [v \in DOMAIN movedto |->
     IF v \in Used THEN Cardinality({u \in Used : u <= v}) ELSE movedto[v]]

\* Are there numbers to spare?
Sparse == \E v \in Used : movedto[v] > Cardinality(Used)

\* Mutant: the renumbered formula is saved whatever the command says.
RenumberBlindly ==
  /\ \E expected \in BOOLEAN : RunsExpected(File(clauses, falsified, Compacted), expected)
  /\ movedto' = Compacted
  /\ Save(clauses, falsified, Compacted)

Renumber ==
  \E expected \in BOOLEAN :
    /\ RunsExpected(File(clauses, falsified, Compacted), expected)
    /\ IF expected
         THEN movedto' = Compacted /\ Save(clauses, falsified, Compacted)
         ELSE UNCHANGED movedto /\ NothingSaved

\* move()
Move(from, next) ==
  /\ phase = from
  /\ phase' = next
  /\ IF Sparse THEN Renumber ELSE UNCHANGED <<movedto, answers>> /\ NothingSaved
  /\ UNCHANGED <<options, clauses, falsified, width, removed>>

\* The end of a round, and of main.
EndRound ==
  /\ phase = "check"
  /\ phase' = IF changed THEN "round" ELSE "done"
  /\ UNCHANGED <<options, formula, dst, answers, changed, width, removed>>

\* A round but for reduce() and shrink().
MainStep ==
  \/ Move("move", "shrink")
  \/ Move("move again", "check")
  \/ EndRound

----------------------------------------------------------------------------
Reproduces(file) == file \in DOMAIN answers /\ answers[file]

Size(file) == FoldLeft(LAMBDA n, c : n + 1 + Len(c), 0, file.clauses)

\* dst is only written with a smaller formula, or the same with smaller numbers, on
\* which the command has run and has exited as on the one of src (save, at its
\* four calls).
OnlyShrinks ==
  [][dst' # dst =>
       /\ Reproduces(dst)'
       /\ \/ Size(dst') < Size(dst)
          \/ Size(dst') = Size(dst) /\ dst'.vars < dst.vars]_dst

\* When a debugger ends, the command has exited otherwise without any single
\* clause of the result, and, with one thread, without any single literal.
Minimal ==
  phase = "done" =>
    /\ \A k \in DOMAIN clauses :
         LET file == File([clauses EXCEPT ![k] = Removed], falsified, movedto)
         IN  file \in DOMAIN answers /\ ~answers[file]
    /\ options.threads = 1 =>
         \A e \in LitsOf(Range(clauses)) \ falsified :
           LET file == File(clauses, falsified \cup {e}, movedto)
           IN  file \in DOMAIN answers /\ ~answers[file]
=============================================================================
