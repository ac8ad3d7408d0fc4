--------------------------- MODULE ExternalProcess ---------------------------
(***************************************************************************)
(* One call of the external SAT solver (ExternalSatSolver::computeModel):  *)
(* a forked child runs the command with its output in a pipe, the parent   *)
(* waits for the end of the child, then reads the pipe line by line.  The  *)
(* lines are those of the SAT competitions: comments, one status line, and *)
(* the model in one or two value lines, the last one ended by 0.           *)
(***************************************************************************)
EXTENDS Integers, Sequences, Functions

CONSTANTS
  NVars,        \* variables of the formula
  Capacity,     \* bound: lines that the pipe holds
  MaxComments,  \* bound: comment lines the solver prints
  ValueLines,   \* bound: the numbers of lines a model may be printed in
  Statuses      \* bound: a subset of {"SATISFIABLE", "UNSATISFIABLE", "UNKNOWN"}

VARIABLES
  status, model,    \* what the solver finds: its status, and its model if any
  output,           \* the lines of the child
  toPrint,          \* the lines the child has still to print
  pipe,             \* the lines in the pipe
  child,            \* "forked", "running", "exited" or "failed"
  parent,           \* "waiting", "reading" or "returned"
  models,           \* ExternalSatSolver::models, as the sets of true variables
  modelFound        \* the result of the call

vars == <<status, model, output, toPrint, pipe, child, parent, models, modelFound>>

VarIds == 1..NVars

\* A line: what it starts with, the variables of its literals in order, and
\* whether it ends with 0.
Line(kind, from, to, ended) ==
  [kind |-> kind, from |-> from, to |-> to, ended |-> ended]

Comments(n) == [k \in 1..n |-> Line("c", 1, 0, FALSE)]

\* The value lines: one, or two with a break after the k-th literal.
ValuesIn(lines) ==
  IF lines = 1 THEN {<<Line("v", 1, NVars, TRUE)>>}
  ELSE {<<Line("v", 1, k, FALSE), Line("v", k + 1, NVars, TRUE)>> : k \in VarIds}

Printings(s) ==
  {Comments(n) \o <<Line(s, 1, 0, FALSE)>> \o values :
     n \in 0..MaxComments,
     values \in IF s = "SATISFIABLE" THEN UNION {ValuesIn(l) : l \in ValueLines}
                ELSE {<< >>}}

Init ==
  /\ status \in Statuses
  /\ model \in IF status = "SATISFIABLE" THEN SUBSET VarIds ELSE {{}}
  /\ output \in Printings(status)
  /\ toPrint = output
  /\ pipe = << >>
  /\ child = "forked"
  /\ parent = "waiting"
  /\ models = << >>
  /\ modelFound = FALSE

----------------------------------------------------------------------------
(* handleForkChild, and the solver it executes *)

Exec ==
  /\ child = "forked"
  /\ child' = "running"
  /\ UNCHANGED <<status, model, output, toPrint, pipe, parent, models, modelFound>>

PrintLine ==
  /\ child = "running"
  /\ toPrint # << >>
  /\ Len(pipe) < Capacity
  /\ pipe' = Append(pipe, Head(toPrint))
  /\ toPrint' = Tail(toPrint)
  /\ UNCHANGED <<status, model, output, child, parent, models, modelFound>>

Exit ==
  /\ child = "running"
  /\ toPrint = << >>
  /\ child' = "exited"
  /\ UNCHANGED <<status, model, output, toPrint, pipe, parent, models, modelFound>>

\* execvp fails, or the solver is killed between two lines.
Fail ==
  /\ child \in {"forked", "running"}
  /\ child' = "failed"
  /\ UNCHANGED <<status, model, output, toPrint, pipe, parent, models, modelFound>>

----------------------------------------------------------------------------
(* handleForkAncestor *)

Ended == child \in {"exited", "failed"}

Wait ==
  /\ parent = "waiting"
  /\ Ended
  /\ parent' = "reading"
  /\ UNCHANGED <<status, model, output, toPrint, pipe, child, models, modelFound>>

\* Mutant: every literal counts as positive.
UnsignedValues(line) ==
  {v \in VarIds : v >= line.from /\ v <= line.to}

\* extractModel: a number is stored when a blank follows it, so that the last
\* one of a line is lost unless the line ends with 0; the others are false.
ValuesOf(line) ==
  {v \in model : /\ v >= line.from
                 /\ v <= IF line.ended THEN line.to ELSE line.to - 1}

\* The line that ends the reading.
StopsReading(line) == line.kind = "UNSATISFIABLE"

ReadLine ==
  /\ parent = "reading"
  /\ pipe # << >>
  /\ pipe' = Tail(pipe)
  /\ IF Head(pipe).kind = "v"
       THEN models' = Append(models, ValuesOf(Head(pipe))) /\ modelFound' = TRUE
       ELSE UNCHANGED <<models, modelFound>>
  /\ parent' = IF StopsReading(Head(pipe)) THEN "returned" ELSE parent
  /\ UNCHANGED <<status, model, output, toPrint, child>>

\* Mutant: the parent's end is still open while it reads.
WritersKept == {"parent"} \cup (IF Ended THEN {} ELSE {"child"})

\* Who has the write end open: the parent has closed its own once it reads.
Writers ==
  (IF Ended THEN {} ELSE {"child"}) \cup (IF parent = "waiting" THEN {"parent"} ELSE {})

EndOfFile ==
  /\ parent = "reading"
  /\ pipe = << >>
  /\ Writers = {}
  /\ parent' = "returned"
  /\ UNCHANGED <<status, model, output, toPrint, pipe, child, models, modelFound>>

ChildStep == Exec \/ PrintLine \/ Exit

ParentStep == Wait \/ ReadLine \/ EndOfFile

Next ==
  \/ ChildStep
  \/ Fail
  \/ ParentStep
  \/ parent = "returned" /\ UNCHANGED vars

\* Both processes are scheduled; nothing makes the child fail.
Spec == Init /\ [][Next]_vars /\ WF_vars(ChildStep) /\ WF_vars(ParentStep)

----------------------------------------------------------------------------
\* The call ends: the parent and the child never wait for each other.
Returns == <>(parent = "returned")

\* What is read of a value line: its true variables, but for the last one of a line
\* that does not end the model.
Reported(line) ==
  {v \in model : line.from <= v /\ v <= line.to} \ IF line.ended THEN {} ELSE {line.to}

\* The models that were read are the value lines among the first n lines, each for
\* itself, all of them and in their order: the k-th model is the line at[k].
LinesReported(n) ==
  \E at \in [DOMAIN models -> 1..n] :
    /\ \A j, k \in DOMAIN models : j < k => at[j] < at[k]
    /\ \A m \in 1..n : output[m].kind = "v" <=> \E k \in DOMAIN models : at[k] = m
    /\ \A k \in DOMAIN models : models[k] = Reported(output[at[k]])

\* A call that has ended reports every value line that was printed, each as a model
\* of its own, in which the variables of the other lines are false; a model that is
\* printed in one line is reported as it is, one that is printed in two becomes two
\* models.  It reports a model only if the solver has found one, even when
\* the solver fails later.  "No model" is right if the solver ended with a verdict;
\* s UNKNOWN and a failure are not told from "no model".
ResultTruthful ==
  parent = "returned" =>
    /\ LinesReported(Len(output) - Len(toPrint))
    /\ modelFound <=> models # << >>
    /\ modelFound =>
         /\ status = "SATISFIABLE"
         /\ Line("v", 1, NVars, TRUE) \in Range(output) => models = <<model>>
    /\ ~modelFound /\ child = "exited" /\ status # "UNKNOWN" =>
         status = "UNSATISFIABLE"
=============================================================================
