----------------------------- MODULE MCExternal -----------------------------
(***************************************************************************)
(* The external SAT back end: one call with its child process and its pipe *)
(* over three variables, or a task of the stable solver over two arguments *)
(* and every instance, with changes of an attack and of a self-attack.  A  *)
(* behaviour is one of the two; they meet in the result of a call.         *)
(***************************************************************************)
EXTENDS ExternalSat, TLC

CONSTANTS
  a, b,
  Kinds,                    \* bound: a subset of {"call", "task"}
  NVars, Capacity, MaxComments, ValueLines, Statuses    \* as in ExternalProcess

VARIABLES
  kind,                     \* "call" or "task"
  status, model, output, toPrint, pipe, child, parent,
  callModels, modelFound    \* models and modelFound of the one call

\* The verdicts are those of the competitions.
ASSUME ProcessAssumption ==
  /\ NVars \in Nat
  /\ Statuses \subseteq {"SATISFIABLE", "UNSATISFIABLE", "UNKNOWN"}

Process == INSTANCE ExternalProcess WITH models <- callModels

MCOrder     == <<a, b>>
MCArg       == {a, b}
MCChanging  == {<<a, b>>, <<b, b>>}
MCSemantics == {"GR", "CO", "ST"}
MCStable    == {"ST"}
MCTasks     == {"SE", "EE", "DC", "DS"}
MCEnumerate == {"EE"}
MCNbVars    == 0..4

processVars == <<status, model, output, toPrint, pipe, child, parent, callModels, modelFound>>
mcVars == <<kind, processVars, allVars>>

----------------------------------------------------------------------------
(* One of the two, the other is over *)

NoTask ==
  /\ instance = {} /\ dynAttacks = << >>
  /\ nbVars = 0 /\ reserveNotAttackedRepl = FALSE
  /\ dynStep = -1 /\ i = 0 /\ assumps = << >> /\ pc = "done" /\ asked = << >>
  /\ semantics = "ST" /\ task = "SE" /\ query = a
  /\ varOf = << >> /\ nArgs = 0
  /\ formula = {} /\ newFormula = {} /\ hasSolver = FALSE /\ engine = {} /\ nVars = 0
  /\ models = << >> /\ blockingSelectors = << >>
  /\ written = << >> /\ accepted = FALSE
  /\ enumerating = FALSE /\ exited = FALSE

NoCall ==
  /\ status = "UNKNOWN" /\ model = {}
  /\ output = << >> /\ toPrint = << >> /\ pipe = << >>
  /\ child = "exited" /\ parent = "returned"
  /\ callModels = << >> /\ modelFound = FALSE

MCInit ==
  /\ kind \in Kinds
  /\ \/ kind = "call" /\ Process!Init /\ NoTask
     \/ kind = "task" /\ SolverInit /\ NoCall

ChildStep  == Process!ChildStep /\ UNCHANGED <<kind, allVars>>
ParentStep == Process!ParentStep /\ UNCHANGED <<kind, allVars>>

MCNext ==
  \/ kind = "call" /\ Process!Next /\ UNCHANGED <<kind, allVars>>
  \/ kind = "task" /\ SolverNext /\ UNCHANGED <<kind, processVars>>

\* Both processes of a call are scheduled; nothing makes the child fail.
MCSpec ==
  MCInit /\ [][MCNext]_mcVars /\ WF_mcVars(ChildStep) /\ WF_mcVars(ParentStep)

----------------------------------------------------------------------------
\* A call takes every value line that the solver prints for a model, and nothing
\* else, so that a model is reported as it is if it is printed in one line; and "no
\* model" is said only of a formula without one (handleForkAncestor, extractModel).
CallTruthful == kind = "call" => Process!ResultTruthful

\* The call ends: the parent and the child never wait for each other
\* (handleForkAncestor, handleForkChild).
CallReturns == Process!Returns
=============================================================================
