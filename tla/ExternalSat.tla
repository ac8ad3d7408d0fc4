----------------------------- MODULE ExternalSat -----------------------------
(***************************************************************************)
(* The grounded, complete and stable solvers over the external SAT back    *)
(* end (ExternalSatSolver, the option -externalSatSolver), under the       *)
(* dynamic decorator.  Each call of the engine starts from the text of all *)
(* the clauses so far (newFormula stands for dimacsCstrs); what a call     *)
(* does with the process is in ExternalProcess.  A model gives a value to  *)
(* every variable, and this back end blocks all of it.                     *)
(***************************************************************************)
EXTENDS SatBackEnd

VARIABLES
  enumerating,      \* inside computeAllModels
  exited            \* the program has stopped: the operation is unavailable

unused == <<formula, hasSolver, engine>>
solverVars == <<setup, backEnd, enumerating, exited, written, accepted>>
allVars == <<vars, solverVars>>

SolverInit == BackEndInit /\ enumerating = FALSE /\ exited = FALSE

Ready == pc = "scan" /\ i = Len(dynAttacks) /\ ~enumerating /\ ~exited

Returns == Call /\ UNCHANGED <<setup, unused, enumerating, exited>>

----------------------------------------------------------------------------
(* The operations of the back end *)

\* propagatedAtDecisionLvlZero and isPropagatedAtDecisionLvlZero: every task of
\* the grounded and of the complete semantics starts with one of them.
Unavailable ==
  /\ Ready
  /\ semantics \in {"GR", "CO"}
  /\ exited' = TRUE
  /\ UNCHANGED <<vars, setup, backEnd, enumerating, written, accepted>>

FullModelsOf(A) == FullModels(newFormula, A, nVars)

ComputeFullModel(A) ==
  /\ IF FullModelsOf(A) = {} THEN models' = << >>
     ELSE \E T \in FullModelsOf(A) : models' = <<T>>
  /\ blockingSelectors' = << >>
  /\ UNCHANGED <<newFormula, nVars>>

\* addBlockingClause: the value of every variable, whatever the semantics.
FullBlockingClause(T) == Neg(T) \cup ((1..nVars) \ T)

\* Mutant: the clauses of an enumeration are never switched off.
NoneRetired == {}

\* The unit clauses at the end of computeAllModels.
RetiredFirst == {{-blockingSelectors[k]} : k \in DOMAIN models}

----------------------------------------------------------------------------
(* The stable solver *)

OneStable ==
  /\ Ready
  /\ semantics = "ST" /\ task = "SE"
  /\ ComputeFullModel(Assumptions)
  /\ Write([k \in DOMAIN models' |-> Decode(models'[k])])
  /\ Returns

CredulousStable ==
  /\ Ready
  /\ semantics = "ST" /\ task = "DC"
  /\ ComputeFullModel(Assumptions \cup {varOf[query]})
  /\ Accept(models' # << >>)
  /\ Returns

SkepticalStable ==
  /\ Ready
  /\ semantics = "ST" /\ task = "DS"
  /\ ComputeFullModel(Assumptions \cup {-varOf[query]})
  /\ Accept(models' = << >>)
  /\ Returns

\* The models are cleared; the selectors of the last call are not.
StartEnumeration ==
  /\ Ready
  /\ semantics = "ST" /\ task = "EE"
  /\ models' = << >>
  /\ written' = << >>
  /\ enumerating' = TRUE
  /\ UNCHANGED <<vars, setup, unused, newFormula, nVars, blockingSelectors, exited, accepted>>

\* The selectors that this enumeration has assumed: the last ones.
AssumedSelectors ==
  {blockingSelectors[k] :
     k \in (Len(blockingSelectors) - Len(models) + 1)..Len(blockingSelectors)}

RemainingFull == FullModelsOf(Assumptions \cup AssumedSelectors)

EnumerateModel ==
  /\ enumerating
  /\ \E T \in RemainingFull :
       /\ models' = Append(models, T)
       /\ written' = Append(written, Decode(T))
       /\ newFormula' = newFormula \cup {Selected(FullBlockingClause(T), nVars + 1)}
  /\ blockingSelectors' = Append(blockingSelectors, nVars + 1)
  /\ nVars' = nVars + 1
  /\ UNCHANGED <<vars, setup, unused, enumerating, exited, accepted>>

EndEnumeration ==
  /\ enumerating
  /\ RemainingFull = {}
  /\ newFormula' = newFormula \cup RetiredFirst
  /\ enumerating' = FALSE
  /\ Call
  /\ UNCHANGED <<setup, unused, exited, nVars, models, blockingSelectors, written, accepted>>

Between ==
  /\ ~exited
  /\ ScanApplied \/ ScanPending \/ NextStep \/ Finish
  /\ UNCHANGED solverVars

SolverNext ==
  \/ Between
  \/ Unavailable
  \/ OneStable
  \/ CredulousStable
  \/ SkepticalStable
  \/ StartEnumeration
  \/ EnumerateModel
  \/ EndEnumeration
  \/ (pc = "done" \/ exited) /\ UNCHANGED allVars

SolverSpec == SolverInit /\ [][SolverNext]_allVars

----------------------------------------------------------------------------
\* The answers are right for the framework of their step (AnswersCorrect) at every
\* step of the tasks that call the engine once, although it is given the text of
\* all the clauses again; and at the first two steps of an enumeration, the second
\* of which finds the clauses of the first switched off (computeAllModels).
EarlyAnswersCorrect == (task = "EE" => dynStep <= 0) => AnswersCorrect
===============================================================================
