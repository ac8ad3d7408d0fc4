---------------------------- MODULE SatSemantics ----------------------------
(***************************************************************************)
(* The grounded, complete and stable solvers over the built-in SAT back    *)
(* end, under the dynamic decorator.                                       *)
(***************************************************************************)
EXTENDS SatBackEnd

VARIABLE enumerating      \* inside computeAllModels

solverVars == <<setup, backEnd, enumerating, written, accepted>>
allVars == <<vars, solverVars>>

SolverInit == BackEndInit /\ enumerating = FALSE

----------------------------------------------------------------------------
(* One call of the decorated solver, once dynAssumps has returned *)

Ready == pc = "scan" /\ i = Len(dynAttacks) /\ ~enumerating

Returns == Call /\ UNCHANGED <<setup, enumerating>>

\* The grounded extension, which is also the complete one that SE-CO writes
\* and the only list element of EE-GR.
GroundedExtension ==
  /\ Ready
  /\ \/ semantics = "GR" /\ task \in {"SE", "EE"}
     \/ semantics = "CO" /\ task = "SE"
  /\ \E P \in Propagations(Assumptions) : Write(<<Decode(P)>>)
  /\ PropagatedAtDecisionLvlZero
  /\ Returns

\* DC-GR, DS-GR and DS-CO.
GroundedMember ==
  /\ Ready
  /\ \/ semantics = "GR" /\ task \in {"DC", "DS"}
     \/ semantics = "CO" /\ task = "DS"
  /\ \E P \in Propagations(Assumptions) : Accept(varOf[query] \in P)
  /\ PropagatedAtDecisionLvlZero
  /\ Returns

\* DC-CO: the grounded extension first, a model only when it does not decide.
CredulousComplete ==
  /\ Ready
  /\ semantics = "CO" /\ task = "DC"
  /\ \E P \in Propagations(Assumptions) :
       IF varOf[query] \in P
         THEN PropagatedAtDecisionLvlZero /\ Accept(TRUE)
         ELSE /\ ComputeModel(Assumptions \cup {varOf[query]})
              /\ Accept(models' # << >>)
  /\ Returns

OneStable ==
  /\ Ready
  /\ semantics = "ST" /\ task = "SE"
  /\ ComputeModel(Assumptions)
  /\ Write([k \in DOMAIN models' |-> Decode(models'[k])])
  /\ Returns

CredulousStable ==
  /\ Ready
  /\ semantics = "ST" /\ task = "DC"
  /\ ComputeModel(Assumptions \cup {varOf[query]})
  /\ Accept(models' # << >>)
  /\ Returns

\* Mutant: looks for a stable extension that holds the argument.
SkepticalStableUnnegated ==
  /\ Ready
  /\ semantics = "ST" /\ task = "DS"
  /\ ComputeModel(Assumptions \cup {varOf[query]})
  /\ Accept(models' = << >>)
  /\ Returns

SkepticalStable ==
  /\ Ready
  /\ semantics = "ST" /\ task = "DS"
  /\ ComputeModel(Assumptions \cup {-varOf[query]})
  /\ Accept(models' = << >>)
  /\ Returns

----------------------------------------------------------------------------
(* EE-CO and EE-ST: computeAllModels *)

\* clearModels; EE-CO starts from the grounded extension as a known model.
StartEnumeration ==
  /\ Ready
  /\ task = "EE"
  /\ \/ /\ semantics = "ST"
        /\ ClearedEnumeration
        /\ written' = << >>
     \/ /\ semantics = "CO"
        /\ \E P \in Propagations(Assumptions) :
             BlockedModel(P, << >>, << >>) /\ written' = <<Decode(P)>>
  /\ enumerating' = TRUE
  /\ UNCHANGED <<vars, setup, accepted>>

Remaining == ModelsOf(Assumptions \cup Range(blockingSelectors))

\* The callback writes each model as it is found.
EnumerateModel ==
  /\ enumerating
  /\ \E T \in Remaining :
       /\ BlockedModel(T, models, blockingSelectors)
       /\ written' = Append(written, Decode(T))
  /\ UNCHANGED <<vars, setup, enumerating, accepted>>

\* No model is left: the selectors are retired by unit clauses, which wait in
\* newFormula for the next call.
EndEnumeration ==
  /\ enumerating
  /\ Remaining = {}
  /\ BuildSolver
  /\ newFormula' = Retired
  /\ enumerating' = FALSE
  /\ Call
  /\ UNCHANGED <<setup, nVars, models, blockingSelectors, written, accepted>>

\* The decorator and dynAssumps, between the calls.
Between ==
  /\ ScanApplied \/ ScanPending \/ NextStep \/ Finish
  /\ UNCHANGED solverVars

SolverNext ==
  \/ Between
  \/ GroundedExtension
  \/ GroundedMember
  \/ CredulousComplete
  \/ OneStable
  \/ CredulousStable
  \/ SkepticalStable
  \/ StartEnumeration
  \/ EnumerateModel
  \/ EndEnumeration
  \/ pc = "done" /\ UNCHANGED allVars

SolverSpec == SolverInit /\ [][SolverNext]_allVars

=============================================================================
