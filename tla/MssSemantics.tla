---------------------------- MODULE MssSemantics ----------------------------
(***************************************************************************)
(* The preferred, ideal, semi-stable and stage solvers over the MSS back   *)
(* end (BuiltInMssSolverNGGlucose), under the dynamic decorator.  Its      *)
(* enumerator, built anew for each enumeration, is taken by its promise    *)
(* (MssPromise, which MssEnumerator implements): every maximal satisfiable *)
(* set of soft clauses once, in any order, each with one of its models,    *)
(* until the callback that it calls asks to stop.  (Its models are not     *)
(* kept: no reader is left once the solvers have called resetModels, or    *)
(* clearModels has.)                                                       *)
(***************************************************************************)
EXTENDS SatBackEnd

\* SolverFactory makes these solvers for these semantics alone.
ASSUME MssProblemAssumption == Semantics \subseteq {"PR", "ID", "SST", "STG"}

VARIABLES
  doing,        \* "nothing", "msses", "ranges" or "models"
  msses,        \* what the enumerator found, as extension and soft clauses
  grExt,        \* the grounded extension at the start, and
  stopEnum,     \* whether a callback has asked to stop
  selectors,    \* of the range clauses, one for each argument
  blockingSel   \* of the two clauses that ask for another extension

search == <<doing, msses, grExt, stopEnum, selectors, blockingSel>>
solverVars == <<setup, backEnd, search, written, accepted>>
allVars == <<vars, solverVars>>

SolverInit ==
  /\ BackEndInit
  /\ doing = "nothing"
  /\ msses = << >>
  /\ grExt = {}
  /\ stopEnum = FALSE
  /\ selectors = << >>
  /\ blockingSel = 0

RangeBased == semantics \in {"SST", "STG"}

Ready == pc = "scan" /\ i = Len(dynAttacks) /\ doing = "nothing"

Returns == Call /\ doing' = "nothing" /\ UNCHANGED setup

----------------------------------------------------------------------------
(* The enumerator *)

BuildEnumerator ==
  /\ formula' = Collected
  /\ newFormula' = {}
  /\ UNCHANGED <<hasSolver, engine, nVars, models, blockingSelectors>>

Softs == SoftClauses(semantics, Helper, nArgs)

\* The models that satisfy a maximal set of soft clauses.
Msses(A) ==
  LET found == {[ext  |-> T \cap (1..nArgs),
                 soft |-> {k \in DOMAIN Softs : Softs[k] \cap T # {}}] :
                  T \in Models(Collected, A, Helper.base)}
  IN  {m \in found : \A n \in found : m.soft \subseteq n.soft => m.soft = n.soft}

NewMsses == {m \in Msses(Assumptions) : \A k \in DOMAIN msses : msses[k].soft # m.soft}

----------------------------------------------------------------------------
(* Answers without an enumeration *)

\* SE-PR, SE-SST, SE-STG: the first MSS, and nothing else is asked.
OneMaximal ==
  /\ Ready
  /\ task = "SE" /\ semantics # "ID"
  /\ \E m \in Msses(Assumptions) : Write(<<Decode(m.ext)>>)
  /\ BuildEnumerator
  /\ Returns
  /\ UNCHANGED <<msses, grExt, stopEnum, selectors, blockingSel>>

\* The preferred solver propagates with the assumptions of the step, the
\* others without any.
PropagationAssumptions == IF semantics = "PR" THEN Assumptions ELSE {}

\* An argument of the grounded extension is accepted; DC-PR asks for a model
\* for the others.
AcceptedByPropagation(P) == task \in {"DC", "DS"} /\ varOf[query] \in P

GroundedDecides ==
  /\ Ready
  /\ \E P \in Propagations(PropagationAssumptions) : AcceptedByPropagation(P)
  /\ PropagatedAtDecisionLvlZero
  /\ Accept(TRUE)
  /\ Returns
  /\ UNCHANGED <<msses, grExt, stopEnum, selectors, blockingSel>>

CredulousPreferred ==
  /\ Ready
  /\ semantics = "PR" /\ task = "DC"
  /\ \E P \in Propagations(PropagationAssumptions) : ~AcceptedByPropagation(P)
  /\ ComputeModel(Assumptions \cup {varOf[query]})
  /\ Accept(models' # << >>)
  /\ Returns
  /\ UNCHANGED <<msses, grExt, stopEnum, selectors, blockingSel>>

----------------------------------------------------------------------------
(* computeAllMss *)

\* The status before the enumeration: sceptical acceptance is refuted by an
\* extension, credulous acceptance shown by one.
StatusAtStart == task = "DS" /\ semantics # "ID"

\* propagatedAtDecisionLvlZero, then buildEnumerator.
StartMsses ==
  /\ Ready
  /\ task = "SE" => semantics = "ID"
  /\ ~(semantics = "PR" /\ task = "DC")
  /\ \E P \in Propagations(PropagationAssumptions) :
       ~AcceptedByPropagation(P) /\ grExt' = P
  /\ PropagatedAtDecisionLvlZero
  /\ msses' = << >>
  /\ stopEnum' = FALSE
  /\ written' = << >>
  /\ accepted' = StatusAtStart
  /\ doing' = "msses"
  /\ UNCHANGED <<vars, setup, selectors, blockingSel>>

\* The arguments of every MSS so far, T being the last.
Allowed(T) == T \cap {v \in 1..nArgs : \A k \in DOMAIN msses : v \in msses[k].ext}

\* Mutant: the first extension found always ends the list.
StopsAtFirst(T) ==
  \/ semantics = "ID" /\ Allowed(T) \subseteq grExt
  \/ semantics # "ID" /\ task = "EE" /\ msses = << >>
  \/ semantics # "ID" /\ task = "DC" /\ varOf[query] \in T
  \/ (task = "DS" \/ (semantics = "ID" /\ task = "DC")) /\ varOf[query] \notin T

\* When the callback of an extension T stops the enumeration: the question is
\* decided, the first extension is the grounded one, or the intersection of the
\* preferred extensions is down to it.
Stops(T) ==
  \/ semantics = "ID" /\ Allowed(T) \subseteq grExt
  \/ semantics # "ID" /\ task = "EE" /\ msses = << >> /\ T = grExt
  \/ semantics # "ID" /\ task = "DC" /\ varOf[query] \in T
  \/ (task = "DS" \/ (semantics = "ID" /\ task = "DC")) /\ varOf[query] \notin T

\* What the callback writes or decides.
Reports(T) ==
  /\ written' = IF task = "EE" /\ semantics # "ID" THEN Append(written, Decode(T))
                ELSE written
  /\ accepted' = IF semantics = "ID" \/ task = "EE" THEN accepted
                 ELSE IF task = "DC" THEN accepted \/ varOf[query] \in T
                 ELSE accepted /\ varOf[query] \in T

NextMss ==
  /\ doing = "msses"
  /\ ~stopEnum
  /\ \E m \in NewMsses :
       /\ msses' = Append(msses, m)
       /\ Reports(m.ext)
       /\ stopEnum' = (Stops(m.ext) \/ (RangeBased /\ m.ext = {}))
  /\ UNCHANGED <<vars, setup, backEnd, doing, grExt, selectors, blockingSel>>

MssesOver == doing = "msses" /\ (stopEnum \/ NewMsses = {})

EndPreferred ==
  /\ MssesOver
  /\ semantics = "PR"
  /\ Returns
  /\ UNCHANGED <<backEnd, msses, grExt, stopEnum, selectors, blockingSel, written, accepted>>

----------------------------------------------------------------------------
(* The ideal extension *)

InAll == {v \in 1..nArgs : \A k \in DOMAIN msses : v \in msses[k].ext}

\* An argument that some preferred extension lacks ends the search.
Refuted == \E k \in DOMAIN msses : varOf[query] \notin msses[k].ext

\* Mutant: the answer is the intersection of the preferred extensions.
AnswerIntersection(T) ==
  IF task \in {"DC", "DS"} THEN Accept(~Refuted /\ varOf[query] \in InAll)
  ELSE Write(<<Decode(InAll)>>)

AnswerIdeal(T) ==
  IF task \in {"DC", "DS"} THEN Accept(~Refuted /\ varOf[query] \in T)
  ELSE Write(<<Decode(T)>>)

\* The intersection is the grounded extension, or is one preferred extension;
\* otherwise a last MSS is asked, inside the intersection.
EndIdeal ==
  /\ MssesOver
  /\ semantics = "ID"
  /\ \/ InAll \subseteq grExt /\ AnswerIdeal(grExt) /\ UNCHANGED backEnd
     \/ /\ ~(InAll \subseteq grExt)
        /\ stopEnum \/ Len(msses) = 1
        /\ AnswerIdeal(msses[1].ext)
        /\ UNCHANGED backEnd
     \/ /\ ~(InAll \subseteq grExt) /\ ~stopEnum /\ Len(msses) > 1
        /\ \E m \in Msses(Assumptions \cup Neg((1..nArgs) \ InAll)) : AnswerIdeal(m.ext)
        /\ BuildEnumerator
  /\ Returns
  /\ UNCHANGED <<msses, grExt, stopEnum, selectors, blockingSel>>

----------------------------------------------------------------------------
(* Semi-stable and stage: the other extensions of each maximal range *)

EndRangesStopped ==
  /\ MssesOver
  /\ RangeBased /\ stopEnum
  /\ Returns
  /\ UNCHANGED <<backEnd, msses, grExt, stopEnum, selectors, blockingSel, written, accepted>>

\* One selected clause for each argument: it is in the range.
SelectRanges ==
  /\ MssesOver
  /\ RangeBased /\ ~stopEnum
  /\ selectors' = [k \in DOMAIN Order |-> nVars + k]
  /\ newFormula' =
       newFormula \cup {Selected(Softs[k], nVars + k) : k \in DOMAIN Order}
  /\ nVars' = nVars + Len(Order)
  /\ doing' = "ranges"
  /\ UNCHANGED <<vars, setup, formula, hasSolver, engine, models, blockingSelectors,
                 msses, grExt, stopEnum, blockingSel, written, accepted>>

\* Exactly the range of the MSS m.
RangeAssumptions(m) ==
  {selectors[k] : k \in m.soft}
  \cup UNION {{-selectors[k]} \cup Neg(Softs[k]) : k \in DOMAIN Softs \ m.soft}

\* An extension with an argument that the MSS lacks, and without one it has.
Another(m, selector) ==
  {Selected((1..nArgs) \ m.ext, selector), Selected(Neg(m.ext), selector)}

\* The loop over the MSSes; those done are dropped from the front.
StartModels ==
  /\ doing = "ranges"
  /\ msses # << >>
  /\ blockingSel' = nVars + 1
  /\ nVars' = nVars + 1
  /\ engine' = Given \cup Another(Head(msses), nVars + 1)
  /\ hasSolver' = TRUE
  /\ formula' = Collected \cup Another(Head(msses), nVars + 1)
  /\ newFormula' = {}
  /\ models' = << >>
  /\ blockingSelectors' = << >>
  /\ doing' = "models"
  /\ UNCHANGED <<vars, setup, msses, grExt, stopEnum, selectors, written, accepted>>

OthersOfRange ==
  ModelsOf(RangeAssumptions(Head(msses)) \cup {blockingSel} \cup Assumptions
           \cup Range(blockingSelectors))

NextModel ==
  /\ doing = "models"
  /\ ~stopEnum
  /\ \E T \in OthersOfRange :
       /\ BlockedModel(T, models, blockingSelectors)
       /\ Reports(T)
       /\ stopEnum' = Stops(T)
  /\ UNCHANGED <<vars, setup, doing, msses, grExt, selectors, blockingSel>>

EndModels ==
  /\ doing = "models"
  /\ stopEnum \/ OthersOfRange = {}
  /\ IF stopEnum THEN /\ newFormula' = newFormula \cup Retired \cup {{-blockingSel}}
                      /\ UNCHANGED <<formula, hasSolver, engine>>
     ELSE BuildSolver /\ newFormula' = Retired \cup {{-blockingSel}}
  /\ models' = << >>
  /\ msses' = IF stopEnum THEN << >> ELSE Tail(msses)
  /\ doing' = "ranges"
  /\ UNCHANGED <<vars, setup, nVars, blockingSelectors, grExt, stopEnum, selectors,
                 blockingSel, written, accepted>>

EndRanges ==
  /\ doing = "ranges"
  /\ msses = << >>
  /\ newFormula' = newFormula \cup {{-selectors[k]} : k \in DOMAIN selectors}
  /\ Returns
  /\ UNCHANGED <<formula, hasSolver, engine, nVars, models, blockingSelectors,
                 msses, grExt, stopEnum, selectors, blockingSel, written, accepted>>

Between ==
  /\ ScanApplied \/ ScanPending \/ NextStep \/ Finish
  /\ UNCHANGED solverVars

SolverNext ==
  \/ Between
  \/ OneMaximal
  \/ GroundedDecides
  \/ CredulousPreferred
  \/ StartMsses
  \/ NextMss
  \/ EndPreferred
  \/ EndIdeal
  \/ EndRangesStopped
  \/ SelectRanges
  \/ StartModels
  \/ NextModel
  \/ EndModels
  \/ EndRanges
  \/ pc = "done" /\ UNCHANGED allVars

\* Weak fairness of SolverNext, without ENABLED: the solvers are sequential
\* and, as the absence of deadlock shows, can go on until the task is done.
Progress == []<><<TRUE>>_allVars \/ []<>(pc = "done")

SolverSpec == SolverInit /\ [][SolverNext]_allVars /\ Progress

----------------------------------------------------------------------------
\* Before each call the models under the assumptions of the step are the sets
\* the encoding stands for: no selector, range clause or blocking clause of the
\* earlier steps has left a trace.
EncodingExact == Ready => FormulaExact
=============================================================================
