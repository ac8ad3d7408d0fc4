------------------------------ MODULE MCLibrary ------------------------------
(***************************************************************************)
(* What the repository embeds without calling it, on small inputs: the two *)
(* delta debuggers, with every command, and the local search; and the data *)
(* structures under the engines, that the models of these take as given.   *)
(* A behaviour runs one of them.                                           *)
(***************************************************************************)
EXTENDS MtCnfdd

VARIABLES
  tool,         \* what runs
  position,     \* as in CnfDD
  rl, job,      \* as in LocalSearch
  box, promise, calls  \* as in Containers

Sequential == INSTANCE CnfDD

Invoked(source, thorough, threads, start, rounds) ==
  [source |-> source, thorough |-> thorough, threads |-> threads,
   startWidth |-> start, mergeWidth |-> 0, mergeRounds |-> rounds]

\* cnfdd, and mtcnfdd with one thread.
OneThread ==
  {Invoked(<<<<1, 3>>, <<-3>>>>, FALSE, 1, -1, -1),
   Invoked(<<<<2>>, << >>, <<1, 2>>>>, TRUE, 1, -1, -1)}

\* Literals that two threads may remove, or a renumbering.
Literals == {Invoked(<<<<1, 3>>, <<-3>>>>, FALSE, 2, -1, -1)}

\* Clauses that several threads remove, so that they must be merged.
Clauses ==
  {Invoked(<<<<1>>, << >>, << >>, << >>>>, FALSE, 2, 2, rounds) : rounds \in {-1, 1}}
  \cup {Invoked(<<<<1>>, << >>, << >>, << >>, << >>, << >>>>, FALSE, 3, 2, -1)}

MCInvocations == OneThread \cup Literals \cup Clauses

----------------------------------------------------------------------------
(* The calls of the local search *)

Formula(cs, weight, limit) == [clauses |-> cs, weight |-> weight, limit |-> limit]

Unweighted(cs, limit) == Formula(cs, [c \in DOMAIN cs |-> 1], limit)

Interpretations(n) == [1..n -> BOOLEAN]

\* The selectors of the clauses sels, and nothing else decided.
Selecting(n, limit, sels) == {a \in Interpretations(n) : \A v \in limit..n : a[v] <=> v \in sels}

CallsOf(task, f, atoms, rest) ==
  {[task |-> task, f |-> f, atom |-> a, isAssign |-> {}] @@ rest : a \in atoms}

Chain == Formula(<<<<1, 2>>, <<-1, 2>>, <<1, -2>>, <<-1, -2, 3>>>>, <<1, 2, 1, 1>>, 9)

NoModel == Formula(<<<<1, 2>>, <<-1, 2>>, <<-2>>>>, <<3, 3, 1>>, 9)

PartialMaxSat == Formula(<<<<1, 2>>, <<-1, 3>>, <<-2>>, <<-3>>>>, <<2, 2, 1, 1>>, 9)

\* A variable of NoModel that may not be flipped.
Fixed(jobs) == {[j EXCEPT !.isAssign = {1}] : j \in jobs}

Walks ==
  UNION {CallsOf(t, Chain, Interpretations(3), [numtry |-> 2]) : t \in {"wsat", "ls wsat"}}
  \cup Fixed(CallsOf("wsat", NoModel, Interpretations(2), [numtry |-> 2]))

\* More flips than tabu_length.
Flips ==
  CallsOf("flips", Chain, {<<FALSE, FALSE, FALSE>>},
        [flips |-> 9, vectors |-> {<<1, -2>>, <<2>>}])

\* One hard clause; three soft ones of a single core, or four of two cores.
OneCore == Unweighted(<<<<1, 2, 3>>, <<-1, -4>>, <<-2, -5>>, <<-3, 1, -6>>>>, 4)
TwoCores == Unweighted(<<<<1, 2>>, <<-1, -4>>, <<-2, -5>>, <<-1, 3, -6>>, <<-1, -3, -7>>>>, 4)

Descents ==
  CallsOf("descent", OneCore, Selecting(6, 4, 4..6), [flips |-> 4, cbs |-> 1..6])
  \cup CallsOf("descent", TwoCores, Selecting(7, 4, 4..7), [flips |-> 4, cbs |-> 1..7])

\* The interpretation of an MSS, whose coMSS has the selectors sels, of the clauses idx.
Rotated(f, n, trues, sels, idx) ==
  CallsOf("rotation", f, {[v \in 1..n |-> v \in trues]},
        [cbs |-> 1..n, idx |-> idx, coMss |-> sels, szCores |-> [i \in DOMAIN idx |-> i % 2]])

RotationCalls ==
  Rotated(OneCore, 6, {1, 3, 5, 6}, <<4>>, <<2>>)
  \cup Rotated(OneCore, 6, {2, 4, 6}, <<5>>, <<3>>)
  \cup Rotated(TwoCores, 7, {2, 4, 6, 7}, <<5>>, <<3>>)
  \cup Rotated(TwoCores, 7, {1, 5, 7}, <<4, 6>>, <<2, 4>>)

Refinements ==
  UNION {CallsOf("refine", NoModel, Interpretations(2), [numtry |-> 1, optWSAT |-> w])
         \cup CallsOf("refine soft", PartialMaxSat, Interpretations(3), [numtry |-> 1, optWSAT |-> w])
         : w \in BOOLEAN}

MCJobs == Walks \cup Flips \cup Descents \cup RotationCalls \cup Refinements

Search == INSTANCE LocalSearch WITH
  Jobs <- MCJobs, FlipsPerTry <- 6, MoreFlips <- 2, Rotations <- 3, MoreRotations <- 1,
  FlipsOfRepair <- 8

----------------------------------------------------------------------------
(* The data structures: arrays of up to four elements, three of which are  *)
(* not told apart; a word of 5 bits, so that a region of a few clauses is  *)
(* full.                                                                   *)

MCArrays == UNION {[1..n -> 0..4] : n \in 1..4}

Boxes == INSTANCE Containers WITH
  Elements <- {1, 2}, Calls <- 6, BoundedSize <- 2, UintRange <- 32, ClauseSizes <- {2, 4},
  StartCap <- 4, SmallSize <- 2, Arrays <- MCArrays, LubyTerms <- 6

----------------------------------------------------------------------------

boxVars == <<box, promise, calls>>

allVars == <<mtVars, tool, position, rl, job, boxVars>>

Debuggers == {"cnfdd", "mtcnfdd"}

MCInit ==
  /\ tool \in Debuggers \cup {"search", "container"}
  /\ MtInit
  /\ position = <<0, 0>>
  /\ tool = "cnfdd" => options.threads = 1
  /\ tool \notin Debuggers => options = CHOOSE o \in MCInvocations : TRUE
  /\ IF tool = "search" THEN Search!SearchInit ELSE rl = << >> /\ job = << >>
  /\ IF tool = "container" THEN Boxes!BoxesInit ELSE box = << >> /\ promise = << >> /\ calls = 0

DdStep ==
  tool = "cnfdd" /\ Sequential!DdNext /\ UNCHANGED <<mtOnly, tool, rl, job, boxVars>>

MainOfMt == tool = "mtcnfdd" /\ MtMain /\ UNCHANGED <<tool, position, rl, job, boxVars>>

WorkerOfMt(t) == tool = "mtcnfdd" /\ Worker(t) /\ UNCHANGED <<tool, position, rl, job, boxVars>>

SearchStep == tool = "search" /\ Search!SearchNext /\ UNCHANGED <<mtVars, position, tool, boxVars>>

BoxStep == tool = "container" /\ Boxes!BoxesNext /\ UNCHANGED <<mtVars, position, tool, rl, job>>

Finished ==
  CASE tool \in Debuggers -> phase = "done"
    [] tool = "search"    -> Search!SearchOver
    [] OTHER              -> TRUE

MCNext ==
  \/ DdStep
  \/ MainOfMt
  \/ \E t \in DOMAIN workers : WorkerOfMt(t)
  \/ SearchStep
  \/ BoxStep
  \/ Finished /\ UNCHANGED allVars

\* One process; each of its threads is scheduled until it ends.  The last condition is
\* the weak fairness of the steps of a search, which are enabled unless it is over.
MCSpec ==
  /\ MCInit /\ [][MCNext]_allVars
  /\ WF_allVars(DdStep) /\ WF_allVars(MainOfMt)
  /\ \A t \in 1..3 : WF_allVars(WorkerOfMt(t))
  /\ []<>(tool \in Debuggers \/ Finished) \/ []<><<SearchStep>>_<<rl, job>>

----------------------------------------------------------------------------
\* Unless a thread holds the mutex, the command has run on the formula in memory
\* and exited as expected: after reduce, although the threads have tried without
\* each other's removals, and after shrink, although they print clauses that
\* others write (ASSERT_RUNS_EXPECTED in try_merge and at the end of a round).
FormulaReproduces == mutex = 0 => Reproduces(Current)

\* The counters that a local search updates are those of its interpretation
\* (debugTest), by kind for partial MaxSAT, where h_breakcount and s_breakcount are
\* left out: they are not exact.
CountersExact == tool = "search" => Search!CountersExact /\ Search!KindsExact

\* What oneDescent and makeRotation call a transition constraint is one; a descent
\* that refines an assignment does not make it worse, and a walk returns a model, the
\* given assignment, for the soft part one that satisfies the hard clauses, and
\* otherwise what it ended with: refineAssigns says true of models only.
SearchTruthful == tool = "search" => Search!TransitionsTrue /\ Search!RefinementExact

\* A structure is what its users take it for, after any sequence of calls: the rings
\* hold their elements in order around their ends and over their growth (Queue,
\* bqueue), a list that is read holds no removed clause although clauses are removed
\* lazily and their references used again (OccLists), clauses do not overlap in their
\* region and memory is out only when it is (RegionAllocator), sort permutes and sorts.
ContainersExact == tool = "container" => Boxes!BoxExact

\* A debugger ends, whatever the command, and so does a search, but for the last loop
\* of wsat4PMS.
Ends == <>Finished
=============================================================================
