# CoQuiAAS: a TLA+ verification project

CoQuiAAS answers questions about *abstract argumentation frameworks* (a set of
arguments and an attack relation) by translating them to SAT, MaxSAT-like (MSS)
and unit-propagation problems. Its "dynamic" tracks ask the same question again
after each of a list of additions and removals of attacks, without rebuilding
the encoding. All paths below are relative to the repository root.

## 1. Inventory

| part | code | state | operations | what is hard about it |
|---|---|---|---|---|
| Framework store | `src/specs/Attacks.cc`, `src/specs/VarMap.cc` | attackers per argument, change list with the recorded initial state of each pair, name/variable maps, counters | `addAttack`, `addDynAttack`, `addEntry`, `getVar`, `contains` | a pair changed several times, a `+` on a present attack, a `-` on an absent one: the initial state recorded for the pair must be the one of the parsed instance |
| Parsers | `src/parser/*` | none of their own | `parseInstance`, `parseDynamics` | order: all of the instance, then all of the changes; names before attacks in two of the three formats only |
| CNF encoding | `src/argSolvers/SatEncodingHelper.cc`, `MssEncodingHelper.cc` | variable numbering, disjunction variables, dynamic-attack variables | `reserveVars`, `create*Constraints`, `dynAssumps` | one encoding must be right for *every* step, selected only by assumptions |
| Problem reduction | `src/utils/*SatProblemReducer.cc` | fixed arguments, equivalence classes, reduced map; a MiniSat back end of its own | `search` | classes are computed once, before the first step, and must be valid in all of them; each propagation starts from an engine whose trail was thrown away |
| Semantics solvers | `src/argSolvers/Default*SemanticsSolver.cc`, `GraphBasedGrounded*` | `dynStep`, enumeration flags | `computeOneExtension`, `computeAllExtensions`, `isCredulouslyAccepted`, `isSkepticallyAccepted` | early stops, callbacks that stop the enumeration they are called from |
| Dynamic decorator | `src/argSolvers/DynamicSemanticsSolverDecorator.h` | step counter | `iterate` | what one step leaves behind in the solver must not change the next one |
| SAT back ends | `src/satSolvers/BuiltInSatSolverNG{,Glucose}.cc` | `formula`, `newFormula`, models, blocking selectors | `addClause`, `addSelectedClause`, `propagatedAtDecisionLvlZero`, `computeModel`, `computeAllModels` | pending clauses, stale blocking clauses, selectors retired after an enumeration |
| MSS back end | `src/satSolvers/BuiltInMssSolverNG{,Glucose}.cc` | soft clauses, MSS list, stop flag | `computeMss`, `computeAllMss` | same, with an enumerator rebuilt at each call |
| MSS enumerator | `resources/comssextractor_ng/cmp/{core,enum}` | selectors, blocked coMSSes | `run`, `search`, `blockDown` | maximality, each MSS once, termination |
| SAT engines | `resources/comssextractor_ng/{minisat,glucose}/core/Solver.{cc,h}` | clauses, watch lists, trail and levels, learnt clauses, heap of variables | `addClause`, `solve`, `propagate`, `analyze`, `reduceDB`, `simplify`, `garbageCollect` | what is kept between two calls: levels, learnt clauses, literals of level 0; two watched literals that must be good enough after any backtrack |
| External SAT process | `src/satSolvers/ExternalSatSolver.cc` | clause text, models, blocking selectors, child process and pipe | `computeModel`, `computeAllModels`, `launchExternalSolver` | waiting for the child before reading its output; selectors not cleared between enumerations |
| Graph utilities | `src/utils/ExtensionUtils.cc` | work list | `groundedExtension`, `isMaxRange` | in-place removal from the vector being scanned |
| Delta debuggers | `resources/comssextractor_ng/dtools/cnfuzzdd2009/{cnfdd,mtcnfdd}.c` | the formula with its removed clauses and falsified literals, new variable numbers, result file | `reduce`, `shrink`, `move`, `save`, the threads of both loops | threads that test without each other's removals and print what others write; what is saved must have been tested |
| Output path | `src/Main.cc`, `src/utils/ConcurrentStrQueue.h` | queue, mutex, condition variable, stdout buffer | `push`, `pop`, `printOutputQueue`, `flushOutBuffer` | two threads and a flusher; the main thread may leave early |
| Timeout | `src/Main.cc` | timer thread, SIGINT handler | `handleTimeout`, `sigIntHandler` | races the normal end |
| Command line and factories | `src/utils/CommandLineHelper.cc`, `src/argSolvers/SolverFactory.h`, `src/parser/ParserFactory.h` | options, task, semantics, files | `parseCommandLine`, `assertWellFormed`, `createSolver` | three passes over the arguments that stop at different occurrences of an option; which solver, with which back end, over which files |
| Formatters | `src/outputFormatters/*` | none: the solvers pass `isFirst` | `write*` | one answer in pieces, from solvers that do not know of one another, in one queue with those of the other steps |
| Preprocessor of the engines | `resources/comssextractor_ng/{minisat,glucose}/simp/SimpSolver.cc`, `minisat/mtl/Heap.h` | occurrence lists, subsumption queue, heap of variables, clauses stored for eliminated variables | `eliminate`, `backwardSubsumptionCheck`, `strengthenClause`, `extendModel`, `solve_` | lists that change while they are scanned; a model of the rest must become a model of the whole |
| Local search of the library | `cmp/approx/localSearch.cc`, `minisat/core/SolverRL.cc` | an assignment, counters per clause and per variable, the list of false clauses | `flipatom`, `wsat*`, `oneDescent`, `makeRotation`, `refineAssigns` | counters that are brought up to date and never read again; one assignment that all share |
| Containers | `minisat/mtl/{Queue,Alloc,Vec,Sort}.h`, `minisat/core/SolverTypes.h`, `glucose/core/BoundedQueue.h` | rings, lazily cleaned lists, the region of the clauses | `insert`, `pop`, `smudge`, `cleanAll`, `alloc` | growth in the middle of a ring, references used again, unsigned overflow |
| Logging, statistics | `src/utils/Logger.*`, `src/utils/*StatMap*` | texts | | nothing reads them back |

Interactions. `main` parses the instance and the changes into one `Attacks`,
asks `SolverFactory` for a solver (wrapped by the decorator for a dynamic
task), calls `init` (reduce, then encode) and `compute`. A semantics solver
calls its SAT or MSS back end synchronously, which calls it back once per model
or MSS; every line of the answer is pushed on the output queue, which the
output thread prints. The back ends drive an engine: Glucose behind the SAT back
end, MiniSat inside the MSS enumerator and in the problem reducer. They call its
public methods, and also write its trail and its values from outside. The
preprocessor and the local search are linked with the program and not called by it,
and the delta debuggers are programs of their own; the containers are under both
engines.

Hard behaviours, in the order of what a mistake would cost: (a) one encoding and
one back end serve all the steps of a dynamic task, so everything a step leaves
behind (blocking clauses, selectors, learnt facts, pending clauses) must be
harmless to the next; (b) the reduction merges variables before any change is
applied; (c) the enumerations are stopped from inside by their callbacks, and the
range-based solvers start a second enumeration on what the first one left; (d)
the output queue joins four threads; (e) the external solver is a child process
behind a pipe of limited size; (f) the engines keep levels, learnt clauses and
literals from one call to the next, while their callers cut or reset the trail in
between. `PROJECT.json` lists each at its line under
"hazards", with the properties that watch it.

## 2. Plan

Modules, in the order in which they were or will be written. An arrow reads
"extends"; `=>` reads "is shown to implement".

| # | module | models | composes |
|---|---|---|---|
| 1 | `Attacks` | framework store and the order in which the parsers fill it | |
| 2 | `DynFramework` | abstract: a framework, a list of changes, one question per step | |
| 3 | `DynAssumps` | decorator, `reserveDynVars`, `dynAssumps` | => `DynFramework` |
| 4 | `OutputQueue` | queue, output thread, flusher, timeout, ends of `main` | |
| 5 | `Cnf`, `Dung` | models and propagation; the semantics by definition | |
| 6 | `Encoding` | the clauses and the problem reduction | -> `DynAssumps`, `Cnf` |
| 7 | `SatBackEnd` | built-in SAT back end, `init` of the solvers | -> `Encoding`, `Dung` |
| 8 | `SatSemantics`, `MssSemantics`, `ExternalSat` | the solvers over each back end, under the decorator | -> `SatBackEnd` |
| 9 | `GraphGrounded` | the work list of `groundedExtension` and its two users | -> `Dung` |
| 10 | `ExternalProcess` | one call of an external solver | |
| 11 | `MssPromise`, `MssEnumerator` | abstract: every maximal set once; the enumeration that does it | `MssEnumerator` => `MssPromise` |
| 12 | `Cdcl`, `Minisat`, `Glucose` | what the two engines share; each engine | `Minisat` -> `Cdcl`, `Glucose` -> `Cdcl` |
| 13 | `CoMssExtract` | the MSS back end over its engine | -> `Minisat`; => `MssPromise` |
| 14 | `GlucoseBackEnd` | the SAT back end over its engine | -> `Glucose`; keeps what `SatBackEnd` says |
| 15 | `ReducerSearch` | the problem reducer over its engine | -> `Minisat`; keeps what `Encoding` says of the reduction |
| 16 | `DeltaDebugger`, `CnfDD`, `MtCnfdd` | the two tools of the library that reduce a failing formula | `CnfDD` -> `DeltaDebugger`, `MtCnfdd` -> `DeltaDebugger` |
| 17 | `CommandLine` | `main` from its arguments to the solver that it creates | -> `Attacks` |
| 18 | `Formatter` | the strings of an answer | -> `OutputQueue`, in `MCOutputQueue` |
| 19 | `SolverRL`, `LocalSearch` | the two copies of the local search | `LocalSearch` -> `SolverRL` |
| 20 | `SimpSolver` | the preprocessor of both engines, and its heap | `SimpSolver` -> `Cdcl`; over `Minisat` and over `Glucose` in `MCEngines` |
| 21 | `Containers` | the data structures that the modules of the engines take for sequences and sets | |

The `MC` modules: `MCAttacks` (17 over 1), `MCOutputQueue` (18 over 4),
`MCSatSemantics`, `MCMssSemantics` (with two configurations), `MCGraphGrounded`,
`MCExternal` (three), `MCEngines` (12 to 15 and 20 side by side), `MCLibrary` (16, 19
and 21 side by side); `MssEnumerator` is run as it is.

Left for later, in this order:

* the names that a change or an attack uses without declaring them, in the solver
  modules (see section 6);
* `--graphBased` in a dynamic task, and the `Dung` triathlon's pair of solvers;
* the heap of the activities of the engines, behind the set `order_heap`, with the
  heap of `SimpSolver`;
* the extractions that no configuration selects: destructive, with model rotation, with
  the cache;
* an abstract specification of a SAT back end (a set of clauses, a set of
  retired selectors) that both the built-in and the external one are compared
  with, and `MssSemantics` shown to use `MssPromise`;
* theorems: the invariants of the engines, with propagation as a relation between trails
  instead of the recursive operator; the debuggers (`OnlyShrinks`, `Minimal`).

## 3. Modules and code

**`Attacks`** (`Attacks.cc`, `VarMap.cc`, and the parsers by the calls they make).
`varOf`/`nvars` are the two maps of `VarMap`, `attacks` the attackers lists,
`dynAttacks` the change list with `wasPresent`. One action per parsed line:
`ParseArgument`, `ParseAttack`, `ParseChange`; `EndOfInstance` and
`EndOfDynamics` are the order in which `main` parses, `format` the one that the
format imposes (`Declaring`), and `Exit` the end of the program at a malformed line
or at a list of changes in the CNF format. `instance` is a history
variable: the attacks announced before the changes.

**`CommandLine`** (`CommandLineHelper.cc`, `SolverFactory.h`, `ParserFactory.h`,
`Main.cc`). A word is the sequence of its parts between hyphens, which is what the code
looks at. `NoArgument`, `Information`, `OptionWithValue`, `FlagOption`, `Malformed` are the ways
through the loop of `parseCommandLine`, the actions after it the calls of `main`; `problem` is the class of the solver, its back end and whether it is decorated.
`line` is a history variable: the options as they were meant (`Meant`: a list of words can be
read as options in one way only, so `LinesAssumption` leaves none out). The parsing of the two files is the
behaviour of `Attacks`, with which it is composed.

**`DynAssumps`** (`DynamicSemanticsSolverDecorator.h`, `SatEncodingHelper.cc`
147-162 and 215-246). `dynStep` and `assumps` are the variables of the code,
`FirstVar` and `AssumpVar` the numbering that `reserveDynVars` leaves in its `dynVars`;
`Call` is a call of the decorated solver; `ScanApplied` and `ScanPending` are the
two loops of `dynAssumps`, over the changes up to the step and after it. `DynFramework`
is what it promises: `RefinesDynFramework` maps the framework in force at a step to
the pairs whose assumption is positive.

**`Cnf`, `Encoding`, `SatBackEnd`, `SatSemantics`, `MssSemantics`.** The
clauses are sets of sets of integers, one operator per `create*Constraints`
method. `ReducedMaps` is the set of reduced maps that `SatProblemReducer::search` may
return. Propagation and models are recursive functions in `Cnf`.
`SatBackEnd` keeps `formula`, `newFormula`, the engine's clauses, `models` and
`blockingSelectors`; each operation of the back end is an operator of the same
name, used by the actions of the solvers, one per task, with the enumerations
step by step (`StartEnumeration`, `EnumerateModel`, `EndEnumeration`).
`MssSemantics` has the callbacks that stop an enumeration, and the second
phase of `DefaultRangeBasedSemanticsSolver`.

**`MssEnumerator`** (`coMSSEnum.cc`, `constructCoMSSExtract4Enum.cc`,
`coMSSExtract.cc`). The SAT engine is abstracted to the *profiles* of the models
of the hard clauses and the assumptions: for each, the set of soft clauses that it
satisfies. `unknown`, `mss`, `coMss` are the vectors of `search`; `Grow` and
`Refute` are its two outcomes, for any order of the vector. `settled` are the soft
clauses the constructor leaves without selector. `model` is the model kept by
`MiniSatSolver`, which a call that fails leaves as it was. `MssPromise` is what the
MSS back end relies on.

**`Cdcl`, `Minisat`, `Glucose`** (`minisat/core/Solver.cc`, `glucose/core/Solver.cc`).
A solver object is a record, its methods are operators on the record, of the
same names. A literal is an integer, a clause a sequence whose first two
literals are watched, a removed clause the empty sequence until the garbage
collection renumbers the rest. The loop of `search` is `Propagate` and then one
of its handlers: `Learn`, `RootConflict`, `Restart`, `Forget` (`simplify`,
`reduceDB`, and perhaps `garbageCollect`), `Assume`, `AssumptionFails`, `Decide`,
`ModelFound`. `Call` and `Return` are the two ends of `solve_`; `limitRestart` is
how many levels MiniSat keeps for the next call. Glucose is modelled in its incremental mode
(`opt_incremental`, `glucose/core/Solver.cc:51`, is true by default and nothing turns it
off): a restart keeps the levels of the assumptions (`KeptLevels`), learnt clauses are not
reduced by the binary ones, and `satisfied` looks at the two watched literals only. Nothing
calls `initNbInitialVars`, so that no variable is a selector and the rest of that mode, in
`propagate`, `analyze` and `computeLBD`, does what the other mode does.

**`CoMssExtract`** (`coMSSExtract.cc`, `constructCoMSSExtract4Enum.cc`,
`coMSSEnum.cc`, `BuiltInMssSolverNGGlucose.cc`). The same enumeration as
`MssEnumerator`, with clauses and selectors instead of profiles: `ConstructHards`
and `ConstructSofts` are the constructor, `BeginSearch`, `Try`, `Skip`, `Grow`,
`Refute` the loop of `search` around each call of the engine, `Report`, `Stop`,
`BlockDown`, `Counted` the loop of `run`. `at` is where it stands.

**`GlucoseBackEnd`** (`BuiltInSatSolverNGGlucose.cc`). A `program` is the list of
calls a solver makes; `Built` is `buildSolver`, `Keep` blocks a model,
`EndOfList` retires the selectors.

**`ReducerSearch`** (`SatProblemReducer.cc`, `BuiltInSatSolverNG.cc`).
`FixArguments` is the propagation at level 0, `Open`, `Compare`, `Ignore`, `Close`
the comparison of one argument with those it propagates, `TranslateVarMap` the
end; each call of the engine is `Propagating`. `MCEngines` puts the three side by
side, on clauses computed by `Encoding`, and compares what the reducer returns with
`ReducedMaps`.

**`GraphGrounded`** (`ExtensionUtils.cc`,
`GraphBasedGroundedSemanticsSolver.cc`, `DefaultDungTriathlonSolver.cc`).
`candidates`, the round's flag and the index `i` are the locals of `groundedExtension`;
`Accept`, `Defeat`, `Skip` are the three ways through its loop, `TakeOut` the
replacement by the last element with the unsigned decrement.

**`OutputQueue`** (`Main.cc`, `ConcurrentStrQueue.h`). One program counter per
thread; the lock, the wait and the notification are steps of their own; the stdio
buffer overflows into the output; `Crash` is the destruction of a joinable
thread at the early returns of `main`, and the timeout thread raises the signal whose
handler exits. **`Formatter`** gives the strings that each `write*` method pushes, as
sequences of tokens, for both formats, and `MCOutputQueue` pushes those of an answer of
each task; it also has the reader against which `PrintedReadable` compares them.

**`ExternalProcess`, `ExternalSat`** (`ExternalSatSolver.cc`). The first is one
call: the child, a pipe that holds `Capacity` lines, the parent that waits and
then reads. The second is the clause text, the models and the selectors over the
calls of a task. They meet in the result of a call, a model of the text
or none.

**`DeltaDebugger`, `CnfDD`, `MtCnfdd`** (`cnfdd.c`, `mtcnfdd.c`). `clauses` and
`falsified` are the array and the literals that have become `FALSE`, `dst` the
result file, `answers` what the command said of every file it has run on; it is chosen
when a new file comes, so that the run goes over every command. `RemoveClauses`
and `FalsifyLit` are one trial of the sequential loops, `ReduceWorker` and `ShrinkWorker`
those of the threads; `Merge` and `TryMerge` join what the threads of `reduce` found,
`Synchronise` and `EndSynchronise` hold the mutex. A thread that prints the formula while
others write it reads, of each literal written meanwhile, the old or the new value, and
again for the header (`TestLit`).

**`SolverRL`, `LocalSearch`** (`SolverRL.cc`, `localSearch.cc`). The object is a record;
`flipatom` is `Loses` and `Gains` folded over the occurrences of the two literals, in the
order of the code. `best`, `tabu`, `rnovelty`, `rnoveltyFree` are the sets of literals that a
choice with random numbers may give. A job is one call from outside, its loop a step for each flip,
rotation or descent. `LocalSearch` adds the counters of hard and of soft clauses.

**`SimpSolver`** (`simp/SimpSolver.cc`, `Heap.h`). The methods of the engine
come as operators, `satisfied` among them, so that the same text runs over `Minisat` and over `Glucose`; `isGlucose`
tells where the copies differ. `eliminate` is one action for each of its stages and one
for each clause that leaves the subsumption queue; `extendModel` and `mkElimClause` work on the
clauses stored per variable. The binary heap comes with its `percolateUp` and
`percolateDown`.

**`Containers`**. One structure at a time and the calls on it in any order; `promise` is
what the users of the structure take it for, a sequence or a set. Unsigned integers are
taken modulo `UintRange`.

### Abstractions

* Names are in sorted order (`VarMap::getNames` is the order of a `std::map`), so
  that a variable is a position in `Order`.
* In `Encoding`, `SatBackEnd` and `MssSemantics` the SAT engines are taken by what
  they return: any model, or that there is none; the literals propagation derives
  (between the unit closure and all entailed ones, as learnt clauses may help;
  after a conflict, part of what `Reachable` gives). Run `engines` checks these
  assumptions against the engines themselves.
* In the engines, activities, LBD scores, the counters that decide when to restart
  or to forget, and the amount of garbage are choices: any variable may be decided,
  any learnt clause that the guards allow may go. The clauses of a problem are
  given in one order (for the reducer, in two).
* The triathlon's maximal sets are the preferred extensions, by
  `EncodingExact`; the MSS back end's enumeration in `MssSemantics` is that of
  `MssPromise`.
* A string of an answer is a sequence of tokens (a bracket, a comma, an end of line, a
  name), and a word of the command line one of parts; neither is spelled out.
* Random choices of the local search, like the costs that only order choices, are
  choices of the model.

## 4. Runs

| run | question | bounds, and why they are enough |
|---|---|---|
| `store` | is the parsed store right for every order of lines, and does the solver that starts answer what the command line asks? | the three formats, 2 names, 2 attacks announced, 3 changes: a pair can be announced, changed twice, and changed again; declarations before or after use. Command lines: the mandatory options with 9 tasks, well and badly written, and one more option of 20 at any place, twice the same one included, with and without a query; for these an instance of one attack and one change |
| `steps` | do the grounded, complete and stable tasks answer every step? | all tasks and every instance over 2 of 3 arguments with 2 changes, plus the enumerations over every instance of 3 arguments with at most 1 change, the least in which the reduction merges several variables, fixes one, and meets a contradiction; three enumerations in a row use the selectors of the two before |
| `mss_steps` | the same for preferred, ideal, semi-stable, stage; does each call get the assumptions of its step, and does the task implement the list of changes? | every instance over 2 arguments, 2 changes of 2 attacks, one a self-attack: a pair toggled, or a change of each |
| `ranges` | the cases two arguments cannot show | 4 arguments around an even cycle: an intersection of preferred extensions that is not admissible, two extensions of one range |
| `enumerator` | is each maximal set reported once, none forgotten? | 3 soft clauses, every set of profiles (up to 3 maximal sets, the largest number that 3 soft clauses allow), limits none, 1 and 2 (the callers use 1 and `INT32_MAX`), the callback stopping anywhere |
| `engines` | do the two engines, with what they keep between calls, give the back ends and the reducer what the runs above assume? | encodings of frameworks of 1 to 4 arguments with the calls that the solvers make, at most one restart and one reduction of the learnt clauses per problem (on some none), and one hand-made problem in which a soft clause is decided by the others; for the reducer every framework of 2 arguments with and without an attack that may change, and some of 3; for the preprocessors all sets of 7 clauses over 3 variables, formulas of 4 variables that need subsumption after a strengthening, resolution, or both, with clauses added and variables frozen between calls, substitution, and an interrupt at any point; that of Glucose without `-rcheck`, and with `-asymm` on formulas in which no clause is true in a literal that is not watched, for both options lose clauses (section 7) |
| `grounding` | does the work list yield the grounded extension, and the triathlon the stable ones? | every framework of 3 arguments: removals at the first and the last index, several rounds |
| `output` | is the answer printed whole, in order and readable, and does the process end? | every task and both formatters, up to 12 strings, one or two steps, none, one or two extensions with an empty one among them; a buffer of 1, a timeout at any point |
| `external` | does a call end, with what was printed? are the stable tasks over this back end right? | a call: 3 variables, models of one and of two value lines, every model, a pipe that holds the longest output, failure of the child at any point; a task: 2 arguments, 2 changes, so that the tasks of one call meet three frameworks and an enumeration the text that an earlier one has left; the third enumeration, which is wrong (`external_steps`), is left out of `EarlyAnswersCorrect` by its step; the complete and grounded tasks, which ask for what this back end does not offer, stop without an answer, so that `EarlyAnswersCorrect` says nothing of them |
| `library` | do both debuggers keep a formula that was tested, write smaller ones only, end, and leave no clause to spare? does the local search keep its counters and its word? are the containers what the engines take them for? | every command on 2 formulas with one thread, with and without `-t`; with 2 and 3 threads, 2 clauses with 3 literals (two threads write and print at once), 4 and 6 clauses (a merge that fails, with the limits of the merge). Local search: 5 formulas of 2 to 7 variables, from every assignment, walks of 6 flips, tabu lists that are full, descents and rotations over one and two cores, with and without soft clauses. Containers: 6 calls, rings that wrap and grow, words of 5 bits, so that a region of clauses reaches its end and a capacity wraps |
| `external_pipe` | violation, see section 7 | a pipe shorter than the output |
| `external_steps` | violation, see section 7 | 2 changes: the third enumeration |

What the properties say:

* *Types.* Each proved module has a `TypeOK`, which is proved and not run; so are `WorkListOK`
  (each argument is accepted, defeated or once in the work list) and `DynVarsDisjoint` (no two
  attacks share a variable).
* *Store.* `StoreExact`: each change record tells the state of its attack in the
  parsed instance, whatever was announced before, and the attackers lists hold exactly
  the attacks of all the steps. `NumberingExact`: variables without gap
  or repetition. `ProblemAsAsked`: the solver is the one of the last task, its query the first
  `-a`, and it goes through the steps exactly when changes were parsed.
* *Dynamics.* `AssumpsExact`: one literal per changing attack, positive exactly
  when the attack is in force.
* *Answers.* `AnswersCorrect`: what a step writes is what the definition of the
  semantics (`Dung`) says of the framework of that step, each extension once. `EncodingExact`: under a
  step's assumptions and the reduction, the models are the sets the encoding stands
  for, whatever earlier enumerations left. `ReductionSound`: merged arguments have one value
  at every step.
* *End.* `Terminates`, `TaskEnds`, `RefinesDynFramework`: the task ends with an answer
  for each step, whatever loops over models, MSSes and ranges it needs.
* *Enumerator.* `MssesExact`, `ModelFits`, and `KeepsPromise` (refinement, with
  termination).
* *Engines.* `PropagationComplete`: after a propagation no clause is false or has
  one literal left, or the conflict is one. `SearchConsistent`: the trail justifies
  itself literal by literal, every variable without a value can be decided, and the
  levels that are kept are those of the assumptions of the present call.
  `WatchesConsistent`: each clause is in the lists of its two watched literals and
  nowhere else. `ClausesExact`: between two calls the engine knows what it was given,
  no more and no less.
* *Back ends over the engines.* `AnswersRight`: each call of the SAT back end answers
  for the formula and its assumptions, and the MSS back end gives a model of the set
  that it reports. `KeepsPromise`, for the MSS back end. `ReductionPromised`: the reducer returns one of the maps that `Encoding`
  allows.
* *Debuggers.* `FormulaReproduces`: outside the mutex the command has run on the formula
  in memory and exits as expected. `OnlyShrinks`: what is written to `dst` is smaller, or
  has smaller numbers, and was tested. `Minimal`: in the end no clause can go, and with
  one thread no literal. `Ends`: the loop over the rounds ends.
* *Preprocessors.* `Irreducible`: an `eliminate` that is not interrupted leaves no clause that
  another one subsumes or strengthens, and no variable to eliminate. `ClausesExact`, for them:
  the clauses that are left have the models of those that were given, and `extendModel` makes
  a model of the first one of the second. `WatchesConsistent`, for them: the occurrence lists,
  their counters, the queue and the heap agree with the clauses.
* *Local search.* `CountersExact`: after each flip the counters, the watches and the list of
  false clauses are what a reading of the clauses gives, but for the break counts by kind
  (section 7). `SearchTruthful`: what is called a
  transition constraint is one. A descent that refines an assignment does not make it worse. A
  walk may: it returns the given assignment if that is a model, for the soft part a model if it
  ends with one and else the given assignment or one that satisfies the hard clauses, and
  otherwise what it ended with (section 7); `refineAssigns` says true of models only.
* *Containers.* `ContainersExact`.
* *Output.* `Fifo`, `PrintedWhole`, `NoLostWakeup`. `PrintedReadable`: what a normal end has
  printed reads back, bracket by bracket, as the answers given to the formatter.
* *Processes.* `CallTruthful`: a call reports every value line that the solver has printed,
  and nothing else, each as a model of its own in which the variables of other lines are false;
  so a model on one line is reported as it is, and one on two lines is not (section 7).
  `CallReturns`: it ends. `EarlyAnswersCorrect`: over this back end, `AnswersCorrect` but for the
  enumerations after the second. *Graph.* `GroundedExact`,
  `WrittenCorrect`, `AnswerTruthful`.

Each property of a passing run has a mutant in `PROJECT.json`: a definition of the
code changed as a plausible bug would change it, under which TLC finds the
property violated.

### Fairness

* `GraphGrounded`, `MssEnumerator`: one sequential
  thread whose engine calls return; `WF(Next)`. In `MssSemantics` (`Progress`, which
  also serves `RefinesDynFramework`) and `MCEngines` (`MCProgress`) the fairness
  says the same without `ENABLED`, which would recompute every model: infinitely
  many steps, or the end. That an engine call returns is no longer assumed in
  `engines`: there its steps are part of the run. The absence of deadlock, checked in every run of a solver, makes it
  weak fairness.
* `OutputQueue`: weak fairness of each thread while the process runs, and strong
  fairness of the lock in `push`, for which two threads compete and which the
  consumer takes again and again. The timeout has none: it may never come.
* `ExternalProcess`: weak fairness of both processes; none of the failure.
* `MCLibrary`: weak fairness of `main` and of each thread (a mutex held for one test is
  released; a thread takes it at most once per clause, so that no other one waits
  for ever), and of the search, but for the last loop of `wsat4PMS`, which may go on for
  ever in the code as well (section 7). The containers need none: they stop.

## 5. Proofs

All theorems hold for any value of the constants, under the named assumptions of
the modules. The `TypeCorrect` theorems are about each module's `TypeOK`. The assumptions
say that the bounds are numbers, that the lines are lists of options (`LinesAssumption`) and that `Order` lists each argument once (the map of
the names); `ProblemAssumption` and `MssProblemAssumption`, that the semantics and the tasks
are those that `SolverFactory` makes these solvers for; `ProcessAssumption`, that the external
solver prints one of the verdicts of the competitions. No theorem bounds the number of
arguments, of changes or of steps.

* `CommandLine_proofs`, about `Attacks` alone: `TypeCorrect`, `StoreCorrect`, `NumberingCorrect`. The crucial lemma is `WasPresentIsInstance`: the test in
  `addDynAttack` looks at an attackers list that earlier changes have already
  grown, so it is right only together with `RecordsInstance` and `StoreComplete` of
  the earlier records: the two are inductive together and neither is alone.
  About `CommandLine`: `ProblemAlwaysAsAsked`, `StoreCorrectUnderMain`, for any lines. The loop sees
  words and the property speaks of options, so the invariant needs to know where the loop is:
  `LayoutExists` gives, for a line, the number of words before each option (the flattening
  is a recursive function, whose values are compared by least counterexamples), and `OptionsRead`
  says that `next` is at the first word of an option and that the fields are those of the options
  before it (`Read`: the last `-p` and `-fo`, the first `-a`). `FilesRead` is what links the two
  modules: without a dynamic task the parser never enters the changes, so by `StoreComplete`
  the lists hold the instance alone.
* `OutputQueue_proofs`: `TypeCorrect`, `FifoCorrect`, `NoLostWakeupCorrect`,
  `PrintedWholeCorrect`. The invariant ties the concatenation of what was printed,
  buffered, taken and queued to what was pushed, and the consumer's program
  counter to the pending notification.
* `GraphGrounded_proofs`: `WorkListCorrect`, `GroundedCorrect`, `AnswerCorrect`,
  `StableAmongPreferred`, `WhatIsWritten`. The search invariant: what is accepted is
  inside every complete extension, what is defeated is what it attacks, and a flag that stays
  down means that no candidate before the index stands. For `WhatIsWritten` it goes with
  what the triathlon has collected so far: preferred sets without repetition, and among the
  `asked` first ones those whose range is everything.
* `MssEnumerator_proofs`: `TypeCorrect`, `MssesCorrect`, `ModelCorrect`,
  `PromiseKept`. `MssesExact` is not inductive: that a set is maximal needs that
  no *open* model extends the settled part into the coMSS (`Searching`), and that
  the closed ones are inside earlier sets (`Bookkeeping`: the blocking clauses are
  the complements of the sets reported). From the two follows at once that the
  set is new, and that nothing is left when nothing is open.
* `Encoding_proofs`, in six parts, each resting on the ones before. (0) The decorator and the
  numbering of the dynamic variables: `TypeCorrect`, `AssumpsCorrect`, `DynVarsCorrect`,
  `TaskImplementsPromise`. `AssumpsExact` speaks of the finished list; its strengthening
  `ScanInv` says, of the pairs seen so far, that each is named by one literal with the sign of
  its last change. The refinement theorem has the initial states and the steps;
  `DynFramework`'s fairness is left to TLC. (1) Clauses:
  `SatisfiableExact`, `ModelsExact`, `FullModelsExact`; the recursive functions of `Cnf` are shown to be what their
  names say by an induction over the number of literals that are still open, done as a least
  counterexample since no induction scheme is available. (2) Semantics: the fundamental lemma,
  the existence of a grounded, a preferred and an ideal extension. (3) Clauses against semantics:
  `EncodingSound` and `EncodingComplete`, through what each auxiliary variable should read
  (`ReadsAttacks`, `ReadsDefence`). (4) The reduction, `ReducedMapsExact`: a pair that propagation
  finds is an implication of the throw-away formula, whose dynamic attacks are left open, hence
  an implication in every step; two implications make one class. After a conflict the engine may
  have found any part of what it could reach, and this is enough. (5) A call of the back end,
  `EncodedModels` and `PropagationsExact`: the clauses it holds are the encoding, and clauses with
  a selector that is retired or belongs to the enumeration that is going on.
* `SatSemantics_proofs`: `AnswersAlwaysCorrect`, `ReductionAlwaysSound`. `AnswersCorrect` speaks of
  the steps that are answered; what makes it inductive is `BackEndInv` (the encoding is never lost,
  whether its clauses are still pending, in the formula or in the engine, and all that was
  added to it has a selector), `SetupInv` (the reduced map is exact at every step),
  `ScanInv` of part (0), and `EnumerationInv` (the models so far are extensions of
  this step, each once, and each is blocked under a selector that is still assumed). That what an
  enumeration leaves behind changes no later answer is a consequence: a selector of an earlier
  step has a unit clause against it, so its clauses hold in some model whatever the arguments are.
* `MssSemantics_proofs`: `AnswersAlwaysCorrect`, `FormulaAlwaysExact`, `ReductionAlwaysSound`. The
  invariant is the same for the encoding and the back end; `MssesInv` says what an enumeration of
  maximal sets has given (each one maximal, once, and while the callback has not stopped it, none
  that decides the question), `RangesInv` the same of the loop over the ranges: every maximal set
  that is not still coming is settled. `SelectorsInv` is what the second enumeration rests on: the
  soft clauses and the blocking clauses of the ranges have selectors beyond the encoding, all
  different, and with one range fixed they leave exactly the other sets of that range.
  `EncodingExact` follows from the back end's part alone.

* `ExternalSat_proofs`: `CallAlwaysTruthful`, `EarlyAnswersAlwaysCorrect`. For the call, the
  invariant `CallInv` ties four things together: what an output may contain (`OutputInv`: the status,
  and value lines only of the model found), that what is printed, in the pipe and read are parts
  of it in this order (`PipeInv`), that the models are the value lines read so far,
  one by one and in their order (`ModelsReadInv`, whose step is `LineRead`), and that without one the whole output was read (`EndInv`). For the answers,
  `Text` describes the clause text: the encoding, unit clauses against the selectors of the first
  enumeration, and one clause for each extension found, which forbids its *full* model, selectors
  included. A full model has one value for every auxiliary variable, so the argument
  needs more than that of the built-in back end: each stable extension has exactly one reading
  (`StableReading`: every number after those of the arguments is one of the two variables of a
  dynamic attack, and its definition fixes it), whence `CallFullModels`. `SelectorsInv` says
  which selectors there are: those of all the enumerations, as the code never clears them. So
  the units at the end of an enumeration retire its own selectors only if it is the first one,
  the second one still finds a text without free selectors, and the third does not:
  `EarlyAnswersCorrect` is what the invariant gives, and the run `external_steps` shows
  that no more is true.

These proofs changed the model in two places. A `CASE` whose guards overlap has, in TLA+, no
determined value; TLC takes the first guard that holds. `MssSemantics!Stops` and `Reports` and
three operators of `Formatter` were written so, and could not be reasoned about; they are now
disjunctions or `IF`s in the order of the code. And `Cnf` had recursive operators, now recursive
functions over the sets of literals.

Only model-checked, and why:

* liveness, and the fairness of the refinements: out of the provers' reach;
* everything in `engines` (`PropagationComplete`, `SearchConsistent`, `WatchesConsistent`,
  `ClausesExact`, `AnswersRight`, `ReductionPromised`, `Irreducible`, `KeepsPromise` of the back end)
  and the local search and the containers in `library`: propagation, conflict analysis and the
  lists are recursive operators. So the theorems on the solvers take the
  engines by what they return, and `engines` checks on its instances that they return it;
* `PrintedReadable`, and the properties of the debuggers: not proved yet, or (the reader of the
  printed text) inductions over data.

## 6. Not modelled

* Recognition of a line by the parsers: text processing, no state the properties tell
  apart. Logging and statistics likewise. The text of the usage and of the error messages.
* The external coMSS, LBX and MaxSAT back ends and `MaxSatEncodingHelper`: no
  execution creates them. `SolverFactory::createMssSolver` (`SolverFactory.h:97`)
  returns the built-in back end whatever the options. `BuiltInMssSolverNG` is
  compiled out by `__SF_USE_GLUCOSE` (`SolverFactory.h:27`); of `BuiltInSatSolverNG` the
  problem reducer uses the propagation, which is modelled, and nothing calls its
  enumerations.
* In the engines: the heap of the activities, LBD protection, budgets, proof output,
  DIMACS output, and the branches of Glucose for its other mode than the incremental one;
  that the trail may outgrow the room reserved for it when a variable is enqueued twice
  (`trail.push_`, section 7); the
  learnt clauses that the MSS back end stores and never restores.
* The rest of the vendored library, which no option of the program reaches:
  the approximations of `cmp/approx` but for their local search, destructive extraction,
  the model rotator and its cache, the programs of the two engines and of the extractor, the
  fuzzers of `dtools`. With option tables, hash maps and build files it is most of what
  no definition is mapped to. The local search and the preprocessors, which no option reaches
  either, are modelled as what they offer: a job, or a list of calls.
* In the preprocessors: the number of clauses (4,800,000) beyond which Glucose does without
  preprocessing, the statistics and the messages; in the local search the last two.
* In the delta debuggers: the option `-e`, with which nothing says that the command
  exits as expected on the formula of `src`; a command whose exit code changes from
  one call to the next.
* A name that is used and never declared. `VarMap::getVar` gives it the number
  after the last variable, which is that of the first auxiliary variable, so that
  the clauses of the two meet. All the formats of the competitions declare every
  name and no document says what the program does otherwise, so there is nothing
  to compare its answer with; the store itself is modelled with undeclared names.
* `--graphBased` in a dynamic task: the solver never looks at `dynStep`, and
  no document says what the option promises there. The pair of solvers of the
  triathlon is taken by what their encodings stand for.

## 7. Where the code and its documents differ

Shown by a run:

* `external_pipe`: `ExternalSatSolver.cc:136` waits for the end of the child before
  it reads the pipe; with an output longer than the pipe the two wait for each
  other for ever (`CallReturns`).
* `external_steps`: `ExternalSatSolver.cc:217` clears the models but not
  `blockingSelectors`; from the third enumeration of a dynamic task on, the same
  extension is written several times (`AnswersCorrect`). The first two steps are right
  (`EarlyAnswersCorrect`, proved).

Met while reading, without a run:

* `ExternalSatSolver.cc:145` calls `extractModel` for each value line, and each call starts a
  new vector of false values, so that a model on two lines is reported as two models, in each of
  which the variables of the other line are false, where `CommandLineHelper.cc:42` asks only for
  output in the format of the competitions, whose values may take several lines.
  `CallTruthful` states what is reported, of the outputs of one and of two lines of run `external`. A
  number at the end of a line with no blank after it is lost as well.
* `glucose/simp/SimpSolver.cc:416` should leave a clause alone that is true, but `satisfied`
  (`core/Solver.cc:317`) sees no more than its two watched literals, where
  `core/Solver.h:311` says that it tells whether the clause is satisfied. The negation of a
  true literal is then enqueued, against the assertion of `core/Solver.cc:750`, and the
  backtrack takes the value of that literal, which stays on the trail of level 0. In the model
  this happens with `-asymm` on the clauses {1, 2}, {2, 4}, {-4, 3}, {2, -3}, {-2, 5}, {1, 3, 5},
  when those of 1 are shortened, and the code compiled with assertions stops there. With
  the default limits the literal is mostly found again by the subsumption; with `-sub-lim=3` the
  clauses {1, 2, 3} and {3} get a model in which 3 is false. `-asymm` is off by default, and
  CoQuiAAS creates its engines without the preprocessor.
* `Attacks.cc:65` counts an attack each time a change announces it, and the
  comment of `Attacks.h:50` speaks of the number of attacks the problem
  contains; `VarMap.cc:93` counts a self-attack read before the declaration of its
  argument on variable 0, and `VarMap.h:122` of the number of variables that are
  self-attacking. The solvers use neither number for an answer.
* `GraphBasedGroundedSemanticsSolver.cc:43`: the `return` stands outside the `if`,
  so that DC and DS end without an answer unless the first element of the grounded
  extension is the query. What is written is right (`AnswerTruthful`, proved).
* `ExternalSatSolver.cc:140`: a solver that answers `UNKNOWN`, or dies, is taken to have
  found the formula unsatisfiable; `:51-72`: the complete semantics ask for
  propagation, which this back end does not offer, although `CommandLineHelper.cc:42`
  names them.
* `BuiltInMssSolverNGGlucose.cc:206` calls itself; nothing calls it.
* `CommandLineHelper.cc:43` says that `-lbx` is mandatory for the problems of the second
  level; nothing reads the option.
* `CommandLineHelper.cc:41` says that the output format is one of `{ICCMA17}` and that
  this is the default; `SolverOutputFormatterFactory.h:18-24` knows `ICCMA2017` and
  `ICCMA2019`, and gives the ICCMA2019 formatter for any other name, `ICCMA17`
  included, and for none.
* `glucose/core/Solver.cc:310` says "Don't leave pointers to free'd memory!"; when the
  removed clause is binary and the reason of its *second* literal, the test of the
  next line does not see it and the reason stays. It happens at level 0 only,
  where no reason is read but by the garbage collection. The instances of `engines` do not
  reach it.
* `CommandLineHelper.cc:32-37` says that `-a` is present if and only if the task is `DC` or
  `DS`; `:126-127` requires it for these and accepts it for every other task, `D3` included.
  Of an option that is repeated, the last `-p` counts and the first `-a`.
* `glucose/simp/SimpSolver.cc:529-537` adds the resolvents of a variable before its clauses go,
  so that with `-rcheck` each of them is implied by the clauses that are still there and none
  is kept: the clauses lose their meaning for the rest. `minisat/simp/SimpSolver.cc` removes the
  clauses first; there a resolvent that only a learnt clause implies is dropped, and the
  learnt clause may be forgotten later. The option is off by default.
* `minisat/simp/SimpSolver.cc`: nothing calls `clearInterrupt`, so that an interrupted
  preprocessing also interrupts the calls that follow; `substitute` stores no clause for
  `extendModel`, which gives its variable no value of its own; a clause that is added later does
  not bring its variables back to the heap of `eliminate`; when `eliminate` fails, `solve_`
  returns with the conflict and the model of the call before.
* `cmp/approx/localSearch.cc:625`: the last loop of `wsat4PMS` goes on until no hard clause is
  false, which never happens when the hard clauses have no model; `:444`: it decrements the
  counter of hard clauses for soft ones as well, so that `h_breakcount` and `s_breakcount` are
  not exact.
* `cmp/approx/localSearch.cc:1106`: with `optWSAT`, `refineAssigns` copies what `wsat_` has ended
  with, better or worse than the given assignment; `:597`: the best cost of `wsat4PMS` starts at
  `INT_MAX` and not at that of the given assignment, so that the first interpretation of the walk
  that satisfies the hard clauses replaces it, even if it falsifies more soft clauses.
  No comment promises otherwise, and the only call, in `bCoMSSApprox.cc:33`, is commented out.
* `minisat/core/Solver.cc`: the constructor leaves `nbInitVariable` without a value.
* No solver calls `formatSequenceOfExtensions` of the formatters.
