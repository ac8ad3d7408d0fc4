----------------------------- MODULE CommandLine -----------------------------
(***************************************************************************)
(* main from its arguments to the computation: the command line, the two   *)
(* files it names, and the solver that the factory makes for them.         *)
(*                                                                         *)
(* A word of the command line is the sequence of its parts between         *)
(* hyphens: "-p" is <<"", "p">>, "--formats" is <<"", "", "formats">> and  *)
(* "SE-ST-D" is <<"SE", "ST", "D">>.  Words are in upper case where the    *)
(* code does not look at the case.                                         *)
(***************************************************************************)
EXTENDS Attacks, SequencesExt

CONSTANTS
  Lines,        \* bound: the command lines, each as a sequence of options
  Readable      \* the names of files that can be read

VARIABLES
  line,         \* history: the options as they were meant, each with its value
  args,         \* CommandLineHelper::args
  next,         \* the argument that parseCommandLine looks at
  clh,          \* the other fields of the CommandLineHelper
  at,           \* where main is
  problem       \* the solver that the factory has made

lineVars == <<line, args, next, clh, at, problem>>
allVars  == <<lineVars, vars>>

IsFlag(word)   == Len(word) > 2 /\ word[1] = "" /\ word[2] = ""
IsOption(word) == Len(word) > 1 /\ word[1] = "" /\ word[2] # ""

\* A line as it is meant: each of its options has the word that follows as
\* its value, unless it is the last word; every other word stands alone.
\* There is one way to read a list of words like this.
Meant(s) ==
  \A k \in DOMAIN s :
    \/ Len(s[k]) = 1 /\ (IsOption(s[k][1]) => k = Len(s))
    \/ Len(s[k]) = 2 /\ IsOption(s[k][1])

Words == UNION {UNION {Range(s[k]) : k \in DOMAIN s} : s \in Lines}

ASSUME LinesAssumption == \A s \in Lines : s \in Seq(Seq(Words)) /\ Meant(s)

Option(name) == <<"", name>>
Flag(name)   == <<"", "", name>>
Empty        == <<"">>
FLAG_SET     == <<"FLAG_SET">>

UndefinedSemantics == [name |-> "undefined", isDynamic |-> FALSE]
NoProblem == [class |-> "none", task |-> "undefined", backEnd |-> "none",
              decorated |-> FALSE, query |-> Empty]

CommandLineHelper ==
  [mustExit |-> FALSE, errorOccured |-> FALSE, taskType |-> "undefined",
   sem |-> UndefinedSemantics, instanceFormat |-> Empty, outputFormatter |-> Empty,
   instanceFile |-> Empty, dynamicsFile |-> Empty, additionalParams |-> << >>]

LineInit ==
  /\ line \in Lines
  /\ args = FlattenSeq(line)
  /\ next = 1
  /\ clh = CommandLineHelper
  /\ at = "options"
  /\ problem = NoProblem

----------------------------------------------------------------------------
(* The words of the tasks *)

getTaskType(word) ==
  CASE word = <<"D3">> -> "D3"
    [] Len(word) > 1 /\ word[1] \in {"SE", "EE", "DC", "DS"} -> word[1]
    [] OTHER -> "undefined"

\* Mutant: the suffix of the dynamic tasks is not looked at.
SemanticsWithoutSuffix(word) ==
  IF Len(word) \in {2, 3} /\ word[2] \in {"ST", "CO", "GR", "PR", "SST", "STG", "ID"}
    THEN [name |-> word[2], isDynamic |-> FALSE]
    ELSE UndefinedSemantics

getSemantics(word) ==
  LET isDyn == Len(word) = 3 /\ word[3] = "D"
  IN CASE word = <<"D3">> -> [name |-> "D3", isDynamic |-> FALSE]
       [] /\ Len(word) = 2 \/ isDyn
          /\ word[2] \in {"ST", "CO", "GR", "PR", "SST", "STG", "ID"} ->
            [name |-> word[2], isDynamic |-> isDyn]
       [] OTHER -> UndefinedSemantics

----------------------------------------------------------------------------
(* CommandLineHelper::parseCommandLine *)

\* std::map::insert: a key that is there keeps its value.
Insert(params, key, value) ==
  [k \in DOMAIN params \cup {key} |-> IF k \in DOMAIN params THEN params[k] ELSE value]

\* std::map::operator[]: asking for a parameter creates it.
Param(params, key)  == IF key \in DOMAIN params THEN params[key] ELSE Empty
Asked(params, key)  == Insert(params, key, Empty)

\* The option and the argument after it; -log opens the file of the log.
Store(option, value) ==
  CASE option = Option("p") ->
         [clh EXCEPT !.taskType = getTaskType(value), !.sem = getSemantics(value)]
    [] option = Option("fo")  -> [clh EXCEPT !.instanceFormat = value]
    [] option = Option("of")  -> [clh EXCEPT !.outputFormatter = value]
    [] option = Option("f")   -> [clh EXCEPT !.instanceFile = value]
    [] option = Option("m")   -> [clh EXCEPT !.dynamicsFile = value]
    [] option = Option("log") -> clh
    [] OTHER -> [clh EXCEPT !.additionalParams = Insert(@, option, value)]

WellFormed(c, test) ==
  IF test THEN c ELSE [c EXCEPT !.errorOccured = TRUE, !.mustExit = TRUE]

NoArgument ==
  /\ at = "options"
  /\ args = << >>
  /\ clh' = [clh EXCEPT !.mustExit = TRUE]
  /\ at' = "parsed"
  /\ UNCHANGED <<line, args, next, problem>>

Information ==
  /\ at = "options"
  /\ next <= Len(args)
  /\ args[next] \in {Flag("problems"), Flag("formats")}
  /\ clh' = [clh EXCEPT !.mustExit = TRUE]
  /\ at' = "parsed"
  /\ UNCHANGED <<line, args, next, problem>>

OptionWithValue ==
  /\ at = "options"
  /\ next < Len(args)
  /\ IsOption(args[next])
  /\ clh' = Store(args[next], args[next + 1])
  /\ next' = next + 2
  /\ UNCHANGED <<line, args, at, problem>>

FlagOption ==
  /\ at = "options"
  /\ next <= Len(args)
  /\ IsFlag(args[next])
  /\ args[next] \notin {Flag("problems"), Flag("formats")}
  /\ clh' = [clh EXCEPT !.additionalParams = Insert(@, args[next], FLAG_SET)]
  /\ next' = next + 1
  /\ UNCHANGED <<line, args, at, problem>>

\* A word that is no option, or an option without a value.
Malformed ==
  /\ at = "options"
  /\ next <= Len(args)
  /\ ~IsFlag(args[next])
  /\ IsOption(args[next]) => next = Len(args)
  /\ clh' = WellFormed(clh, FALSE)
  /\ at' = "parsed"
  /\ UNCHANGED <<line, args, next, problem>>

\* Mutant: the argument of DS is not asked for.
CredulousHasArgument(c) ==
  LET asked == [c EXCEPT !.additionalParams = Asked(@, Option("a"))]
  IN WellFormed(asked, c.taskType = "DC" => Param(c.additionalParams, Option("a")) # Empty)

AcceptanceHasArgument(c) ==
  LET asked == [c EXCEPT !.additionalParams = Asked(@, Option("a"))]
  IN IF c.taskType \in {"DC", "DS"}
       THEN WellFormed(asked, Param(c.additionalParams, Option("a")) # Empty)
       ELSE c

EndOfOptions ==
  /\ at = "options"
  /\ args # << >>
  /\ next > Len(args)
  /\ clh' = AcceptanceHasArgument(clh)
  /\ at' = "parsed"
  /\ UNCHANGED <<line, args, next, problem>>

ParseCommandLine == NoArgument \/ Information \/ OptionWithValue \/ FlagOption
                    \/ Malformed \/ EndOfOptions

----------------------------------------------------------------------------
(* main *)

Goes(from, to) == at = from /\ at' = to

\* Three reasons to stop before any parser exists.
ExitEarly ==
  /\ \/ Goes("parsed", "exit") /\ clh.mustExit
     \/ Goes("timeout", "exit") /\ clh.instanceFormat \notin {<<"apx">>, <<"cnf">>, <<"tgf">>}
     \/ Goes("format", "exit") /\ clh.instanceFile \notin Readable
  /\ UNCHANGED <<line, args, next, clh, problem, vars>>

\* The timer is started here; OutputQueue has what it does.
ManageTimeout ==
  /\ Goes("parsed", "timeout")
  /\ ~clh.mustExit
  /\ UNCHANGED <<line, args, next, clh, problem, vars>>

\* manageInstanceFormat and getParserInstance
ManageInstanceFormat ==
  /\ Goes("timeout", "format")
  /\ clh.instanceFormat \in {<<"apx">>, <<"cnf">>, <<"tgf">>}
  /\ format' = clh.instanceFormat[1]
  /\ UNCHANGED <<line, args, next, clh, problem, varMap, store, dynAttacks, phase, instance>>

ManageInstanceFile ==
  /\ Goes("format", "files")
  /\ clh.instanceFile \in Readable
  /\ UNCHANGED <<line, args, next, clh, problem, vars>>

\* The calls of the parser: the changes are read for a dynamic task only, and
\* a file that cannot be opened has none.
ParseFiles ==
  /\ at = "files"
  /\ Next
  /\ phase = "instance" => phase' # IF clh.sem.isDynamic THEN "parsed" ELSE "dynamics"
  /\ phase = "dynamics" /\ clh.dynamicsFile \notin Readable /\ format # "cnf"
       => phase' = "parsed"
  /\ UNCHANGED lineVars

\* From here on the output thread runs: an early return aborts (OutputQueue).
UnsupportedTask ==
  /\ Goes("files", "exit")
  /\ phase = "parsed"
  /\ clh.sem.name = "undefined" \/ clh.taskType = "undefined"
  /\ UNCHANGED <<line, args, next, clh, problem, vars>>

----------------------------------------------------------------------------
(* SolverFactory *)

createSatSolver(params) ==
  IF Option("externalSatSolver") \in DOMAIN params THEN "external" ELSE "glucose"

Solver(class, backEnd, task) ==
  [class |-> class, backEnd |-> backEnd, task |-> task, decorated |-> FALSE,
   query |-> Empty]

groundedSolver(taskType, params) ==
  IF Flag("graphBased") \in DOMAIN params
    THEN Solver("graphBased", "none", taskType)
    ELSE Solver("GR", createSatSolver(params), taskType)

\* The triathlon's class asks for all the extensions.
getUndecoratedProblemInstance(name, taskType, params) ==
  CASE name \in {"ST", "CO"} -> Solver(name, createSatSolver(params), taskType)
    [] name = "GR"           -> groundedSolver(taskType, params)
    [] name = "D3"           -> Solver(name, "mss", "EE")
    [] OTHER                 -> Solver(name, "mss", taskType)

getProblemInstance(sem, taskType, params) ==
  [getUndecoratedProblemInstance(sem.name, taskType, params)
     EXCEPT !.decorated = sem.isDynamic]

CreateProblem ==
  /\ Goes("files", "query")
  /\ phase = "parsed"
  /\ clh.sem.name # "undefined" /\ clh.taskType # "undefined"
  /\ problem' = getProblemInstance(clh.sem, clh.taskType, clh.additionalParams)
  /\ UNCHANGED <<line, args, next, clh, vars>>

Declared(word) == \E name \in Arg : word = <<name>> /\ varOf[name] # 0

\* Mutant: the argument is not looked up in the map.
AnyArgument ==
  /\ Goes("query", "compute")
  /\ problem' = [problem EXCEPT !.query = Param(clh.additionalParams, Option("a"))]
  /\ UNCHANGED <<line, args, next, clh, vars>>

SetQueryArgument ==
  LET query == Param(clh.additionalParams, Option("a"))
  IN /\ Goes("query", "compute")
     /\ query = Empty \/ Declared(query)
     /\ problem' = [problem EXCEPT !.query = query]
     /\ UNCHANGED <<line, args, next, clh, vars>>

UndefinedArgument ==
  /\ Goes("query", "exit")
  /\ Param(clh.additionalParams, Option("a")) # Empty
  /\ ~Declared(Param(clh.additionalParams, Option("a")))
  /\ UNCHANGED <<line, args, next, clh, problem, vars>>

LineNext ==
  \/ ParseCommandLine /\ UNCHANGED vars
  \/ ExitEarly \/ ManageTimeout \/ ManageInstanceFormat \/ ManageInstanceFile
  \/ ParseFiles
  \/ UnsupportedTask \/ CreateProblem \/ SetQueryArgument \/ UndefinedArgument

----------------------------------------------------------------------------
LineSpec == Init /\ LineInit /\ [][LineNext]_allVars

\* The places of an option on the command line, its first and last values.
Places(option)     == {k \in DOMAIN line : line[k][1] = option}
FirstValue(option) == line[Min(Places(option))][2]
LastValue(option)  == line[Max(Places(option))][2]

Served ==
  [ST |-> {"ST"}, CO |-> {"CO"}, GR |-> {"GR", "graphBased"}, PR |-> {"PR"},
   SST |-> {"SST"}, STG |-> {"STG"}, ID |-> {"ID"}]

\* When the computation starts, the solver is one of the semantics of the last
\* -p, for its task; an acceptance task has an argument of the instance, the
\* first -a; the files are in the format of the last -fo; and the solver goes
\* through the steps if and only if the parser has read changes: without them
\* its framework is the one of the instance alone.  (CommandLineHelper,
\* SolverFactory and the store, in the order main uses them.)
ProblemAsAsked ==
  at = "compute" =>
    LET task == LastValue(Option("p"))
    IN /\ IF task = <<"D3">>
            THEN problem.class = "D3" /\ problem.task = "EE"
            ELSE problem.class \in Served[task[2]] /\ problem.task = task[1]
       /\ problem.task \in {"DC", "DS"} =>
            /\ Declared(problem.query)
            /\ problem.query = FirstValue(Option("a"))
       /\ <<format>> = LastValue(Option("fo"))
       /\ problem.decorated <=> Last(task) = "D"
       /\ ~problem.decorated =>
            \A from, to \in Arg : Listed(from, to) => <<from, to>> \in instance
=============================================================================
