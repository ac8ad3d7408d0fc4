------------------------------ MODULE Attacks ------------------------------
(***************************************************************************)
(* The framework store: VarMap (the numbering of the arguments) and        *)
(* Attacks (the attackers of each argument and the list of announced       *)
(* changes), as the parsers fill them.                                     *)
(*                                                                         *)
(* main parses the whole instance, then (for a dynamic task) the whole     *)
(* list of changes; nothing is applied yet.  The attackers list of an      *)
(* argument ends up holding every attack that is ever present, and each    *)
(* change carries the state of its attack in the parsed instance, from     *)
(* which the solvers rebuild the framework of every step.                  *)
(***************************************************************************)
EXTENDS Integers, Sequences, FiniteSets

CONSTANTS
  Arg,          \* the names that occur in the instance and in the changes
  MaxAttacks,   \* bound: attack lines of the instance
  MaxChanges    \* bound: lines of the dynamics file

ASSUME BoundsAssumption == MaxAttacks \in Nat /\ MaxChanges \in Nat

VARIABLES
  varOf,            \* VarMap::nameToVar, 0 for a name without an entry
  nvars,            \* VarMap::nvars
  selfAttacking,    \* VarMap::selfAttacking: the variables flagged
  nbSelfAttacking,  \* VarMap::nbSelfAttacking
  attacks,          \* Attacks::attacks: the attackers of each name, in order
  nbAttacks,        \* Attacks::nbAttacks
  nMaxAttacks,      \* Attacks::nMaxAttacks
  dynAttacks,       \* Attacks::dynAttacks: the changes, in order
  format,           \* of the two files: "apx", "tgf" or "cnf"
  phase,            \* which file main is parsing, "parsed" or "exit"
  instance          \* history: the attacks of the parsed instance

varMap == <<varOf, nvars, selfAttacking, nbSelfAttacking>>
store  == <<attacks, nbAttacks, nMaxAttacks>>
vars   == <<varMap, store, dynAttacks, format, phase, instance>>

Change == [add : BOOLEAN, from : Arg, to : Arg, wasPresent : BOOLEAN]

TypeOK ==
  /\ varOf \in [Arg -> Nat]
  /\ nvars \in Nat
  /\ selfAttacking \subseteq Nat
  /\ nbSelfAttacking \in Nat
  /\ attacks \in [Arg -> Seq(Arg)]
  /\ nbAttacks \in Nat
  /\ nMaxAttacks \in Nat
  /\ dynAttacks \in Seq(Change)
  /\ format \in {"apx", "tgf", "cnf"}
  /\ phase \in {"instance", "dynamics", "parsed", "exit"}
  /\ instance \subseteq Arg \X Arg

Init ==
  /\ varOf = [n \in Arg |-> 0]
  /\ nvars = 0
  /\ selfAttacking = {}
  /\ nbSelfAttacking = 0
  /\ attacks = [n \in Arg |-> << >>]
  /\ nbAttacks = 0
  /\ nMaxAttacks = 0
  /\ dynAttacks = << >>
  /\ format \in {"apx", "tgf", "cnf"}
  /\ phase = "instance"
  /\ instance = {}

----------------------------------------------------------------------------
(* The operations *)

\* Mutant: the test that the name has no entry is missing.
AddEntryAgain(name) ==
  /\ nvars' = nvars + 1
  /\ varOf' = [varOf EXCEPT ![name] = nvars + 1]
  /\ selfAttacking' = selfAttacking \ {nvars + 1}
  /\ UNCHANGED nbSelfAttacking

\* A name gets the next variable; declaring it again changes nothing.
AddEntry(name) ==
  /\ varOf[name] = 0
  /\ nvars' = nvars + 1
  /\ varOf' = [varOf EXCEPT ![name] = nvars + 1]
  /\ selfAttacking' = selfAttacking \ {nvars + 1}
  /\ UNCHANGED nbSelfAttacking

\* A name without an entry has variable 0, whose flag is then the one set.
SetSelfAttacking(var) ==
  /\ nbSelfAttacking' = IF var \in selfAttacking THEN nbSelfAttacking
                                                 ELSE nbSelfAttacking + 1
  /\ selfAttacking' = selfAttacking \cup {var}
  /\ UNCHANGED <<varOf, nvars>>

AddAttack(from, to) ==
  /\ attacks' = [attacks EXCEPT ![to] = Append(@, from)]
  /\ nbAttacks' = nbAttacks + 1
  /\ nMaxAttacks' = IF Len(attacks[to]) + 1 > nMaxAttacks
                    THEN Len(attacks[to]) + 1 ELSE nMaxAttacks
  /\ IF from = to THEN SetSelfAttacking(varOf[from]) ELSE UNCHANGED varMap

Listed(from, to) == \E k \in DOMAIN attacks[to] : attacks[to][k] = from

RecordsOf(from, to) ==
  {j \in DOMAIN dynAttacks : dynAttacks[j].from = from /\ dynAttacks[j].to = to}

\* Mutant: the earlier records of the attack are not looked at.
WasPresentIfListed(from, to) == Listed(from, to)

\* Present in the list, unless the first record of the same attack says that
\* it is only there because of an earlier change.
WasPresent(from, to) ==
  /\ Listed(from, to)
  /\ \A j \in RecordsOf(from, to) :
       (\A k \in RecordsOf(from, to) : j <= k) => dynAttacks[j].wasPresent

AddDynAttack(add, from, to) ==
  /\ IF WasPresent(from, to) THEN UNCHANGED <<varMap, store>>
                             ELSE AddAttack(from, to)
  /\ dynAttacks' = Append(dynAttacks,
                          [add |-> add, from |-> from, to |-> to,
                           wasPresent |-> WasPresent(from, to)])

----------------------------------------------------------------------------
(* The parsers *)

\* The names come before the attacks, except in the ASPARTIX format.
Declaring == format = "apx" \/ nbAttacks = 0

\* "arg(name).", a name before "#", or one of the numbers of "p af n"
ParseArgument(name) ==
  /\ phase = "instance"
  /\ Declaring
  /\ AddEntry(name)
  /\ UNCHANGED <<store, dynAttacks, format, phase, instance>>

\* "att(from,to)." or a pair after the names
ParseAttack(from, to) ==
  /\ phase = "instance"
  /\ nbAttacks < MaxAttacks
  /\ AddAttack(from, to)
  /\ instance' = instance \cup {<<from, to>>}
  /\ UNCHANGED <<dynAttacks, format, phase>>

EndOfInstance ==
  /\ phase = "instance"
  /\ phase' \in {"dynamics", "parsed"}     \* a dynamic task, or not
  /\ UNCHANGED <<varMap, store, dynAttacks, format, instance>>

\* "+att(from,to)." or "-att(from,to)."
ParseChange(add, from, to) ==
  /\ phase = "dynamics"
  /\ format # "cnf"
  /\ Len(dynAttacks) < MaxChanges
  /\ AddDynAttack(add, from, to)
  /\ UNCHANGED <<format, phase, instance>>

EndOfDynamics ==
  /\ phase = "dynamics"
  /\ format # "cnf"
  /\ phase' = "parsed"
  /\ UNCHANGED <<varMap, store, dynAttacks, format, instance>>

\* A line without the signs it needs ends the program, and so does a list of
\* changes in the CNF format.
Exit ==
  /\ \/ phase = "instance" /\ format = "apx"
     \/ phase = "dynamics"
  /\ phase' = "exit"
  /\ UNCHANGED <<varMap, store, dynAttacks, format, instance>>

Next ==
  \/ \E name \in Arg : ParseArgument(name)
  \/ \E from, to \in Arg : ParseAttack(from, to)
  \/ EndOfInstance
  \/ \E add \in BOOLEAN, from, to \in Arg : ParseChange(add, from, to)
  \/ EndOfDynamics
  \/ Exit

Spec == Init /\ [][Next]_vars

----------------------------------------------------------------------------
(* What the rest of the program relies on *)

Pair(j) == <<dynAttacks[j].from, dynAttacks[j].to>>

\* Every record carries the state its attack had in the parsed instance, even
\* when an earlier record has put that attack in the attackers list
\* (Attacks::addDynAttack); dynAssumps starts from these states.
RecordsInstance ==
  \A j \in DOMAIN dynAttacks : dynAttacks[j].wasPresent <=> Pair(j) \in instance

\* The attackers lists hold exactly the attacks that are present at some step:
\* those of the instance and those a change mentions.  The encoding is built
\* from these lists once, before the first step.
StoreComplete ==
  \A from, to \in Arg :
    Listed(from, to) <=> \/ <<from, to>> \in instance
                         \/ \E j \in DOMAIN dynAttacks : Pair(j) = <<from, to>>

\* The two together, the state of the instance and what is ever present, are
\* what dynAssumps rebuilds the framework of a step from.
StoreExact == RecordsInstance /\ StoreComplete

\* The variables handed out are 1..nvars, each to one name, although entries
\* and attacks come in any order and names are declared again.
NumberingExact ==
  /\ \A name \in Arg : varOf[name] \in 0..nvars
  /\ \A v \in 1..nvars : \E name \in Arg : varOf[name] = v
  /\ \A m, n \in Arg : varOf[m] = varOf[n] /\ varOf[m] # 0 => m = n
=============================================================================
