----------------------------- MODULE DynAssumps -----------------------------
(***************************************************************************)
(* A dynamic task over one encoding: DynamicSemanticsSolverDecorator calls *)
(* the decorated solver for the initial framework (step -1) and after each *)
(* change, and SatEncodingHelper::dynAssumps turns the step into the list  *)
(* of assumptions that switch the dynamic attacks on or off.               *)
(*                                                                         *)
(* The parsed store is the one Attacks guarantees (Attacks!RecordsInstance *)
(* and Attacks!StoreComplete); the names it uses are declared.             *)
(***************************************************************************)
EXTENDS Integers, Sequences, FiniteSets

CONSTANTS
  Arg,          \* the arguments
  Changing,     \* bound: the attacks the changes may mention
  MaxChanges,   \* bound: length of the list of changes
  NbVars        \* values of SatEncodingHelper::nbVars before reserveDynVars

ASSUME SizesAssumption ==
  Changing \subseteq Arg \X Arg /\ MaxChanges \in Nat /\ NbVars \subseteq Nat

VARIABLES
  instance,                 \* the attacks of the parsed instance
  dynAttacks,               \* Attacks::dynAttacks
  nbVars,                   \* variables reserved before the dynamic ones
  reserveNotAttackedRepl,   \* argument of reserveDynVars
  dynStep,                  \* SemanticsProblemSolver::dynStep
  i,                        \* index of both loops of dynAssumps
  assumps,                  \* its result so far
  pc,                       \* where the decorator is
  asked                     \* history: the frameworks assumed at the calls

problem == <<instance, dynAttacks, nbVars, reserveNotAttackedRepl>>
vars    == <<problem, dynStep, i, assumps, pc, asked>>

Attack == Arg \X Arg
Change == [add : BOOLEAN, from : Arg, to : Arg, wasPresent : BOOLEAN]

Pair(j)  == <<dynAttacks[j].from, dynAttacks[j].to>>
DynPairs == {Pair(j) : j \in DOMAIN dynAttacks}

----------------------------------------------------------------------------
(* reserveDynVars: two or three new variables for each attack that changes *)

\* The records for which createNew stays true.
FirstRecords ==
  {j \in DOMAIN dynAttacks : \A k \in 1..(j - 1) : Pair(k) # Pair(j)}

Width == IF reserveNotAttackedRepl THEN 3 ELSE 2

Rank(j) == Cardinality({k \in FirstRecords : k < j})

FirstRecordOf(p) == CHOOSE j \in FirstRecords : Pair(j) = p

\* fromRepl, [notAttackedRepl,] assump, in this order, after the first n
FirstVar(n, p) == n + Width * Rank(FirstRecordOf(p)) + 1

FromRepl(p) == FirstVar(nbVars, p)

AssumpVar(p) == FromRepl(p) + Width - 1

----------------------------------------------------------------------------
\* What the parsers leave (Attacks!RecordsInstance, Attacks!StoreComplete).
ParsedProblem ==
  /\ instance \in SUBSET Attack
  /\ \E n \in 0..MaxChanges :
       \E c \in [1..n -> [add : BOOLEAN, attack : Changing]] :
         dynAttacks = [k \in 1..n |->
                        [add |-> c[k].add,
                         from |-> c[k].attack[1], to |-> c[k].attack[2],
                         wasPresent |-> c[k].attack \in instance]]

BeforeFirstCall ==
  /\ dynStep = -1
  /\ i = 0
  /\ assumps = << >>
  /\ pc = "scan"
  /\ asked = << >>

Init ==
  /\ ParsedProblem
  /\ nbVars \in NbVars
  /\ reserveNotAttackedRepl \in BOOLEAN
  /\ BeforeFirstCall

\* The positions of the list that already hold a literal of the variable.
Holders(v) == {j \in DOMAIN assumps : assumps[j] \in {v, -v}}

\* Mutant: the sign of the first change stays.
ScanAppliedKeepsFirst ==
  /\ pc = "scan"
  /\ i <= dynStep
  /\ LET v   == AssumpVar(Pair(i + 1))
         lit == IF dynAttacks[i + 1].add THEN v ELSE -v
     IN  assumps' = IF Holders(v) = {} THEN Append(assumps, lit) ELSE assumps
  /\ i' = i + 1
  /\ UNCHANGED <<problem, dynStep, pc, asked>>

\* First loop: a change up to the step; its sign replaces an older one.
ScanApplied ==
  /\ pc = "scan"
  /\ i <= dynStep
  /\ LET v   == AssumpVar(Pair(i + 1))
         lit == IF dynAttacks[i + 1].add THEN v ELSE -v
     IN  assumps' = IF Holders(v) = {} THEN Append(assumps, lit)
                    ELSE [j \in DOMAIN assumps |->
                            IF j \in Holders(v) THEN lit ELSE assumps[j]]
  /\ i' = i + 1
  /\ UNCHANGED <<problem, dynStep, pc, asked>>

\* Mutant: a later change counts by what it will do.
ScanPendingAsApplied ==
  /\ pc = "scan"
  /\ i > dynStep
  /\ i < Len(dynAttacks)
  /\ LET v   == AssumpVar(Pair(i + 1))
         lit == IF dynAttacks[i + 1].add THEN v ELSE -v
     IN  assumps' = IF Holders(v) = {} THEN Append(assumps, lit) ELSE assumps
  /\ i' = i + 1
  /\ UNCHANGED <<problem, dynStep, pc, asked>>

\* Second loop: a later change counts by its initial state, if no literal of
\* its attack is in the list.
ScanPending ==
  /\ pc = "scan"
  /\ i > dynStep
  /\ i < Len(dynAttacks)
  /\ LET v   == AssumpVar(Pair(i + 1))
         lit == IF dynAttacks[i + 1].wasPresent THEN v ELSE -v
     IN  assumps' = IF Holders(v) = {} THEN Append(assumps, lit) ELSE assumps
  /\ i' = i + 1
  /\ UNCHANGED <<problem, dynStep, pc, asked>>

\* The attacks the encoding leaves switched on under the assumptions.
Assumed ==
  {p \in instance \cup DynPairs :
     p \in DynPairs => \E j \in DOMAIN assumps : assumps[j] = AssumpVar(p)}

\* The decorated solver is called with the assumptions.
Call ==
  /\ pc = "scan"
  /\ i = Len(dynAttacks)
  /\ asked' = Append(asked, Assumed)
  /\ pc' = "returned"
  /\ UNCHANGED <<problem, dynStep, i, assumps>>

Advance ==
  /\ dynStep' = dynStep + 1
  /\ i' = 0
  /\ assumps' = << >>
  /\ pc' = "scan"
  /\ UNCHANGED <<problem, asked>>

\* iterate: one more step, until every change has had its own.
NextStep ==
  /\ pc = "returned"
  /\ dynStep + 1 < Len(dynAttacks)
  /\ Advance

Finish ==
  /\ pc = "returned"
  /\ dynStep + 1 = Len(dynAttacks)
  /\ pc' = "done"
  /\ UNCHANGED <<problem, dynStep, i, assumps, asked>>

Next == ScanApplied \/ ScanPending \/ Call \/ NextStep \/ Finish

Spec == Init /\ [][Next]_vars

----------------------------------------------------------------------------
TypeOK ==
  /\ instance \subseteq Attack
  /\ dynAttacks \in Seq(Change)
  /\ nbVars \in Nat
  /\ reserveNotAttackedRepl \in BOOLEAN
  /\ dynStep \in Int
  /\ -1 <= dynStep
  /\ dynStep = -1 \/ dynStep < Len(dynAttacks)
  /\ i \in 0..Len(dynAttacks)
  /\ assumps \in Seq(Int)
  /\ pc \in {"scan", "returned", "done"}
  /\ asked \in Seq(SUBSET Attack)

\* Is the attack present once the first n changes are applied?  Its last
\* change decides, or the instance when it has none.
InForce(p, n) ==
  \/ \E k \in 1..n : /\ Pair(k) = p
                     /\ dynAttacks[k].add
                     /\ \A l \in (k + 1)..n : Pair(l) # p
  \/ /\ p \in instance
     /\ \A k \in 1..n : Pair(k) # p

Framework(n) == {p \in Attack : InForce(p, n)}

\* When dynAssumps returns, every attack that ever changes has exactly one
\* literal in the list, and the sign of its state at the present step,
\* although it may have changed several times before, or change only later.
AssumpsExact ==
  pc = "scan" /\ i = Len(dynAttacks) =>
    \A p \in DynPairs :
      /\ Cardinality(Holders(AssumpVar(p))) = 1
      /\ \E j \in Holders(AssumpVar(p)) :
           assumps[j] > 0 <=> InForce(p, dynStep + 1)

\* reserveDynVars: the variables of two attacks never overlap, nor any of the
\* variables of the arguments and disjunctions.
DynVarsDisjoint ==
  \A p, q \in DynPairs :
    /\ FromRepl(p) > nbVars
    /\ p # q => FromRepl(p)..AssumpVar(p) \cap FromRepl(q)..AssumpVar(q) = {}

\* The task is asked of the initial framework and of the framework after each
\* change, in order, and of nothing else (DynFramework).
Updates ==
  [k \in 1..(Len(dynAttacks) - dynStep - 1) |->
     [add |-> dynAttacks[dynStep + 1 + k].add, attack |-> Pair(dynStep + 1 + k)]]

Promise == INSTANCE DynFramework WITH
             framework <- Framework(dynStep + 1),
             pending   <- Updates,
             due       <- (pc = "scan")

RefinesDynFramework == Promise!FairSpec
=============================================================================
