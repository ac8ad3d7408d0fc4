------------------------------ MODULE Encoding ------------------------------
(***************************************************************************)
(* SatEncodingHelper: the clauses that are built once, before the first    *)
(* step, from the attackers lists, which hold every attack of every step.  *)
(* An attack that changes is encoded through variables of its own:         *)
(* fromRepl (the attacker is accepted and the attack is switched on) and   *)
(* notAttackedRepl (the attacker is not attacked, the attack is on).       *)
(***************************************************************************)
EXTENDS DynAssumps, Cnf

CONSTANT Order        \* the arguments, in the order of VarMap::getNames

ASSUME OrderAssumption ==
  /\ Order \in Seq(Arg)
  /\ Arg = {Order[k] : k \in DOMAIN Order}
  /\ \A j, k \in DOMAIN Order : Order[j] = Order[k] => j = k

Position(x) == CHOOSE k \in DOMAIN Order : Order[k] = x

\* A SatEncodingHelper: the variable of each argument (arguments of one class
\* share theirs), of the disjunction of its attackers, and the number of
\* variables reserved before those of the dynamic attacks.
HelperOf(semantics, varOf, n) ==
  [var  |-> varOf,
   disj |-> [x \in Arg |-> n + Position(x)],
   base |-> IF semantics = "ST" THEN n ELSE n + Len(Order)]

Repl(h, p)        == FirstVar(h.base, p)
NotAttacked(h, p) == FirstVar(h.base, p) + 1
Assump(h, p)      == FirstVar(h.base, p) + Width - 1

NbVarsOf(h) == h.base + Width * Cardinality(DynPairs)

\* Attacks::getAttacksTo
Attackers(x) == {y \in Arg : <<y, x>> \in instance \cup DynPairs}

\* lookForDynAttackerReplacement
AttackerLit(h, x, y) ==
  IF <<y, x>> \in DynPairs THEN Repl(h, <<y, x>>) ELSE h.var[y]

\* attackerDisjOfAttacker
AttackedLit(h, x, y) ==
  IF <<y, x>> \in DynPairs THEN -NotAttacked(h, <<y, x>>) ELSE h.disj[y]

\* d <=> a /\ b
Both(d, a, b) == {{-d, a}, {-d, b}, {d, -a, -b}}

\* reserveDynVars
DynClauses(h) ==
  (UNION {Both(Repl(h, p), h.var[p[1]], Assump(h, p)) : p \in DynPairs})
  \cup IF reserveNotAttackedRepl
         THEN UNION {Both(NotAttacked(h, p), -h.disj[p[1]], Assump(h, p)) :
                       p \in DynPairs}
         ELSE {}

\* createAttackersDisjunctionVars
DisjunctionClauses(h) ==
  UNION {{{-h.var[x], -h.disj[x]},
          {-h.disj[x]} \cup {AttackerLit(h, x, y) : y \in Attackers(x)}}
         \cup {{h.disj[x], -AttackerLit(h, x, y)} : y \in Attackers(x)} : x \in Arg}

\* createCompleteEncodingConstraints
CompleteClauses(h) ==
  UNION {{{h.var[x]} \cup {-AttackedLit(h, x, y) : y \in Attackers(x)}}
         \cup {{-h.var[x], AttackedLit(h, x, y)} : y \in Attackers(x)} : x \in Arg}

\* createStableEncodingConstraints
StableClauses(h) ==
  UNION {{{h.var[x]} \cup {AttackerLit(h, x, y) : y \in Attackers(x)}}
         \cup {{-h.var[x], -AttackerLit(h, x, y)} : y \in Attackers(x)} : x \in Arg}

\* createConflictFreenessEncodingConstraints
ConflictFreenessClauses(h) ==
  UNION {{{-h.var[x], -AttackerLit(h, x, y)} : y \in Attackers(x)} : x \in Arg}

\* The init of the solvers.
ClausesOf(semantics, h) ==
  DynClauses(h) \cup
    CASE semantics = "ST"  -> StableClauses(h)
      [] semantics = "STG" -> DisjunctionClauses(h) \cup ConflictFreenessClauses(h)
      [] OTHER             -> DisjunctionClauses(h) \cup CompleteClauses(h)

\* MssEncodingHelper: one soft clause for each variable of the map
\* (setMaxExtensionNeeded) or for each argument (setMaxRangeNeeded).
SoftClauses(semantics, h, n) ==
  IF semantics \in {"SST", "STG"}
    THEN [k \in DOMAIN Order |-> {h.var[Order[k]], h.disj[Order[k]]}]
    ELSE [k \in 1..n |-> {k}]

----------------------------------------------------------------------------
(* SatProblemReducer: before a problem is encoded, arguments that unit     *)
(* propagation shows equal are given one variable.  The propagation runs   *)
(* on a throw-away encoding in which the dynamic attacks are left open, so *)
(* that the classes should be right at every step.                         *)

NbArgs == Len(Order)
ArgVars == 1..NbArgs

InitialVar == [x \in Arg |-> Position(x)]

\* What computePropagationsOf may find, as pairs of a variable and one it
\* propagates: all that propagation can reach, or after a conflict a part of it.
PropagatedPairs(F) ==
  LET failed    == {v \in ArgVars : Conflict(F, Propagate(F, {v}))}
      found(v)  == {<<v, w>> : w \in (Reachable(F, {v}) \cap ArgVars) \ {v}}
      sure      == UNION {found(v) : v \in ArgVars \ failed}
      unsure    == UNION {found(v) : v \in failed}
  IN  {sure \cup S : S \in SUBSET unsure}

\* What propagateAtDecisionLvlZero may fix.
FixedLiterals(F) ==
  LET T == Reachable(F, {}) \cap (ArgVars \cup Neg(ArgVars))
  IN  IF Conflict(F, Propagate(F, {})) THEN {S \in SUBSET T : S \cap Neg(S) = {}} ELSE {T}

\* Mutant: one direction is enough.
EquivalentOneWay(propagated, k, v) == <<k, v>> \in propagated

Equivalent(propagated, k, v) == <<k, v>> \in propagated /\ <<v, k>> \in propagated

\* lookForEquivalencesOf, for the variables in their order: the class of a
\* variable is that of the first one it propagates and is propagated by.
Representative(fixed, propagated) ==
  LET isFixed(v) == v \in fixed \/ -v \in fixed
      after[k \in 0..NbArgs] ==
        IF k = 0 THEN [v \in ArgVars |-> v]
        ELSE LET rep == after[k - 1]
             IN  IF isFixed(k) \/ rep[k] # k THEN rep
                 ELSE [v \in ArgVars |->
                         IF /\ v > k /\ ~isFixed(v) /\ rep[v] = v
                            /\ Equivalent(propagated, k, v)
                         THEN k ELSE rep[v]]
  IN  after[NbArgs]

\* translateVarMap: the arguments fixed to true, those fixed to false, and
\* the classes of the others, each with the next variable.
ReducedMap(fixed, propagated) ==
  LET rep   == Representative(fixed, propagated)
      true  == {v \in ArgVars : v \in fixed}
      false == {v \in ArgVars : -v \in fixed}
      first == Cardinality({c \in {true, false} : c # {}})
      free  == {v \in ArgVars \ (true \cup false) : rep[v] = v}
      class(v) == CASE v \in true  -> 1
                    [] v \in false -> first
                    [] OTHER       -> first + Cardinality({r \in free : r <= rep[v]})
  IN  [varOf |-> [x \in Arg |-> class(Position(x))],
       nArgs |-> first + Cardinality(free)]

\* The maps search may return.
ReducedMaps(semantics) ==
  LET F == ClausesOf(semantics, HelperOf(semantics, InitialVar, NbArgs))
  IN  {ReducedMap(fixed, propagated) :
         fixed \in FixedLiterals(F), propagated \in PropagatedPairs(F)}
=============================================================================
