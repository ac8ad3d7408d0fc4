--------------------------- MODULE Encoding_proofs ---------------------------
(* Proofs about the dynamic tasks, about the encoding of the semantics into   *)
(* clauses and about the problem reduction, for any framework, any list of    *)
(* changes and any number of variables reserved before the dynamic ones.      *)
(* After the decorator and dynAssumps come the clauses, whose models the      *)
(* engines look for, and the semantics themselves, which the solvers compute  *)
(* by other means than their definitions.                                     *)
EXTENDS SatBackEnd, WellFoundedInduction, FiniteSetTheorems, SequenceTheorems, TLAPS

----------------------------------------------------------------------------
(* The variables of the dynamic attacks *)

\* A non-empty set of numbers has a least element: the loop that stops at the first
\* match of the list of changes (reserveDynVars) is modelled by it.
LEMMA LeastElement ==
  ASSUME NEW T \in SUBSET Nat, T # {}
  PROVE  \E m \in T : \A k \in T : m <= k
<1>1. IsWellFoundedOn(OpToRel(<, Nat), Nat)
  BY NatLessThanWellFounded
<1>2. PICK x \in T : \A y \in T : <<y, x>> \notin OpToRel(<, Nat)
  BY <1>1, WFMin, Zenon
<1>3. ASSUME NEW y \in T PROVE x <= y
  <2>1. <<y, x>> \notin OpToRel(<, Nat)
    BY <1>2
  <2>2. ~(y < x)
    BY <2>1 DEF OpToRel
  <2> QED BY <2>2
<1> QED BY <1>3

\* Every attack that changes has a first record, the one that makes
\* reserveDynVars create its variables.
LEMMA FirstRecordExists ==
  ASSUME TypeOK, NEW p \in DynPairs
  PROVE  FirstRecordOf(p) \in FirstRecords /\ Pair(FirstRecordOf(p)) = p
<1> DEFINE T == {j \in DOMAIN dynAttacks : Pair(j) = p}
<1>1. DOMAIN dynAttacks = 1..Len(dynAttacks) /\ Len(dynAttacks) \in Nat
  BY LenProperties DEF TypeOK
<1>2. T \in SUBSET Nat /\ T # {}
  BY <1>1 DEF DynPairs
<1>3. PICK m \in T : \A k \in T : m <= k
  BY <1>2, LeastElement
<1>4. m \in FirstRecords /\ Pair(m) = p
  BY <1>1, <1>3 DEF FirstRecords
<1> QED BY <1>4 DEF FirstRecordOf

\* The variables of the attacks are numbered in the order of their first
\* records.
LEMMA RankIncreases ==
  ASSUME TypeOK, NEW j \in FirstRecords, NEW k \in FirstRecords, j < k
  PROVE  Rank(j) \in Nat /\ Rank(k) \in Nat /\ Rank(j) < Rank(k)
<1> DEFINE Before(n) == {l \in FirstRecords : l < n}
<1>1. DOMAIN dynAttacks = 1..Len(dynAttacks) /\ Len(dynAttacks) \in Nat
  BY LenProperties DEF TypeOK
<1>2. FirstRecords \subseteq 1..Len(dynAttacks)
  BY <1>1 DEF FirstRecords
<1>3. IsFiniteSet(1..Len(dynAttacks))
  BY <1>1, FS_Interval
<1>4. IsFiniteSet(Before(j)) /\ IsFiniteSet(Before(k))
  BY <1>2, <1>3, FS_Subset
<1>5. Before(j) \in SUBSET Before(k) /\ j \in Before(k) /\ j \notin Before(j)
  <2>1. FirstRecords \subseteq Int
    BY <1>2
  <2>2. \A l \in FirstRecords : l < j => l < k
    BY <2>1
  <2>3. ~(j < j)
    BY <2>1
  <2> QED BY <2>2, <2>3
<1>6. /\ Cardinality(Before(j)) \in Nat /\ Cardinality(Before(k)) \in Nat
      /\ Cardinality(Before(j)) <= Cardinality(Before(k))
      /\ Cardinality(Before(j)) # Cardinality(Before(k))
  BY <1>4, <1>5, FS_CardinalityType, FS_Subset
<1>7. Rank(j) = Cardinality(Before(j)) /\ Rank(k) = Cardinality(Before(k))
  BY DEF Rank
<1> QED BY <1>6, <1>7

\* The changes before the first one of a pair can be counted.
LEMMA RankType ==
  ASSUME TypeOK, NEW j \in FirstRecords
  PROVE  Rank(j) \in Nat
<1>1. DOMAIN dynAttacks = 1..Len(dynAttacks) /\ Len(dynAttacks) \in Nat
  BY LenProperties DEF TypeOK
<1>2. {l \in FirstRecords : l < j} \in SUBSET (1..Len(dynAttacks))
  BY <1>1 DEF FirstRecords
<1>3. IsFiniteSet({l \in FirstRecords : l < j})
  <2>1. IsFiniteSet(1..Len(dynAttacks))
    BY <1>1, FS_Interval
  <2> QED BY <1>2, <2>1, FS_Subset
<1> QED BY <1>3, FS_CardinalityType DEF Rank

\* The variables of a pair are numbers above the arguments', in their order.
LEMMA AssumpVarType ==
  ASSUME TypeOK, NEW p \in DynPairs
  PROVE  /\ FromRepl(p) \in Nat /\ AssumpVar(p) \in Nat
         /\ nbVars < FromRepl(p) /\ FromRepl(p) < AssumpVar(p)
<1>1. Rank(FirstRecordOf(p)) \in Nat
  BY FirstRecordExists, RankType
<1>2. Width \in {2, 3} /\ nbVars \in Nat
  BY DEF Width, TypeOK
<1>3. CASE Width = 2
  BY <1>1, <1>2, <1>3 DEF FromRepl, FirstVar, AssumpVar
<1>4. CASE Width = 3
  BY <1>1, <1>2, <1>4 DEF FromRepl, FirstVar, AssumpVar
<1> QED BY <1>2, <1>3, <1>4

\* Of two pairs, the one that the list meets later has the larger variables.
LEMMA LaterPairAbove ==
  ASSUME TypeOK, NEW p \in DynPairs, NEW q \in DynPairs,
         FirstRecordOf(p) < FirstRecordOf(q)
  PROVE  AssumpVar(p) < FromRepl(q)
<1>1. /\ Rank(FirstRecordOf(p)) \in Nat /\ Rank(FirstRecordOf(q)) \in Nat
      /\ Rank(FirstRecordOf(p)) + 1 <= Rank(FirstRecordOf(q))
  BY FirstRecordExists, RankIncreases
<1>2. Width \in {2, 3} /\ nbVars \in Nat
  BY DEF Width, TypeOK
<1>3. CASE Width = 2
  BY <1>1, <1>2, <1>3 DEF FromRepl, FirstVar, AssumpVar
<1>4. CASE Width = 3
  BY <1>1, <1>2, <1>4 DEF FromRepl, FirstVar, AssumpVar
<1> QED BY <1>2, <1>3, <1>4

\* No variable serves two attacks, or an attack and an argument.
LEMMA VarsDisjoint == TypeOK => DynVarsDisjoint
<1> SUFFICES ASSUME TypeOK, NEW p \in DynPairs, NEW q \in DynPairs
             PROVE  /\ FromRepl(p) > nbVars
                    /\ p # q => FromRepl(p)..AssumpVar(p)
                                  \cap FromRepl(q)..AssumpVar(q) = {}
  BY DEF DynVarsDisjoint
<1>1. /\ FromRepl(p) \in Nat /\ AssumpVar(p) \in Nat
      /\ FromRepl(q) \in Nat /\ AssumpVar(q) \in Nat
      /\ nbVars < FromRepl(p) /\ nbVars \in Nat
  BY AssumpVarType DEF TypeOK
<1>2. ASSUME p # q
      PROVE  FromRepl(p)..AssumpVar(p) \cap FromRepl(q)..AssumpVar(q) = {}
  <2>1. /\ FirstRecordOf(p) \in Nat /\ FirstRecordOf(q) \in Nat
        /\ FirstRecordOf(p) # FirstRecordOf(q)
    <3>1. FirstRecords \subseteq Nat
      BY LenProperties DEF TypeOK, FirstRecords
    <3> QED BY <1>2, <3>1, FirstRecordExists
  <2>2. CASE FirstRecordOf(p) < FirstRecordOf(q)
    <3>1. AssumpVar(p) < FromRepl(q)
      BY <2>2, LaterPairAbove
    <3> QED BY <1>1, <3>1
  <2>3. CASE FirstRecordOf(q) < FirstRecordOf(p)
    <3>1. AssumpVar(q) < FromRepl(p)
      BY <2>3, LaterPairAbove
    <3> QED BY <1>1, <3>1
  <2> QED BY <2>1, <2>2, <2>3
<1> QED BY <1>1, <1>2

\* No two pairs share a selector: getDynAttackAssumptions names one attack at a time.
LEMMA AssumpVarInjective ==
  ASSUME TypeOK, NEW p \in DynPairs, NEW q \in DynPairs,
         AssumpVar(p) = AssumpVar(q)
  PROVE  p = q
<1>1. /\ AssumpVar(p) \in FromRepl(p)..AssumpVar(p)
      /\ AssumpVar(q) \in FromRepl(q)..AssumpVar(q)
  BY AssumpVarType
<1> QED BY <1>1, VarsDisjoint DEF DynVarsDisjoint

----------------------------------------------------------------------------
\* The records carry the states of the parsed instance; nothing changes them.
Parsed ==
  \A k \in DOMAIN dynAttacks : dynAttacks[k].wasPresent <=> Pair(k) \in instance

\* Types, and the contract of the parsed store.
Base == TypeOK /\ Parsed

\* They hold when the solvers are built, whatever the number of variables that
\* come before those of the dynamic attacks.
LEMMA StartBase ==
  ASSUME ParsedProblem, BeforeFirstCall, nbVars \in Nat,
         reserveNotAttackedRepl \in BOOLEAN
  PROVE  Base
<1>1. PICK n \in 0..MaxChanges :
        \E c \in [1..n -> [add : BOOLEAN, attack : Changing]] :
          dynAttacks = [k \in 1..n |->
                         [add |-> c[k].add,
                          from |-> c[k].attack[1], to |-> c[k].attack[2],
                          wasPresent |-> c[k].attack \in instance]]
  BY DEF ParsedProblem
<1>2. PICK c \in [1..n -> [add : BOOLEAN, attack : Changing]] :
        dynAttacks = [k \in 1..n |->
                       [add |-> c[k].add,
                        from |-> c[k].attack[1], to |-> c[k].attack[2],
                        wasPresent |-> c[k].attack \in instance]]
  BY <1>1
<1>3. n \in Nat
  BY SizesAssumption
<1>4. ASSUME NEW k \in 1..n
      PROVE  /\ c[k].add \in BOOLEAN
             /\ c[k].attack[1] \in Arg /\ c[k].attack[2] \in Arg
             /\ c[k].attack = <<c[k].attack[1], c[k].attack[2]>>
             /\ (c[k].attack \in instance) \in BOOLEAN
  <2>1. c[k].add \in BOOLEAN /\ c[k].attack \in Arg \X Arg
    BY SizesAssumption
  <2> QED BY <2>1
<1>5. \A k \in 1..n : dynAttacks[k] \in Change
  BY <1>2, <1>4 DEF Change
<1>6. dynAttacks \in Seq(Change) /\ Len(dynAttacks) = n
  BY <1>2, <1>3, <1>5, SeqDef, LenProperties
<1>7. Parsed
  BY <1>2, <1>4 DEF Parsed, Pair
<1>8. TypeOK
  BY <1>3, <1>6, SizesAssumption DEF ParsedProblem, BeforeFirstCall, TypeOK
<1> QED BY <1>7, <1>8 DEF Base

\* The decorator starts in a typed state, about the problem it is given.
LEMMA InitBase == Init => Base
BY StartBase, SizesAssumption DEF Init

\* The changing attacks are attacks, the assumed ones too.
LEMMA PairsAreAttacks ==
  ASSUME TypeOK
  PROVE  /\ \A k \in 1..Len(dynAttacks) : /\ dynAttacks[k] \in Change
                                          /\ Pair(k) \in Attack
                                          /\ Pair(k) \in DynPairs
         /\ DynPairs \subseteq Attack
         /\ Assumed \subseteq Attack
         /\ DOMAIN dynAttacks = 1..Len(dynAttacks) /\ Len(dynAttacks) \in Nat
<1>1. /\ dynAttacks \in Seq(Change)
      /\ DOMAIN dynAttacks = 1..Len(dynAttacks) /\ Len(dynAttacks) \in Nat
  BY LenProperties DEF TypeOK
<1>2. \A k \in 1..Len(dynAttacks) : dynAttacks[k] \in Change
  BY <1>1, ElementOfSeq
<1>3. \A k \in 1..Len(dynAttacks) : Pair(k) \in Attack /\ Pair(k) \in DynPairs
  BY <1>1, <1>2 DEF Change, Pair, Attack, DynPairs
<1>4. DynPairs \subseteq Attack
  BY <1>1, <1>3 DEF DynPairs
<1>5. Assumed \subseteq Attack
  BY <1>4 DEF Assumed, TypeOK
<1> QED BY <1>1, <1>2, <1>3, <1>4, <1>5

\* No step changes the problem, and each keeps the types.
LEMMA BasePreserved ==
  ASSUME Base, [Next]_vars
  PROVE  Base'
<1> SUFFICES ASSUME TypeOK, Parsed, [Next]_vars PROVE TypeOK' /\ Parsed'
  BY DEF Base
<1>0. UNCHANGED problem
  BY DEF Next, ScanApplied, ScanPending, Call, NextStep, Advance, Finish, vars
<1>1. Parsed'
  BY <1>0 DEF problem, Parsed, Pair
<1>2. /\ DOMAIN dynAttacks = 1..Len(dynAttacks) /\ Len(dynAttacks) \in Nat
      /\ Assumed \subseteq Attack
      /\ \A k \in 1..Len(dynAttacks) : Pair(k) \in DynPairs
  BY PairsAreAttacks
<1>3. /\ instance' \subseteq Attack /\ dynAttacks' \in Seq(Change)
      /\ nbVars' \in Nat /\ reserveNotAttackedRepl' \in BOOLEAN
      /\ Len(dynAttacks') = Len(dynAttacks)
  BY <1>0 DEF problem, TypeOK
<1>4. ASSUME i < Len(dynAttacks), NEW lit \in Int, NEW v,
             \/ assumps' = Append(assumps, lit)
             \/ assumps' = [j \in DOMAIN assumps |->
                              IF j \in Holders(v) THEN lit ELSE assumps[j]]
             \/ assumps' = assumps
      PROVE  assumps' \in Seq(Int)
  <2>1. assumps \in Seq(Int)
    BY DEF TypeOK
  <2>2. CASE assumps' = [j \in DOMAIN assumps |->
                            IF j \in Holders(v) THEN lit ELSE assumps[j]]
    <3>1. /\ DOMAIN assumps = 1..Len(assumps) /\ Len(assumps) \in Nat
          /\ \A j \in 1..Len(assumps) : assumps[j] \in Int
      BY <2>1, LenProperties, ElementOfSeq
    <3>2. assumps' \in [1..Len(assumps) -> Int]
      BY <2>2, <3>1
    <3> QED BY <3>1, <3>2, SeqDef
  <2> QED BY <1>4, <2>1, <2>2, AppendProperties
<1>5. CASE ScanApplied
  <2>1. i < Len(dynAttacks) /\ i \in Nat
    BY <1>2, <1>5 DEF ScanApplied, TypeOK
  <2>2. AssumpVar(Pair(i + 1)) \in Int
    BY <1>2, <2>1, AssumpVarType
  <2>3. assumps' \in Seq(Int)
    <3> DEFINE v == AssumpVar(Pair(i + 1))
               lit == IF dynAttacks[i + 1].add THEN v ELSE -v
    <3>1. \/ assumps' = Append(assumps, lit)
          \/ assumps' = [j \in DOMAIN assumps |->
                           IF j \in Holders(v) THEN lit ELSE assumps[j]]
      BY <1>5 DEF ScanApplied
    <3>2. lit \in Int
      BY <2>2
    <3> HIDE DEF lit, v
    <3> QED BY <1>4, <2>1, <3>1, <3>2
  <2> QED BY <1>1, <1>3, <1>5, <2>1, <2>3 DEF ScanApplied, TypeOK
<1>6. CASE ScanPending
  <2>1. i < Len(dynAttacks) /\ i \in Nat
    BY <1>6 DEF ScanPending, TypeOK
  <2>2. AssumpVar(Pair(i + 1)) \in Int
    BY <1>2, <2>1, AssumpVarType
  <2>3. assumps' \in Seq(Int)
    <3> DEFINE v == AssumpVar(Pair(i + 1))
               lit == IF dynAttacks[i + 1].wasPresent THEN v ELSE -v
    <3>1. \/ assumps' = Append(assumps, lit)
          \/ assumps' = assumps
      BY <1>6 DEF ScanPending
    <3>2. lit \in Int
      BY <2>2
    <3> HIDE DEF lit, v
    <3> QED BY <1>4, <2>1, <3>1, <3>2
  <2> QED BY <1>1, <1>3, <1>6, <2>1, <2>3 DEF ScanPending, TypeOK
<1>7. CASE Call
  <2>1. asked' \in Seq(SUBSET Attack)
    BY <1>2, <1>7, AppendProperties DEF Call, TypeOK
  <2> QED BY <1>1, <1>3, <1>7, <2>1 DEF Call, TypeOK
<1>8. CASE NextStep
  BY <1>1, <1>2, <1>3, <1>8, EmptySeq DEF NextStep, Advance, TypeOK
<1>9. CASE Finish
  BY <1>1, <1>3, <1>9 DEF Finish, TypeOK
<1>10. CASE UNCHANGED vars
  BY <1>1, <1>3, <1>10 DEF vars, TypeOK
<1> QED BY <1>1, <1>5, <1>6, <1>7, <1>8, <1>9, <1>10 DEF Next

\* Every variable keeps its type, and the store stays the parsed one.
THEOREM BaseCorrect == Spec => []Base
<1>1. Base /\ [Next]_vars => Base'
  BY BasePreserved
<1> QED BY <1>1, InitBase, PTL DEF Spec

----------------------------------------------------------------------------
\* One more change decides for its own attack and for no other.
LEMMA InForceStep ==
  ASSUME TypeOK, NEW n \in Nat, n < Len(dynAttacks), NEW p
  PROVE  InForce(p, n + 1) <=> IF Pair(n + 1) = p THEN dynAttacks[n + 1].add
                                                  ELSE InForce(p, n)
<1>1. CASE Pair(n + 1) = p
  <2>1. ~(\A k \in 1..(n + 1) : Pair(k) # p)
    BY <1>1
  <2>2. ASSUME NEW k \in 1..(n + 1), \A l \in (k + 1)..(n + 1) : Pair(l) # p
        PROVE  k = n + 1
    BY <1>1, <2>2
  <2>3. dynAttacks[n + 1].add \in BOOLEAN
    BY PairsAreAttacks DEF Change
  <2>4. ASSUME dynAttacks[n + 1].add
        PROVE  InForce(p, n + 1)
    <3>1. \A l \in (n + 1 + 1)..(n + 1) : Pair(l) # p
      OBVIOUS
    <3> QED BY <1>1, <2>4, <3>1 DEF InForce
  <2>5. ASSUME InForce(p, n + 1)
        PROVE  dynAttacks[n + 1].add
    BY <2>1, <2>2, <2>5 DEF InForce
  <2> QED BY <1>1, <2>3, <2>4, <2>5
<1>2. CASE Pair(n + 1) # p
  <2>1. (\A k \in 1..(n + 1) : Pair(k) # p) <=> (\A k \in 1..n : Pair(k) # p)
    BY <1>2
  <2>2. ASSUME NEW k \in 1..(n + 1)
        PROVE  (Pair(k) = p /\ \A l \in (k + 1)..(n + 1) : Pair(l) # p)
                 <=> (k \in 1..n /\ Pair(k) = p /\ \A l \in (k + 1)..n : Pair(l) # p)
    <3>1. CASE k = n + 1
      BY <1>2, <3>1
    <3>2. CASE k \in 1..n
      <4>1. \A l : l \in (k + 1)..(n + 1) <=> l \in (k + 1)..n \/ l = n + 1
        BY <3>2
      <4> QED BY <1>2, <3>2, <4>1
    <3> QED BY <3>1, <3>2
  <2>3. 1..n \subseteq 1..(n + 1)
    OBVIOUS
  <2> QED BY <1>2, <2>1, <2>2, <2>3 DEF InForce
<1> QED BY <1>1, <1>2

\* Before its first change an attack is as in the instance.
LEMMA InForceUnchanged ==
  ASSUME NEW n \in Nat, NEW p, \A k \in 1..n : Pair(k) # p
  PROVE  InForce(p, n) <=> p \in instance
BY DEF InForce

----------------------------------------------------------------------------
(* What the two loops of dynAssumps have established before record i *)

Upto == IF i <= dynStep + 1 THEN i ELSE dynStep + 1

Seen == {Pair(k) : k \in 1..i}

Lit(p) == IF InForce(p, Upto) THEN AssumpVar(p) ELSE -AssumpVar(p)

\* The list holds one literal for each attack seen so far, and nothing else;
\* its sign is the state of the attack after the changes seen so far that the
\* step includes.
ScanInv ==
  pc = "scan" =>
    /\ \A j \in DOMAIN assumps : \E p \in Seen : assumps[j] = Lit(p)
    /\ \A p \in Seen : \E j \in DOMAIN assumps : Holders(AssumpVar(p)) = {j}

\* What the scan of a step has met are pairs of the list, within its bounds.
LEMMA SeenArePairs ==
  ASSUME TypeOK
  PROVE  /\ Seen \subseteq DynPairs
         /\ i \in Nat /\ dynStep + 1 \in Nat /\ Upto \in Nat
         /\ Upto <= Len(dynAttacks) /\ Len(dynAttacks) \in Nat
<1>1. Len(dynAttacks) \in Nat
  BY PairsAreAttacks
<1>2. Seen \subseteq DynPairs
  BY PairsAreAttacks DEF Seen, TypeOK
<1> QED BY <1>1, <1>2 DEF TypeOK, Upto

\* A literal of the list is one of the variable of p only if it is the one of
\* p: variables of different attacks differ.
LEMMA HoldersOf ==
  ASSUME TypeOK, ScanInv, pc = "scan", NEW p \in DynPairs
  PROVE  /\ Holders(AssumpVar(p)) = {j \in DOMAIN assumps : assumps[j] = Lit(p)}
         /\ p \notin Seen => Holders(AssumpVar(p)) = {}
<1>1. ASSUME NEW j \in DOMAIN assumps, assumps[j] \in {AssumpVar(p), -AssumpVar(p)}
      PROVE  assumps[j] = Lit(p) /\ p \in Seen
  <2>1. PICK q \in Seen : assumps[j] = Lit(q)
    BY DEF ScanInv
  <2>2. q \in DynPairs
    BY SeenArePairs
  <2>3. /\ AssumpVar(p) \in Nat \ {0} /\ AssumpVar(q) \in Nat \ {0}
    BY <2>2, AssumpVarType DEF TypeOK
  <2>4. AssumpVar(p) = AssumpVar(q)
    BY <1>1, <2>1, <2>3 DEF Lit
  <2>5. p = q
    BY <2>2, <2>4, AssumpVarInjective
  <2> QED BY <2>1, <2>5
<1>2. \A j \in DOMAIN assumps :
        assumps[j] = Lit(p) => assumps[j] \in {AssumpVar(p), -AssumpVar(p)}
  BY DEF Lit
<1> QED BY <1>1, <1>2 DEF Holders

\* A step that leaves the problem alone leaves what is defined from it alone.
LEMMA ProblemFixed ==
  ASSUME UNCHANGED problem
  PROVE  /\ \A p : AssumpVar(p)' = AssumpVar(p)
         /\ \A p, n : InForce(p, n)' <=> InForce(p, n)
         /\ \A k : Pair(k)' = Pair(k)
         /\ DynPairs' = DynPairs
<1>1. \A k : Pair(k)' = Pair(k)
  BY DEF problem, Pair
<1>2. FirstRecords' = FirstRecords
  BY <1>1 DEF problem, FirstRecords
<1>3. \A p : FirstRecordOf(p)' = FirstRecordOf(p)
  BY <1>1, <1>2 DEF FirstRecordOf
<1>4. \A j : Rank(j)' = Rank(j)
  BY <1>2 DEF Rank
<1>5. Width' = Width
  BY DEF problem, Width
<1>6. \A p : AssumpVar(p)' = AssumpVar(p)
  BY <1>3, <1>4, <1>5 DEF problem, AssumpVar, FromRepl, FirstVar
<1>7. \A p, n : InForce(p, n)' <=> InForce(p, n)
  BY <1>1 DEF problem, InForce
<1>8. DynPairs' = DynPairs
  BY <1>1 DEF problem, DynPairs
<1> QED BY <1>1, <1>6, <1>7, <1>8

Updated(p, lit) ==
  IF Holders(AssumpVar(p)) = {} THEN Append(assumps, lit)
  ELSE [j \in DOMAIN assumps |->
          IF j \in Holders(AssumpVar(p)) THEN lit ELSE assumps[j]]

\* Both loops do the same to the list: the literal of record i replaces the
\* one of its attack, or is added when there is none.
LEMMA RecordStep ==
  ASSUME TypeOK, TypeOK', ScanInv, pc = "scan",
         UNCHANGED problem, i < Len(dynAttacks), i' = i + 1,
         NEW p0, p0 = Pair(i + 1), NEW lit, Lit(p0)' = lit,
         \A q \in Seen : q # p0 => Lit(q)' = Lit(q),
         assumps' = Updated(p0, lit)
  PROVE  ScanInv'
<1> DEFINE H == Holders(AssumpVar(p0))
<1>1. /\ i \in Nat /\ p0 \in DynPairs /\ DynPairs' = DynPairs
      /\ \A p : AssumpVar(p)' = AssumpVar(p)
      /\ \A p \in DynPairs : AssumpVar(p) \in Nat \ {0}
      /\ Seen \subseteq DynPairs
  <2>1. i + 1 \in 1..Len(dynAttacks)
    BY SeenArePairs DEF TypeOK
  <2>2. p0 \in DynPairs
    BY <2>1, PairsAreAttacks
  <2>3. \A p \in DynPairs : AssumpVar(p) \in Nat \ {0}
    <3> SUFFICES ASSUME NEW p \in DynPairs PROVE AssumpVar(p) \in Nat \ {0}
      OBVIOUS
    <3> QED BY AssumpVarType DEF TypeOK
  <2> QED BY <2>2, <2>3, SeenArePairs, ProblemFixed
<1>2. Seen' = Seen \cup {p0}
  <2>1. 1..i' = 1..i \cup {i + 1}
    BY <1>1
  <2> QED BY <2>1, ProblemFixed DEF Seen
<1>3. /\ DOMAIN assumps = 1..Len(assumps) /\ Len(assumps) \in Nat
      /\ assumps \in Seq(Int)
  BY LenProperties DEF TypeOK
<1>4. lit \in {AssumpVar(p0), -AssumpVar(p0)}
  BY <1>1 DEF Lit
<1>5. \A q \in DynPairs : q # p0 =>
        lit \notin {AssumpVar(q), -AssumpVar(q)}
  <2> SUFFICES ASSUME NEW q \in DynPairs, q # p0,
                      lit \in {AssumpVar(q), -AssumpVar(q)}
               PROVE  FALSE
    OBVIOUS
  <2>1. AssumpVar(q) = AssumpVar(p0)
    BY <1>1, <1>4
  <2> QED BY <1>1, <2>1, AssumpVarInjective
<1>8. \A p : Holders(AssumpVar(p))' =
               {k \in DOMAIN assumps' : assumps'[k] \in {AssumpVar(p), -AssumpVar(p)}}
  BY <1>1 DEF Holders
<1>6. CASE H = {}
  <2>1. p0 \notin Seen
    <3>1. ASSUME p0 \in Seen PROVE H # {}
      BY <3>1 DEF ScanInv
    <3> QED BY <1>6, <3>1
  <2>2. assumps' = Append(assumps, lit)
    BY <1>6 DEF Updated
  <2>3. lit \in Int
    BY <1>1, <1>4
  <2>4. /\ DOMAIN assumps' = DOMAIN assumps \cup {Len(assumps) + 1}
        /\ \A j \in DOMAIN assumps : assumps'[j] = assumps[j]
        /\ assumps'[Len(assumps) + 1] = lit
        /\ Len(assumps) + 1 \notin DOMAIN assumps
    <3>1. /\ Len(assumps') = Len(assumps) + 1
          /\ DOMAIN assumps' = 1..Len(assumps')
          /\ \A j \in 1..Len(assumps) : assumps'[j] = assumps[j]
          /\ assumps'[Len(assumps) + 1] = lit
      <4>1. /\ Append(assumps, lit) \in Seq(Int)
            /\ Len(Append(assumps, lit)) = Len(assumps) + 1
            /\ \A j \in 1..Len(assumps) : Append(assumps, lit)[j] = assumps[j]
            /\ Append(assumps, lit)[Len(assumps) + 1] = lit
        BY <1>3, <2>3, AppendProperties
      <4>2. DOMAIN Append(assumps, lit) = 1..Len(Append(assumps, lit))
        BY <4>1, LenProperties
      <4> QED BY <2>2, <4>1, <4>2
    <3>2. \A n \in Nat : 1..(n + 1) = 1..n \cup {n + 1} /\ n + 1 \notin 1..n
      OBVIOUS
    <3>3. DOMAIN assumps' = 1..(Len(assumps) + 1)
      BY <3>1
    <3>4. DOMAIN assumps' = 1..Len(assumps) \cup {Len(assumps) + 1}
      BY <1>3, <3>2, <3>3
    <3>5. DOMAIN assumps = 1..Len(assumps)
      BY <1>3
    <3> QED BY <1>3, <3>1, <3>2, <3>4, <3>5
  <2> DEFINE last == Len(assumps) + 1
  <2>5. \A j \in DOMAIN assumps' : \E p \in Seen' : assumps'[j] = Lit(p)'
    <3>1. ASSUME NEW j \in DOMAIN assumps
          PROVE  \E p \in Seen' : assumps'[j] = Lit(p)'
      <4>1. PICK p \in Seen : assumps[j] = Lit(p)
        BY DEF ScanInv
      <4>2. assumps'[j] = Lit(p)'
        BY <2>1, <2>4, <4>1
      <4> QED BY <1>2, <4>1, <4>2
    <3> QED BY <1>2, <2>4, <3>1
  <2>6. ASSUME NEW p \in Seen'
        PROVE  \E j \in DOMAIN assumps' :
                 {k \in DOMAIN assumps' : assumps'[k] \in {AssumpVar(p), -AssumpVar(p)}}
                   = {j}
    <3>1. CASE p = p0
      <4>1. \A k \in DOMAIN assumps : assumps[k] \notin {AssumpVar(p), -AssumpVar(p)}
        BY <1>6, <3>1 DEF Holders
      <4> QED BY <1>4, <2>4, <3>1, <4>1
    <3>2. CASE p # p0
      <4>1. p \in Seen
        BY <1>2, <3>2
      <4>2. PICK j \in DOMAIN assumps : Holders(AssumpVar(p)) = {j}
        BY <4>1 DEF ScanInv
      <4>3. lit \notin {AssumpVar(p), -AssumpVar(p)}
        BY <1>1, <1>5, <3>2, <4>1
      <4> QED BY <2>4, <4>2, <4>3 DEF Holders
    <3> QED BY <3>1, <3>2
  <2>7. ASSUME NEW p \in Seen'
        PROVE  \E j \in DOMAIN assumps' : Holders(AssumpVar(p))' = {j}
    <3>1. Holders(AssumpVar(p))' =
            {k \in DOMAIN assumps' : assumps'[k] \in {AssumpVar(p), -AssumpVar(p)}}
      BY <1>8
    <3>2. PICK j \in DOMAIN assumps' :
            {k \in DOMAIN assumps' : assumps'[k] \in {AssumpVar(p), -AssumpVar(p)}}
              = {j}
      BY <2>6
    <3> QED BY <3>1, <3>2
  <2> QED BY <2>5, <2>7 DEF ScanInv
<1>7. CASE H # {}
  <2>1. p0 \in Seen
    BY <1>1, <1>7, HoldersOf
  <2>2. assumps' = [j \in DOMAIN assumps |-> IF j \in H THEN lit ELSE assumps[j]]
    BY <1>7 DEF Updated
  <2>3. /\ DOMAIN assumps' = DOMAIN assumps
        /\ \A j \in DOMAIN assumps : assumps'[j] = IF j \in H THEN lit ELSE assumps[j]
    BY <2>2
  <2>4. Seen' = Seen
    BY <1>2, <2>1
  <2>5. ASSUME NEW j \in DOMAIN assumps'
        PROVE  \E p \in Seen' : assumps'[j] = Lit(p)'
    <3>1. CASE j \in H
      BY <2>1, <2>3, <2>4, <3>1
    <3>2. CASE j \notin H
      <4>1. PICK p \in Seen : assumps[j] = Lit(p)
        BY <2>3 DEF ScanInv
      <4>2. p # p0
        BY <2>3, <3>2, <4>1 DEF Holders, Lit
      <4> QED BY <2>3, <2>4, <3>2, <4>1, <4>2
    <3> QED BY <3>1, <3>2
  <2>6. ASSUME NEW p \in Seen'
        PROVE  \E j \in DOMAIN assumps' :
                 {k \in DOMAIN assumps' : assumps'[k] \in {AssumpVar(p), -AssumpVar(p)}}
                   = {j}
    <3>1. PICK j \in DOMAIN assumps : Holders(AssumpVar(p)) = {j}
      BY <2>4 DEF ScanInv
    <3>2. CASE p = p0
      BY <1>4, <2>3, <3>1, <3>2 DEF Holders
    <3>3. CASE p # p0
      <4>1. lit \notin {AssumpVar(p), -AssumpVar(p)}
        BY <1>1, <1>5, <2>4, <3>3
      <4>2. j \notin H
        <5>1. SUFFICES ASSUME j \in H PROVE FALSE
          OBVIOUS
        <5>2. /\ assumps[j] \in {AssumpVar(p0), -AssumpVar(p0)}
              /\ assumps[j] \in {AssumpVar(p), -AssumpVar(p)}
          BY <3>1, <5>1 DEF Holders
        <5>3. p \in DynPairs
          BY <1>1, <2>4
        <5>4. AssumpVar(p) = AssumpVar(p0)
          BY <1>1, <5>2, <5>3
        <5> QED BY <1>1, <3>3, <5>3, <5>4, AssumpVarInjective
      <4> QED BY <2>3, <3>1, <4>1, <4>2 DEF Holders
    <3> QED BY <3>2, <3>3
  <2>7. ASSUME NEW p \in Seen'
        PROVE  \E j \in DOMAIN assumps' : Holders(AssumpVar(p))' = {j}
    <3>1. Holders(AssumpVar(p))' =
            {k \in DOMAIN assumps' : assumps'[k] \in {AssumpVar(p), -AssumpVar(p)}}
      BY <1>8
    <3>2. PICK j \in DOMAIN assumps' :
            {k \in DOMAIN assumps' : assumps'[k] \in {AssumpVar(p), -AssumpVar(p)}}
              = {j}
      BY <2>6
    <3> QED BY <3>1, <3>2
  <2> QED BY <2>5, <2>7 DEF ScanInv
<1> QED BY <1>6, <1>7

\* Every step of the decorator keeps what its scan has established.
LEMMA ScanInvPreserved ==
  ASSUME Base, Base', ScanInv, [Next]_vars
  PROVE  ScanInv'
<1>0. TypeOK /\ TypeOK' /\ Parsed
  BY DEF Base
<1>1. CASE ScanApplied
  <2> DEFINE p0 == Pair(i + 1)
             v == AssumpVar(p0)
             lit == IF dynAttacks[i + 1].add THEN v ELSE -v
  <2>1. /\ pc = "scan" /\ i <= dynStep /\ i' = i + 1
        /\ UNCHANGED problem /\ dynStep' = dynStep
        /\ assumps' = IF Holders(v) = {} THEN Append(assumps, lit)
                      ELSE [j \in DOMAIN assumps |->
                              IF j \in Holders(v) THEN lit ELSE assumps[j]]
    BY <1>1 DEF ScanApplied
  <2>2. i \in Nat /\ i < Len(dynAttacks) /\ dynStep \in Int
    BY <1>0, <2>1 DEF TypeOK
  <2>3. Upto = i /\ Upto' = i + 1
    BY <2>1, <2>2 DEF Upto
  <2>4. \A q : InForce(q, i + 1) <=> IF Pair(i + 1) = q THEN dynAttacks[i + 1].add
                                                        ELSE InForce(q, i)
    BY <1>0, <2>2, InForceStep
  <2>5. \A q : Lit(q)' = IF InForce(q, i + 1) THEN AssumpVar(q) ELSE -AssumpVar(q)
    BY <2>1, <2>3, ProblemFixed DEF Lit
  <2>6. Lit(p0) = IF InForce(p0, i) THEN v ELSE -v
    BY <2>3 DEF Lit
  <2>7. \A q \in Seen : q # p0 => Lit(q)' = Lit(q)
    BY <2>3, <2>4, <2>5 DEF Lit
  <2>8. PICK q0, l0 : q0 = p0 /\ l0 = lit
    OBVIOUS
  <2>9. Lit(q0)' = l0
    BY <2>4, <2>5, <2>8
  <2>10. assumps' = Updated(q0, l0)
    BY <2>1, <2>8 DEF Updated
  <2> HIDE DEF lit, v, p0
  <2>11. q0 = Pair(i + 1) /\ \A q \in Seen : q # q0 => Lit(q)' = Lit(q)
    BY <2>7, <2>8 DEF p0
  <2> QED BY <1>0, <2>1, <2>2, <2>9, <2>10, <2>11, RecordStep
<1>2. CASE ScanPending
  <2> DEFINE p0 == Pair(i + 1)
             v == AssumpVar(p0)
             lit == IF dynAttacks[i + 1].wasPresent THEN v ELSE -v
  <2>1. /\ pc = "scan" /\ i > dynStep /\ i < Len(dynAttacks) /\ i' = i + 1
        /\ UNCHANGED problem /\ dynStep' = dynStep
        /\ assumps' = IF Holders(v) = {} THEN Append(assumps, lit) ELSE assumps
    BY <1>2 DEF ScanPending
  <2>2. i \in Nat /\ dynStep \in Int /\ dynStep + 1 \in Nat /\ dynStep + 1 <= i
    BY <1>0, <2>1 DEF TypeOK
  <2>3. Upto = dynStep + 1 /\ Upto' = dynStep + 1
    BY <2>1, <2>2 DEF Upto
  <2>4. \A q : Lit(q)' = Lit(q)
    BY <2>1, <2>3, ProblemFixed DEF Lit
  <2>5. p0 \in DynPairs
    BY <1>0, <2>1, <2>2, PairsAreAttacks
  <2>6. CASE Holders(v) = {}
    <3>1. p0 \notin Seen
      <4>1. ASSUME p0 \in Seen PROVE Holders(v) # {}
        BY <2>1, <4>1 DEF ScanInv
      <4> QED BY <2>6, <4>1
    <3>2. \A k \in 1..(dynStep + 1) : Pair(k) # p0
      BY <2>2, <3>1 DEF Seen
    <3>3. InForce(p0, dynStep + 1) <=> p0 \in instance
      BY <2>2, <3>2, InForceUnchanged
    <3>4. dynAttacks[i + 1].wasPresent <=> p0 \in instance
      BY <1>0, <2>1, <2>2, PairsAreAttacks DEF Parsed
    <3>5. Lit(p0) = lit
      BY <2>3, <3>3, <3>4 DEF Lit
    <3>6. PICK q0, l0 : q0 = p0 /\ l0 = lit
      OBVIOUS
    <3>7. /\ q0 = Pair(i + 1) /\ Lit(q0)' = l0
          /\ \A q \in Seen : q # q0 => Lit(q)' = Lit(q)
          /\ assumps' = Updated(q0, l0)
      BY <2>1, <2>4, <2>6, <3>5, <3>6 DEF Updated
    <3> HIDE DEF lit, v, p0
    <3> QED BY <1>0, <2>1, <3>7, RecordStep
  <2>7. CASE Holders(v) # {}
    <3>1. p0 \in Seen
      BY <1>0, <2>1, <2>5, <2>7, HoldersOf
    <3>2. assumps' = assumps
      BY <2>1, <2>7
    <3>3. Seen' = Seen
      <4>1. 1..i' = 1..i \cup {i + 1}
        BY <2>1, <2>2
      <4>2. Seen' = Seen \cup {p0}
        BY <2>1, <4>1, ProblemFixed DEF Seen
      <4> QED BY <3>1, <4>2
    <3>4. \A p : AssumpVar(p)' = AssumpVar(p)
      BY <2>1, ProblemFixed
    <3>5. \A p : Holders(AssumpVar(p))' = Holders(AssumpVar(p))
      BY <3>2, <3>4 DEF Holders
    <3> QED BY <2>1, <2>4, <3>2, <3>3, <3>5 DEF ScanInv
  <2> QED BY <2>6, <2>7
<1>3. CASE Call
  BY <1>3 DEF Call, ScanInv
<1>4. CASE NextStep
  <2>1. i' = 0 /\ assumps' = << >>
    BY <1>4 DEF NextStep, Advance
  <2>2. Seen' = {}
    BY <2>1 DEF Seen
  <2> QED BY <2>1, <2>2 DEF ScanInv
<1>5. CASE Finish
  BY <1>5 DEF Finish, ScanInv
<1>6. CASE UNCHANGED vars
  <2>1. UNCHANGED <<problem, dynStep, i, assumps, pc>>
    BY <1>6 DEF vars
  <2>2. /\ Seen' = Seen /\ Upto' = Upto
        /\ \A p : AssumpVar(p)' = AssumpVar(p)
    BY <2>1, ProblemFixed DEF Seen, Upto
  <2>3. \A p : Lit(p)' = Lit(p) /\ Holders(AssumpVar(p))' = Holders(AssumpVar(p))
    BY <2>1, <2>2, ProblemFixed DEF Lit, Holders
  <2> QED BY <2>1, <2>2, <2>3 DEF ScanInv
<1> QED BY <1>1, <1>2, <1>3, <1>4, <1>5, <1>6 DEF Next

\* When dynAssumps returns: one literal per changing attack, of the right sign.
LEMMA ScanResult ==
  ASSUME Base, ScanInv, pc = "scan", i = Len(dynAttacks), NEW p \in DynPairs
  PROVE  /\ \E j \in DOMAIN assumps : Holders(AssumpVar(p)) = {j}
         /\ \A j \in Holders(AssumpVar(p)) :
              assumps[j] = IF InForce(p, dynStep + 1) THEN AssumpVar(p)
                                                      ELSE -AssumpVar(p)
<1>0. TypeOK
  BY DEF Base
<1>1. p \in Seen
  BY <1>0, PairsAreAttacks DEF Seen, DynPairs
<1>2. Upto = dynStep + 1
  BY <1>0, PairsAreAttacks DEF TypeOK, Upto
<1>3. Holders(AssumpVar(p)) = {j \in DOMAIN assumps : assumps[j] = Lit(p)}
  BY <1>0, HoldersOf
<1> QED BY <1>1, <1>2, <1>3 DEF ScanInv, Lit

\* At the end of a scan the assumptions say which attacks are present.
LEMMA ScanInvImpliesExact == Base /\ ScanInv => AssumpsExact
<1> SUFFICES ASSUME Base, ScanInv, pc = "scan", i = Len(dynAttacks),
                    NEW p \in DynPairs
             PROVE  /\ Cardinality(Holders(AssumpVar(p))) = 1
                    /\ \E j \in Holders(AssumpVar(p)) :
                         assumps[j] > 0 <=> InForce(p, dynStep + 1)
  BY DEF AssumpsExact
<1>1. PICK j \in DOMAIN assumps : Holders(AssumpVar(p)) = {j}
  BY ScanResult
<1>2. assumps[j] = IF InForce(p, dynStep + 1) THEN AssumpVar(p) ELSE -AssumpVar(p)
  BY <1>1, ScanResult
<1>3. AssumpVar(p) \in Nat \ {0}
  BY AssumpVarType DEF Base, TypeOK
<1>4. Cardinality(Holders(AssumpVar(p))) = 1
  BY <1>1, FS_Singleton
<1>5. assumps[j] > 0 <=> InForce(p, dynStep + 1)
  BY <1>2, <1>3
<1> QED BY <1>1, <1>4, <1>5

\* Nothing is scanned before the first call.
LEMMA StartScanInv == BeforeFirstCall => ScanInv
BY DEF BeforeFirstCall, ScanInv, Seen

\* The decorator starts before any scan.
LEMMA InitScanInv == Init => ScanInv
BY StartScanInv DEF Init

\* The assumptions of every step are exact, whatever the list of changes.
THEOREM AssumpsCorrect == Spec => []AssumpsExact
<1>1. Spec => []ScanInv
  <2>1. Base /\ Base' /\ ScanInv /\ [Next]_vars => ScanInv'
    BY ScanInvPreserved
  <2> QED BY <2>1, InitScanInv, BaseCorrect, PTL DEF Spec
<1> QED BY <1>1, ScanInvImpliesExact, BaseCorrect, PTL

\* The variables that reserveDynVars hands out never overlap.
THEOREM DynVarsCorrect == Spec => []DynVarsDisjoint
<1>1. Base => DynVarsDisjoint
  BY VarsDisjoint DEF Base
<1> QED BY <1>1, BaseCorrect, PTL

\* The types of DynAssumps alone.
THEOREM TypeCorrect == Spec => []TypeOK
<1>1. Base => TypeOK
  BY DEF Base
<1> QED BY <1>1, BaseCorrect, PTL

----------------------------------------------------------------------------
(* The task implements DynFramework *)

\* The frameworks of two consecutive steps differ by the change between them.
LEMMA FrameworkStep ==
  ASSUME TypeOK, NEW n \in Nat, n < Len(dynAttacks)
  PROVE  Framework(n + 1) =
           Promise!Apply(Framework(n), [add |-> dynAttacks[n + 1].add,
                                        attack |-> Pair(n + 1)])
<1> DEFINE u == [add |-> dynAttacks[n + 1].add, attack |-> Pair(n + 1)]
<1>1. Pair(n + 1) \in Attack /\ dynAttacks[n + 1].add \in BOOLEAN
  BY PairsAreAttacks DEF Change, Attack, Pair, TypeOK
<1>2. \A p \in Attack : InForce(p, n + 1) <=>
        IF Pair(n + 1) = p THEN dynAttacks[n + 1].add ELSE InForce(p, n)
  BY InForceStep
<1>3. CASE dynAttacks[n + 1].add
  BY <1>1, <1>2, <1>3 DEF Framework, Promise!Apply
<1>4. CASE ~dynAttacks[n + 1].add
  BY <1>1, <1>2, <1>4 DEF Framework, Promise!Apply
<1> QED BY <1>3, <1>4

\* At a call, the attacks assumed are those of the present framework.
LEMMA AssumedIsFramework ==
  ASSUME Base, ScanInv, pc = "scan", i = Len(dynAttacks)
  PROVE  Assumed = Framework(dynStep + 1)
<1>0. TypeOK
  BY DEF Base
<1>1. \A p \in DynPairs : p \in Attack
  BY <1>0, PairsAreAttacks
<1>2. dynStep + 1 \in Nat /\ dynStep + 1 <= Len(dynAttacks)
  BY <1>0, LenProperties DEF TypeOK
<1>3. ASSUME NEW p \in DynPairs
      PROVE  InForce(p, dynStep + 1) <=>
               \E j \in DOMAIN assumps : assumps[j] = AssumpVar(p)
  <2>1. PICK j \in DOMAIN assumps : Holders(AssumpVar(p)) = {j}
    BY ScanResult
  <2>2. assumps[j] = IF InForce(p, dynStep + 1) THEN AssumpVar(p)
                                                ELSE -AssumpVar(p)
    BY <2>1, ScanResult
  <2>3. AssumpVar(p) \in Nat \ {0}
    BY <1>0, AssumpVarType DEF TypeOK
  <2>4. \A k \in DOMAIN assumps : assumps[k] = AssumpVar(p) => k = j
    BY <2>1 DEF Holders
  <2> QED BY <2>2, <2>3, <2>4
<1>4. ASSUME NEW p, p \notin DynPairs
      PROVE  InForce(p, dynStep + 1) <=> p \in instance
  <2>1. \A k \in 1..(dynStep + 1) : Pair(k) # p
    BY <1>0, <1>2, <1>4, LenProperties DEF DynPairs, TypeOK
  <2> QED BY <1>2, <2>1, InForceUnchanged
<1>5. instance \subseteq Attack
  BY <1>0 DEF TypeOK
<1> QED BY <1>1, <1>3, <1>4, <1>5 DEF Assumed, Framework

\* The changes still to come, in order.
LEMMA UpdatesProperties ==
  ASSUME TypeOK, NEW n \in Nat, n = dynStep + 1
  PROVE  /\ Updates \in Seq(Promise!Update)
         /\ Len(Updates) = Len(dynAttacks) - n
         /\ n <= Len(dynAttacks)
         /\ \A k \in 1..(Len(dynAttacks) - n) :
              Updates[k] = [add |-> dynAttacks[n + k].add, attack |-> Pair(n + k)]
<1>1. /\ Len(dynAttacks) - n \in Nat /\ Len(dynAttacks) - dynStep - 1 = Len(dynAttacks) - n
      /\ n <= Len(dynAttacks) /\ Len(dynAttacks) \in Nat
  BY LenProperties DEF TypeOK
<1>2. ASSUME NEW k \in 1..(Len(dynAttacks) - n)
      PROVE  [add |-> dynAttacks[n + k].add, attack |-> Pair(n + k)]
               \in Promise!Update
  <2>1. n + k \in 1..Len(dynAttacks)
    BY <1>1
  <2>2. Pair(n + k) \in Attack /\ dynAttacks[n + k].add \in BOOLEAN
    BY <2>1, PairsAreAttacks DEF Change, Attack, Pair, TypeOK
  <2> QED BY <2>2 DEF Promise!Update, Promise!Attack, Attack
<1>3. Updates = [k \in 1..(Len(dynAttacks) - n) |->
                   [add |-> dynAttacks[n + k].add, attack |-> Pair(n + k)]]
  BY <1>1 DEF Updates
<1> QED BY <1>1, <1>2, <1>3

\* The refinement, at the initial states.
LEMMA RefinesInit == Init => Promise!Init
<1> SUFFICES ASSUME Init PROVE Promise!Init
  OBVIOUS
<1>1. TypeOK
  BY InitBase DEF Base
<1>2. pc = "scan" /\ asked = << >> /\ dynStep = -1
  BY DEF Init, ParsedProblem, BeforeFirstCall
<1>3. Framework(dynStep + 1) \in SUBSET Attack
  BY DEF Framework
<1>4. dynStep + 1 = 0
  BY <1>2
<1>5. Updates \in Seq(Promise!Update)
  BY <1>1, <1>4, UpdatesProperties
<1> QED BY <1>2, <1>3, <1>5 DEF Promise!Init, Promise!Attack, Attack

\* The refinement, at each step.
LEMMA RefinesStep ==
  ASSUME Base, Base', ScanInv, [Next]_vars
  PROVE  [Promise!Next]_(Promise!vars)
<1>0. TypeOK /\ TypeOK'
  BY DEF Base
<1>1. ASSUME UNCHANGED <<problem, dynStep>>
      PROVE  Framework(dynStep + 1)' = Framework(dynStep + 1) /\ Updates' = Updates
  BY <1>1 DEF problem, Framework, InForce, Updates, Pair
<1>2. ASSUME UNCHANGED <<problem, dynStep, pc, asked>>
      PROVE  UNCHANGED Promise!vars
  BY <1>1, <1>2 DEF Promise!vars
<1>3. CASE ScanApplied
  BY <1>2, <1>3 DEF ScanApplied
<1>4. CASE ScanPending
  BY <1>2, <1>4 DEF ScanPending
<1>5. CASE Call
  <2>1. Assumed = Framework(dynStep + 1)
    BY <1>5, AssumedIsFramework DEF Call
  <2>2. Framework(dynStep + 1)' = Framework(dynStep + 1) /\ Updates' = Updates
    BY <1>1, <1>5 DEF Call
  <2>3. Promise!Ask
    BY <1>5, <2>1, <2>2 DEF Call, Promise!Ask
  <2> QED BY <2>3 DEF Promise!Next
<1>6. CASE NextStep
  <2>1. /\ pc = "returned" /\ pc' = "scan" /\ asked' = asked
        /\ dynStep' = dynStep + 1 /\ dynStep + 1 < Len(dynAttacks)
        /\ UNCHANGED problem
    BY <1>6 DEF NextStep, Advance
  <2>2. PICK n \in Nat : n = dynStep + 1 /\ n < Len(dynAttacks)
    BY <1>0, <2>1 DEF TypeOK
  <2>3. Framework(dynStep + 1)' = Framework(n + 1)
    BY <2>1, <2>2, ProblemFixed DEF Framework, InForce, problem, Pair
  <2>4. Framework(n + 1) =
          Promise!Apply(Framework(n), [add |-> dynAttacks[n + 1].add,
                                       attack |-> Pair(n + 1)])
    BY <1>0, <2>2, FrameworkStep
  <2>5. /\ Updates # << >> /\ Updates' = Tail(Updates)
        /\ Head(Updates) = [add |-> dynAttacks[n + 1].add, attack |-> Pair(n + 1)]
    <3>1. /\ Updates \in Seq(Promise!Update) /\ Len(Updates) = Len(dynAttacks) - n
          /\ \A k \in 1..(Len(dynAttacks) - n) :
               Updates[k] = [add |-> dynAttacks[n + k].add, attack |-> Pair(n + k)]
          /\ Len(dynAttacks) \in Nat
      BY <1>0, <2>2, UpdatesProperties, LenProperties DEF TypeOK
    <3>2. Updates # << >>
      BY <2>2, <3>1, EmptySeq
    <3>3. /\ Tail(Updates) \in Seq(Promise!Update)
          /\ Len(Tail(Updates)) = Len(dynAttacks) - (n + 1)
          /\ \A k \in 1..Len(Tail(Updates)) : Tail(Updates)[k] = Updates[k + 1]
      BY <2>2, <3>1, <3>2, HeadTailProperties
    <3>4. dynAttacks' = dynAttacks /\ n + 1 = dynStep' + 1 /\ n + 1 \in Nat
      BY <2>1, <2>2 DEF problem
    <3>5. PICK m \in Nat : m = n + 1 /\ Len(dynAttacks) - m \in Nat
      BY <2>2, <3>1
    <3>6. Updates' = Tail(Updates)
      <4>1. Updates' = [k \in 1..(Len(dynAttacks) - m) |->
                          [add |-> dynAttacks[m + k].add, attack |-> Pair(m + k)]]
        <5>1. \A k : Pair(k)' = Pair(k)
          BY <2>1, ProblemFixed
        <5>2. Len(dynAttacks') - dynStep' - 1 = Len(dynAttacks) - m /\ dynStep' + 1 = m
          BY <3>1, <3>4, <3>5, <2>1, <2>2
        <5> QED BY <3>4, <5>1, <5>2 DEF Updates
      <4>2. ASSUME NEW k \in 1..(Len(dynAttacks) - m)
            PROVE  Tail(Updates)[k] = [add |-> dynAttacks[m + k].add,
                                       attack |-> Pair(m + k)]
        <5>1. k + 1 \in 1..(Len(dynAttacks) - n) /\ n + (k + 1) = m + k
          <6>1. \A l, N, M \in Nat : M = N + 1 =>
                  \A j \in 1..(l - M) : j + 1 \in 1..(l - N) /\ N + (j + 1) = M + j
            OBVIOUS
          <6> QED BY <3>1, <3>5, <6>1
        <5>2. k \in 1..Len(Tail(Updates))
          BY <3>3, <3>5
        <5> QED BY <3>1, <3>3, <5>1, <5>2
      <4>3. Tail(Updates) = [k \in 1..(Len(dynAttacks) - m) |-> Tail(Updates)[k]]
        <5>1. DOMAIN Tail(Updates) = 1..(Len(dynAttacks) - m)
          BY <3>3, <3>5, LenProperties
        <5>2. Tail(Updates) \in [1..(Len(dynAttacks) - m) -> Promise!Update]
          BY <3>3, <3>5, LenProperties
        <5> QED BY <5>2
      <4> QED BY <4>1, <4>2, <4>3
    <3>7. Head(Updates) = Updates[1] /\ 1 \in 1..(Len(dynAttacks) - n)
      BY <2>2, <3>1
    <3> QED BY <3>1, <3>2, <3>6, <3>7
  <2>6. Promise!ApplyNext
    BY <2>1, <2>2, <2>3, <2>4, <2>5 DEF Promise!ApplyNext
  <2> QED BY <2>6 DEF Promise!Next
<1>7. CASE Finish
  BY <1>1, <1>7 DEF Finish, Promise!vars
<1>8. CASE UNCHANGED vars
  BY <1>2, <1>8 DEF vars
<1> QED BY <1>3, <1>4, <1>5, <1>6, <1>7, <1>8 DEF Next

\* A run of the task asks its question of the initial framework and of the
\* framework after each change, in order, and of nothing else.
THEOREM TaskImplementsPromise == Spec => Promise!Spec
<1>1. Spec => []ScanInv
  <2>1. Base /\ Base' /\ ScanInv /\ [Next]_vars => ScanInv'
    BY ScanInvPreserved
  <2> QED BY <2>1, InitScanInv, BaseCorrect, PTL DEF Spec
<1>2. Base /\ Base' /\ ScanInv /\ [Next]_vars => [Promise!Next]_(Promise!vars)
  BY RefinesStep
<1> QED BY <1>1, <1>2, RefinesInit, BaseCorrect, PTL DEF Spec, Promise!Spec

----------------------------------------------------------------------------
(* What propagation and satisfiability compute, for any formula over finitely *)
(* many literals: the recursive definitions of Cnf against the assignments    *)
(* that satisfy the formula.                                                   *)

(* Iterations that only grow *)

Growing(D, U, grow) ==
  /\ grow \in [SUBSET D -> SUBSET D]
  /\ \A M \in SUBSET D : M \subseteq grow[M] /\ grow[M] \subseteq M \cup U

Iterates(D, grow, f) ==
  f = [M \in SUBSET D |-> IF grow[M] = M THEN M ELSE f[grow[M]]]

\* A step that changes the set takes something away from what is still open.
LEMMA OpenShrinks ==
  ASSUME NEW D, NEW U, IsFiniteSet(U), NEW grow, Growing(D, U, grow),
         NEW M \in SUBSET D, grow[M] # M
  PROVE  /\ grow[M] \in SUBSET D
         /\ Cardinality(U \ grow[M]) \in Nat /\ Cardinality(U \ M) \in Nat
         /\ Cardinality(U \ grow[M]) < Cardinality(U \ M)
<1>1. grow[M] \in SUBSET D /\ M \subseteq grow[M] /\ grow[M] \subseteq M \cup U
  BY DEF Growing
<1>2. IsFiniteSet(U \ M) /\ IsFiniteSet(U \ grow[M])
  BY FS_Difference
<1>3. U \ grow[M] \in SUBSET (U \ M) /\ U \ grow[M] # U \ M
  BY <1>1
<1>4. Cardinality(U \ grow[M]) <= Cardinality(U \ M)
      /\ Cardinality(U \ grow[M]) # Cardinality(U \ M)
  BY <1>2, <1>3, FS_Subset
<1> QED BY <1>1, <1>2, <1>4, FS_CardinalityType

\* The least number of a non-empty set, by which the inductions go.
LEMMA LeastNumber ==
  ASSUME NEW T \in SUBSET Nat, T # {}
  PROVE  \E m \in T : \A k \in Nat : k < m => k \notin T
<1>1. PICK m \in T : \A k \in T : m <= k
  BY LeastElement
<1> QED BY <1>1

\* The recursive definition has a solution, so that it says what it seems to.
LEMMA IterationExists ==
  ASSUME NEW D, NEW U, IsFiniteSet(U), NEW grow, Growing(D, U, grow)
  PROVE  \E f : Iterates(D, grow, f)
<1> DEFINE open(M) == Cardinality(U \ M)
<1> DEFINE solves(f, M) == f[M] = IF grow[M] = M THEN M ELSE f[grow[M]]
<1> DEFINE upto(n) == \E f : \A M \in SUBSET D : open(M) <= n => solves(f, M)
<1>1. \A M : open(M) \in Nat
  BY FS_Difference, FS_CardinalityType
<1>2. \A M \in SUBSET D : grow[M] # M => open(grow[M]) < open(M) /\ grow[M] \in SUBSET D
  BY OpenShrinks
<1>3. ASSUME NEW n \in Nat, n = 0 \/ upto(n - 1) PROVE upto(n)
  <2> HIDE DEF open
  <2>1. PICK f : n # 0 => \A M \in SUBSET D : open(M) <= n - 1 => solves(f, M)
    BY <1>3
  <2> DEFINE g == [M \in SUBSET D |-> IF n # 0 /\ open(M) <= n - 1 THEN f[M]
                                      ELSE IF grow[M] = M THEN M ELSE f[grow[M]]]
  <2>2. ASSUME NEW M \in SUBSET D, open(M) <= n PROVE solves(g, M)
    <3>1. CASE grow[M] = M
      <4>1. CASE n # 0 /\ open(M) <= n - 1
        <5>1. solves(f, M)
          BY <2>1, <4>1
        <5> QED BY <3>1, <4>1, <5>1
      <4>2. CASE ~(n # 0 /\ open(M) <= n - 1)
        BY <3>1, <4>2
      <4> QED BY <4>1, <4>2
    <3>2. CASE grow[M] # M
      <4>1. open(grow[M]) < open(M) /\ grow[M] \in SUBSET D
        BY <1>2, <3>2
      <4>2. n # 0 /\ open(grow[M]) <= n - 1
        BY <1>1, <2>2, <4>1
      <4>3. g[grow[M]] = f[grow[M]]
        BY <4>1, <4>2
      <4>4. g[M] = f[grow[M]]
        <5>1. CASE open(M) <= n - 1
          <6>1. solves(f, M)
            BY <2>1, <4>2, <5>1
          <6> QED BY <3>2, <4>2, <5>1, <6>1
        <5>2. CASE ~(open(M) <= n - 1)
          BY <3>2, <5>2
        <5> QED BY <5>1, <5>2
      <4> HIDE DEF g
      <4> QED BY <3>2, <4>3, <4>4
    <3> QED BY <3>1, <3>2
  <2> QED BY <2>2
<1> HIDE DEF upto
<1>4. \A n \in Nat : upto(n)
  <2> SUFFICES ASSUME NEW b \in Nat, ~upto(b) PROVE FALSE
    OBVIOUS
  <2> DEFINE bad == {n \in Nat : ~upto(n)}
  <2>1. PICK m \in bad : \A k \in Nat : k < m => k \notin bad
    BY LeastNumber
  <2>2. m = 0 \/ upto(m - 1)
    BY <2>1
  <2> QED BY <1>3, <2>1, <2>2
<1>5. Cardinality(U) \in Nat /\ \A M \in SUBSET D : open(M) <= Cardinality(U)
  <2>1. \A M : U \ M \in SUBSET U
    OBVIOUS
  <2> QED BY <2>1, FS_Subset, FS_CardinalityType
<1>6. PICK f : \A M \in SUBSET D : open(M) <= Cardinality(U) => solves(f, M)
  BY <1>4, <1>5 DEF upto
<1> HIDE DEF open
<1> DEFINE g == [M \in SUBSET D |-> f[M]]
<1>7. \A M \in SUBSET D : grow[M] \in SUBSET D
  BY DEF Growing
<1>8. ASSUME NEW M \in SUBSET D PROVE g[M] = IF grow[M] = M THEN M ELSE g[grow[M]]
  BY <1>5, <1>6, <1>7
<1>9. g = [M \in SUBSET D |-> g[M]]
  OBVIOUS
<1> HIDE DEF g
<1>10. g = [M \in SUBSET D |-> IF grow[M] = M THEN M ELSE g[grow[M]]]
  BY <1>8, <1>9
<1> QED BY <1>10 DEF Iterates

\* The result is a fixed point, and has every property that a
\* step keeps (given as the set of those that have it).
LEMMA IterationResult ==
  ASSUME NEW D, NEW U, IsFiniteSet(U), NEW grow, Growing(D, U, grow),
         NEW f, Iterates(D, grow, f),
         NEW Q \in SUBSET SUBSET D, \A M \in Q : grow[M] \in Q,
         NEW L \in Q
  PROVE  f[L] \in Q /\ grow[f[L]] = f[L]
<1> DEFINE good(M) == f[M] \in Q /\ grow[f[M]] = f[M]
<1> DEFINE open(M) == Cardinality(U \ M)
<1>1. \A M : open(M) \in Nat
  BY FS_Difference, FS_CardinalityType
<1>2. \A M \in Q : f[M] = IF grow[M] = M THEN M ELSE f[grow[M]]
  BY DEF Iterates
<1>3. ASSUME NEW M \in Q, grow[M] = M \/ good(grow[M]) PROVE good(M)
  BY <1>2, <1>3
<1>4. \A M \in Q : grow[M] # M => open(grow[M]) < open(M) /\ grow[M] \in Q
  BY OpenShrinks
<1> HIDE DEF good, open
<1> SUFFICES ASSUME ~good(L) PROVE FALSE
  BY DEF good
<1> DEFINE bad == {n \in Nat : \E M \in Q : open(M) = n /\ ~good(M)}
<1>5. PICK m \in bad : \A k \in Nat : k < m => k \notin bad
  <2>1. open(L) \in bad /\ bad \in SUBSET Nat
    BY <1>1
  <2> HIDE DEF bad
  <2> QED BY <2>1, LeastNumber
<1>6. PICK M \in Q : open(M) = m /\ ~good(M)
  BY <1>5
<1>7. grow[M] # M /\ ~good(grow[M])
  BY <1>3, <1>6
<1>8. grow[M] \in Q /\ open(grow[M]) < m /\ open(grow[M]) \in Nat
  BY <1>1, <1>4, <1>6, <1>7
<1> QED BY <1>5, <1>7, <1>8

----------------------------------------------------------------------------
(* Assignments, as the sets of the variables that they make true *)

Assignments == SUBSET (Nat \ {0})

IsTrue(A, l) == IF l > 0 THEN l \in A ELSE -l \notin A

Satisfies(A, F) == \A c \in F : \E l \in c : IsTrue(A, l)

Agrees(A, L) == \A l \in L : IsTrue(A, l)

\* Formulas: finitely many literals.
Clausal(F) == IsFiniteSet(UNION F) /\ UNION F \subseteq Literal

\* A literal is false when its negation is true.
LEMMA Negation ==
  ASSUME NEW A, NEW l \in Literal
  PROVE  -l \in Literal /\ (IsTrue(A, -l) <=> ~IsTrue(A, l))
BY DEF Literal, IsTrue

\* Membership in a set of negated literals.
LEMMA NegIsLiteral ==
  ASSUME NEW L \in SUBSET Literal
  PROVE  /\ Neg(L) \in SUBSET Literal
         /\ \A l \in Literal : l \in Neg(L) <=> -l \in L
<1>1. Neg(L) \in SUBSET Literal
  BY DEF Neg, Literal
<1>2. ASSUME NEW l \in Literal, l \in Neg(L) PROVE -l \in L
  <2>1. PICK k \in L : l = -k
    BY <1>2 DEF Neg
  <2>2. k \in Int
    BY DEF Literal
  <2> QED BY <2>1, <2>2
<1>3. ASSUME NEW l \in Literal, -l \in L PROVE l \in Neg(L)
  <2>1. l = -(-l)
    BY DEF Literal
  <2> QED BY <1>3, <2>1 DEF Neg
<1> QED BY <1>1, <1>2, <1>3

\* A literal and its negation are not both true.
LEMMA AgreesConsistent ==
  ASSUME NEW A, NEW L \in SUBSET Literal, Agrees(A, L)
  PROVE  /\ L \cap Neg(L) = {}
         /\ \A l \in Neg(L) : ~IsTrue(A, l)
<1>1. ASSUME NEW l \in Neg(L) PROVE ~IsTrue(A, l)
  <2>1. l \in Literal /\ -l \in L
    BY NegIsLiteral
  <2> QED BY <2>1, Negation DEF Agrees
<1> QED BY <1>1 DEF Agrees

\* What remains of a clause holds its true literal.
LEMMA SimplifySound ==
  ASSUME NEW F, Clausal(F), NEW M \in SUBSET Literal, NEW A,
         Satisfies(A, F), Agrees(A, M)
  PROVE  Satisfies(A, Simplify(F, M))
<1> SUFFICES ASSUME NEW c \in Simplify(F, M) PROVE \E l \in c : IsTrue(A, l)
  BY DEF Satisfies
<1>1. PICK d \in F : c = d \ Neg(M)
  BY DEF Simplify
<1>2. PICK l \in d : IsTrue(A, l)
  BY DEF Satisfies
<1> QED BY <1>1, <1>2, AgreesConsistent

\* What is left of a formula mentions no variable that is fixed.
LEMMA SimplifyLiterals ==
  ASSUME NEW F, NEW M \in SUBSET Literal, Clausal(F), NEW l \in UNION Simplify(F, M)
  PROVE  l \in UNION F /\ l \in Literal /\ l \notin M /\ -l \notin M
<1>1. PICK d \in F : d \cap M = {} /\ l \in d \ Neg(M)
  BY DEF Simplify
<1>2. l \in Literal
  BY <1>1 DEF Clausal
<1> QED BY <1>1, <1>2, NegIsLiteral

----------------------------------------------------------------------------
(* Propagation *)

\* The unit clauses that are left are new, and true in every model that agrees with
\* what is fixed.
LEMMA UnitsSound ==
  ASSUME NEW F, Clausal(F), NEW M \in SUBSET Literal
  PROVE  /\ Units(Simplify(F, M)) \subseteq UNION F
         /\ Units(Simplify(F, M)) \cap M = {}
         /\ \A A : Satisfies(A, F) /\ Agrees(A, M) => Agrees(A, Units(Simplify(F, M)))
<1> DEFINE G == Simplify(F, M)
<1>1. Units(G) \subseteq UNION G
  BY DEF Units
<1>2. ASSUME NEW A, Satisfies(A, F), Agrees(A, M), NEW l \in Units(G) PROVE IsTrue(A, l)
  <2>1. PICK c \in G : Cardinality(c) = 1 /\ l \in c
    BY DEF Units
  <2>2. c \in SUBSET UNION F
    BY SimplifyLiterals
  <2>3. IsFiniteSet(c)
    BY <2>2, FS_Subset DEF Clausal
  <2>4. c = {l}
    BY <2>1, <2>3, FS_Singleton
  <2> QED BY <1>2, <2>4, SimplifySound DEF Satisfies
<1>3. \A l \in Units(G) : l \in UNION F /\ l \notin M
  BY <1>1, SimplifyLiterals
<1> QED BY <1>2, <1>3 DEF Agrees

PropagateStep(F) == [M \in SUBSET Literal |-> M \cup Units(Simplify(F, M))]

\* One round of propagation adds literals of the formula, until no unit clause is left.
LEMMA PropagateStepGrows ==
  ASSUME NEW F, Clausal(F)
  PROVE  /\ Growing(Literal, UNION F, PropagateStep(F))
         /\ \A M \in SUBSET Literal : PropagateStep(F)[M] = M <=> Units(Simplify(F, M)) = {}
<1>1. ASSUME NEW M \in SUBSET Literal
      PROVE  /\ PropagateStep(F)[M] = M \cup Units(Simplify(F, M))
             /\ PropagateStep(F)[M] \in SUBSET Literal
             /\ PropagateStep(F)[M] \subseteq M \cup UNION F
             /\ PropagateStep(F)[M] = M <=> Units(Simplify(F, M)) = {}
  <2>1. /\ Units(Simplify(F, M)) \subseteq UNION F
        /\ Units(Simplify(F, M)) \cap M = {}
    BY UnitsSound
  <2> QED BY <2>1 DEF PropagateStep, Clausal
<1> QED BY <1>1 DEF Growing, PropagateStep

\* Propagate is the iteration of that round.
LEMMA PropagateIterates ==
  ASSUME NEW F, Clausal(F)
  PROVE  \E f : /\ Iterates(Literal, PropagateStep(F), f)
                /\ \A L : Propagate(F, L) = f[L]
<1> DEFINE step(f) == [M \in SUBSET Literal |->
                         LET G == Simplify(F, M)
                         IN  IF Units(G) = {} THEN M ELSE f[M \cup Units(G)]]
<1>1. ASSUME NEW f
      PROVE  step(f) = [M \in SUBSET Literal |->
                          IF PropagateStep(F)[M] = M THEN M ELSE f[PropagateStep(F)[M]]]
  <2>1. ASSUME NEW M \in SUBSET Literal
        PROVE  PropagateStep(F)[M] = M \cup Units(Simplify(F, M))
    BY DEF PropagateStep
  <2>2. ASSUME NEW M \in SUBSET Literal
        PROVE  (IF Units(Simplify(F, M)) = {} THEN M ELSE f[M \cup Units(Simplify(F, M))])
                 = IF PropagateStep(F)[M] = M THEN M ELSE f[PropagateStep(F)[M]]
    BY <2>1, PropagateStepGrows
  <2> QED BY <2>2
<1>2. \A f : f = step(f) <=> Iterates(Literal, PropagateStep(F), f)
  BY <1>1 DEF Iterates
<1>3. \E f : Iterates(Literal, PropagateStep(F), f)
  BY PropagateStepGrows, IterationExists DEF Clausal
<1> DEFINE reach == CHOOSE f : f = step(f)
<1>4. reach = step(reach)
  <2> HIDE DEF step
  <2> QED BY <1>2, <1>3
<1>5. \A L : Propagate(F, L) = reach[L]
  BY DEF Propagate
<1> HIDE DEF reach, step
<1> QED BY <1>2, <1>4, <1>5

\* What propagation reaches: literals that every assignment of the formula
\* shares, and no clause has one literal left.
LEMMA PropagateExact ==
  ASSUME NEW F, Clausal(F), NEW L \in SUBSET Literal
  PROVE  /\ Propagate(F, L) \in SUBSET Literal
         /\ L \subseteq Propagate(F, L)
         /\ Units(Simplify(F, Propagate(F, L))) = {}
         /\ \A A : Satisfies(A, F) /\ Agrees(A, L) => Agrees(A, Propagate(F, L))
<1> DEFINE step == PropagateStep(F)
<1>1. PICK f : Iterates(Literal, step, f) /\ \A K : Propagate(F, K) = f[K]
  BY PropagateIterates
<1>2. Growing(Literal, UNION F, step) /\ IsFiniteSet(UNION F)
  BY PropagateStepGrows DEF Clausal
<1> HIDE DEF step
<1>3. f[L] \in SUBSET Literal /\ L \subseteq f[L] /\ step[f[L]] = f[L]
  <2> DEFINE Q == {M \in SUBSET Literal : L \subseteq M}
  <2>1. \A M \in Q : step[M] \in Q
    BY <1>2 DEF Growing
  <2>2. Q \in SUBSET SUBSET Literal /\ L \in Q
    OBVIOUS
  <2> HIDE DEF Q
  <2>3. f[L] \in Q /\ step[f[L]] = f[L]
    BY <1>1, <1>2, <2>1, <2>2, IterationResult
  <2> QED BY <2>3 DEF Q
<1>4. ASSUME NEW A, Satisfies(A, F), Agrees(A, L) PROVE Agrees(A, f[L])
  <2> DEFINE Q == {M \in SUBSET Literal : Agrees(A, M)}
  <2>1. ASSUME NEW M \in Q PROVE step[M] \in Q
    <3>1. step[M] = M \cup Units(Simplify(F, M)) /\ step[M] \in SUBSET Literal
      BY <1>2 DEF step, PropagateStep, Growing
    <3>2. Agrees(A, Units(Simplify(F, M)))
      BY <1>4, UnitsSound
    <3> QED BY <3>1, <3>2 DEF Agrees
  <2>2. Q \in SUBSET SUBSET Literal /\ L \in Q
    BY <1>4
  <2> HIDE DEF Q
  <2>3. f[L] \in Q
    BY <1>1, <1>2, <2>1, <2>2, IterationResult, ZenonT(30)
  <2> QED BY <2>3 DEF Q
<1>5. Units(Simplify(F, f[L])) = {}
  BY <1>3, PropagateStepGrows DEF step
<1> QED BY <1>1, <1>3, <1>4, <1>5

----------------------------------------------------------------------------
(* Satisfiability *)

HasModel(F, L) == \E A \in Assignments : Satisfies(A, F) /\ Agrees(A, L)

\* Without a conflict and with no clause left, the literals reached are a model.
LEMMA ReachedIsModel ==
  ASSUME NEW F, Clausal(F), NEW P \in SUBSET Literal,
         ~Conflict(F, P), Simplify(F, P) = {}
  PROVE  HasModel(F, P)
<1> DEFINE A == {l \in P : l > 0}
<1>1. A \in Assignments
  <2>1. \A l \in A : l \in Nat \ {0}
    BY DEF Literal
  <2> QED BY <2>1 DEF Assignments
<1>2. Agrees(A, P)
  <2> SUFFICES ASSUME NEW l \in P PROVE IsTrue(A, l)
    BY DEF Agrees
  <2>1. l \in Literal /\ l \notin Neg(P)
    BY DEF Conflict
  <2>2. -l \notin P
    BY <2>1, NegIsLiteral
  <2> QED BY <2>1, <2>2 DEF IsTrue, Literal
<1>3. \A c \in F : c \cap P # {}
  BY DEF Simplify
<1>4. Satisfies(A, F)
  BY <1>2, <1>3 DEF Satisfies, Agrees
<1> QED BY <1>1, <1>2, <1>4 DEF HasModel

\* What has a model is not in conflict.
LEMMA ModelHasNoConflict ==
  ASSUME NEW F, Clausal(F), NEW P \in SUBSET Literal, HasModel(F, P)
  PROVE  ~Conflict(F, P)
<1>1. PICK A \in Assignments : Satisfies(A, F) /\ Agrees(A, P)
  BY DEF HasModel
<1>2. P \cap Neg(P) = {}
  BY <1>1, AgreesConsistent
<1>3. Satisfies(A, Simplify(F, P))
  BY <1>1, SimplifySound
<1> QED BY <1>2, <1>3 DEF Conflict, Satisfies

\* The literal that Satisfiable splits on.
SplitOn(F, P) == CHOOSE l \in UNION Simplify(F, P) : TRUE

\* The literal that Satisfiable splits on is one of the formula that is still open.
LEMMA SplitIsOpen ==
  ASSUME NEW F, Clausal(F), NEW P \in SUBSET Literal,
         ~Conflict(F, P), Simplify(F, P) # {}
  PROVE  /\ SplitOn(F, P) \in UNION F /\ SplitOn(F, P) \in Literal
         /\ SplitOn(F, P) \notin P /\ -SplitOn(F, P) \notin P
<1>1. UNION Simplify(F, P) # {}
  BY DEF Conflict
<1>2. SplitOn(F, P) \in UNION Simplify(F, P)
  BY <1>1 DEF SplitOn
<1> QED BY <1>2, SimplifyLiterals

\* Every assignment takes one side of the split.
LEMMA SplitExact ==
  ASSUME NEW F, Clausal(F), NEW M \in SUBSET Literal
  PROVE  LET P == Propagate(F, M)
             l == SplitOn(F, P)
         IN  HasModel(F, M) <=>
               /\ ~Conflict(F, P)
               /\ \/ Simplify(F, P) = {}
                  \/ HasModel(F, P \cup {l})
                  \/ HasModel(F, P \cup {-l})
<1> DEFINE P == Propagate(F, M)
<1> DEFINE l == SplitOn(F, P)
<1>1. /\ P \in SUBSET Literal /\ M \subseteq P
      /\ \A A : Satisfies(A, F) /\ Agrees(A, M) => Agrees(A, P)
  BY PropagateExact
<1> HIDE DEF P
<1>2. HasModel(F, M) => HasModel(F, P)
  BY <1>1 DEF HasModel
<1>3. \A K : HasModel(F, K) /\ M \subseteq K => HasModel(F, M)
  BY DEF HasModel, Agrees
<1>4. HasModel(F, M) => ~Conflict(F, P)
  BY <1>1, <1>2, ModelHasNoConflict
<1>5. ~Conflict(F, P) /\ Simplify(F, P) = {} => HasModel(F, P)
  BY <1>1, ReachedIsModel
<1>6. ASSUME ~Conflict(F, P), Simplify(F, P) # {}, HasModel(F, P)
      PROVE  HasModel(F, P \cup {l}) \/ HasModel(F, P \cup {-l})
  <2>1. PICK A \in Assignments : Satisfies(A, F) /\ Agrees(A, P)
    BY <1>6 DEF HasModel
  <2>2. l \in Literal
    BY <1>1, <1>6, SplitIsOpen
  <2>3. IsTrue(A, l) \/ IsTrue(A, -l)
    BY <2>2, Negation
  <2> HIDE DEF l
  <2> QED BY <2>1, <2>3 DEF HasModel, Agrees
<1>7. M \subseteq P \cup {l} /\ M \subseteq P \cup {-l}
  BY <1>1
<1> HIDE DEF l
<1>8. HasModel(F, M) <=>
               /\ ~Conflict(F, P)
               /\ \/ Simplify(F, P) = {}
                  \/ HasModel(F, P \cup {l})
                  \/ HasModel(F, P \cup {-l})
  BY <1>1, <1>2, <1>3, <1>4, <1>5, <1>6, <1>7
<1> QED BY <1>8 DEF P, l

\* A round of Satisfiable.
SplitStep(F, sat) ==
  [M \in SUBSET Literal |->
     LET P == Propagate(F, M)
         G == Simplify(F, P)
         l == CHOOSE l \in UNION G : TRUE
     IN  /\ ~Conflict(F, P)
         /\ \/ G = {}
            \/ sat[P \cup {l}]
            \/ sat[P \cup {-l}]]

\* A formula has finitely many literals and negated literals.
LEMMA LiteralsFinite ==
  ASSUME NEW F, Clausal(F)
  PROVE  IsFiniteSet((UNION F) \cup Neg(UNION F))
<1>1. IsFiniteSet(UNION F)
  BY DEF Clausal
<1>2. IsFiniteSet(Neg(UNION F))
  <2> DEFINE f == [k \in UNION F |-> -k]
  <2>1. f \in Surjection(UNION F, Neg(UNION F))
    BY DEF Surjection, Neg
  <2> QED BY <1>1, <2>1, FS_Surjection
<1> QED BY <1>1, <1>2, FS_Union

\* The literals without a value decrease.
LEMMA SplitShrinks ==
  ASSUME NEW F, Clausal(F), NEW M \in SUBSET Literal, NEW l \in Literal,
         NEW P \in SUBSET Literal, M \subseteq P, l \in UNION F \/ -l \in UNION F, l \notin P
  PROVE  LET open(K) == Cardinality(((UNION F) \cup Neg(UNION F)) \ K)
         IN  open(P \cup {l}) < open(M) /\ open(P \cup {l}) \in Nat /\ open(M) \in Nat
<1> DEFINE U == (UNION F) \cup Neg(UNION F)
<1>1. IsFiniteSet(U)
  BY LiteralsFinite
<1>2. l \in U
  <2>1. UNION F \in SUBSET Literal
    BY DEF Clausal
  <2>2. l \in Neg(UNION F) <=> -l \in UNION F
    BY <2>1, NegIsLiteral
  <2> QED BY <2>2
<1> HIDE DEF U
<1>3. U \ (P \cup {l}) \in SUBSET (U \ M) /\ U \ (P \cup {l}) # U \ M
  BY <1>2
<1>4. IsFiniteSet(U \ M) /\ IsFiniteSet(U \ (P \cup {l}))
  BY <1>1, FS_Difference
<1>5. /\ Cardinality(U \ (P \cup {l})) <= Cardinality(U \ M)
      /\ Cardinality(U \ (P \cup {l})) # Cardinality(U \ M)
  BY <1>3, <1>4, FS_Subset
<1>6. /\ Cardinality(U \ (P \cup {l})) < Cardinality(U \ M)
      /\ Cardinality(U \ (P \cup {l})) \in Nat /\ Cardinality(U \ M) \in Nat
  BY <1>4, <1>5, FS_CardinalityType
<1> QED BY <1>6 DEF U

\* Whatever solves the recursive equation says whether there is a model.
LEMMA SplitSolution ==
  ASSUME NEW F, Clausal(F), NEW sat, sat = SplitStep(F, sat),
         NEW L \in SUBSET Literal
  PROVE  sat[L] <=> HasModel(F, L)
<1> DEFINE open(M) == Cardinality(((UNION F) \cup Neg(UNION F)) \ M)
<1> DEFINE good(M) == sat[M] <=> HasModel(F, M)
<1>1. ASSUME NEW M \in SUBSET Literal,
             \A K \in SUBSET Literal : open(K) \in Nat /\ open(K) < open(M) => good(K)
      PROVE  good(M)
  <2> DEFINE P == Propagate(F, M)
  <2> DEFINE G == Simplify(F, P)
  <2> DEFINE l == SplitOn(F, P)
  <2>1. P \in SUBSET Literal /\ M \subseteq P
    BY PropagateExact
  <2>2. sat[M] <=> /\ ~Conflict(F, P)
                   /\ G = {} \/ sat[P \cup {l}] \/ sat[P \cup {-l}]
    <3>1. sat[M] = SplitStep(F, sat)[M]
      OBVIOUS
    <3> QED BY <3>1 DEF SplitStep, SplitOn
  <2>3. HasModel(F, M) <=>
               /\ ~Conflict(F, P)
               /\ G = {} \/ HasModel(F, P \cup {l}) \/ HasModel(F, P \cup {-l})
    BY SplitExact
  <2> HIDE DEF P, G, open
  <2>4. ASSUME ~Conflict(F, P), G # {}
        PROVE  good(P \cup {l}) /\ good(P \cup {-l})
    <3>1. /\ l \in UNION F /\ l \in Literal
          /\ l \notin P /\ -l \notin P
      BY <2>1, <2>4, SplitIsOpen DEF G
    <3> HIDE DEF l
    <3>2. -l \in Literal /\ -(-l) = l
      BY <3>1 DEF Literal
    <3>3. open(P \cup {l}) < open(M) /\ open(P \cup {l}) \in Nat
      BY <2>1, <3>1, SplitShrinks DEF open
    <3>4. open(P \cup {-l}) < open(M) /\ open(P \cup {-l}) \in Nat
      BY <2>1, <3>1, <3>2, SplitShrinks DEF open
    <3>5. P \cup {l} \in SUBSET Literal /\ P \cup {-l} \in SUBSET Literal
      BY <2>1, <3>1, <3>2
    <3> HIDE DEF good
    <3> QED BY <1>1, <3>3, <3>4, <3>5
  <2> HIDE DEF l
  <2> QED BY <2>2, <2>3, <2>4
<1>2. \A M : open(M) \in Nat
  <2>1. IsFiniteSet((UNION F) \cup Neg(UNION F))
    BY LiteralsFinite
  <2> QED BY <2>1, FS_Difference, FS_CardinalityType
<1> HIDE DEF open, good
<1> SUFFICES ASSUME ~good(L) PROVE FALSE
  BY DEF good
<1> DEFINE bad == {n \in Nat : \E M \in SUBSET Literal : open(M) = n /\ ~good(M)}
<1>3. PICK m \in bad : \A k \in Nat : k < m => k \notin bad
  <2>1. open(L) \in bad /\ bad \in SUBSET Nat
    BY <1>2
  <2> HIDE DEF bad
  <2> QED BY <2>1, LeastNumber
<1>4. PICK M \in SUBSET Literal : open(M) = m /\ ~good(M)
  BY <1>3
<1>5. \A K \in SUBSET Literal : open(K) \in Nat /\ open(K) < m => good(K)
  BY <1>3
<1> QED BY <1>1, <1>4, <1>5

\* The definition by splitting says what its name says.
THEOREM SatisfiableExact ==
  ASSUME NEW F, Clausal(F), NEW L \in SUBSET Literal
  PROVE  Satisfiable(F, L) <=> HasModel(F, L)
<1> DEFINE truth == [M \in SUBSET Literal |-> HasModel(F, M)]
<1>1. truth = SplitStep(F, truth)
  <2>1. ASSUME NEW M \in SUBSET Literal
        PROVE  LET P == Propagate(F, M)
                   G == Simplify(F, P)
                   l == CHOOSE l \in UNION G : TRUE
               IN  HasModel(F, M) = (/\ ~Conflict(F, P)
                                     /\ \/ G = {}
                                        \/ truth[P \cup {l}]
                                        \/ truth[P \cup {-l}])
    <3> DEFINE P == Propagate(F, M)
    <3> DEFINE G == Simplify(F, P)
    <3> DEFINE l == SplitOn(F, P)
    <3>1. P \in SUBSET Literal
      BY PropagateExact
    <3>2. HasModel(F, M) <=>
               /\ ~Conflict(F, P)
               /\ G = {} \/ HasModel(F, P \cup {l}) \/ HasModel(F, P \cup {-l})
      BY SplitExact
    <3>3. l = CHOOSE k \in UNION G : TRUE
      BY DEF SplitOn
    <3> HIDE DEF P, G, l
    <3>4. ASSUME ~Conflict(F, P), G # {}
          PROVE  /\ P \cup {l} \in SUBSET Literal
                 /\ P \cup {-l} \in SUBSET Literal
      <4>1. l \in Literal
        BY <3>1, <3>4, SplitIsOpen DEF G, l
      <4> QED BY <3>1, <4>1 DEF Literal
    <3>5. ASSUME ~Conflict(F, P), G # {}
          PROVE  /\ truth[P \cup {l}] = HasModel(F, P \cup {l})
                 /\ truth[P \cup {-l}] = HasModel(F, P \cup {-l})
      BY <3>4, <3>5
    <3>6. HasModel(F, M) = (/\ ~Conflict(F, P)
                            /\ G = {} \/ truth[P \cup {l}] \/ truth[P \cup {-l}])
      <4> HIDE DEF truth
      <4>1. /\ HasModel(F, M) \in BOOLEAN /\ HasModel(F, P \cup {l}) \in BOOLEAN
            /\ HasModel(F, P \cup {-l}) \in BOOLEAN
        BY DEF HasModel
      <4>2. CASE Conflict(F, P)
        BY <3>2, <4>1, <4>2
      <4>3. CASE G = {}
        BY <3>2, <4>1, <4>3
      <4>4. CASE ~Conflict(F, P) /\ G # {}
        BY <3>2, <3>5, <4>1, <4>4
      <4> QED BY <4>2, <4>3, <4>4
    <3> HIDE DEF truth
    <3> QED BY <3>3, <3>6 DEF P, G
  <2> QED BY <2>1 DEF SplitStep
<1> HIDE DEF truth
<1>2. PICK sat : sat = SplitStep(F, sat) /\ Satisfiable(F, L) = sat[L]
  <2> DEFINE chosen == CHOOSE s : s = SplitStep(F, s)
  <2>1. chosen = SplitStep(F, chosen)
    BY <1>1
  <2>2. Satisfiable(F, L) = chosen[L]
    BY DEF Satisfiable, SplitStep
  <2> QED BY <2>1, <2>2
<1> QED BY <1>2, SplitSolution

\* The models over the first n variables are the assignments of the formula, cut
\* down to those variables.
THEOREM ModelsExact ==
  ASSUME NEW F, Clausal(F), NEW L \in SUBSET Literal, NEW n \in Nat
  PROVE  Models(F, L, n) =
           {A \cap (1..n) : A \in {B \in Assignments : Satisfies(B, F) /\ Agrees(B, L)}}
<1>1. ASSUME NEW T \in SUBSET (1..n)
      PROVE  /\ L \cup T \cup Neg((1..n) \ T) \in SUBSET Literal
             /\ \A A \in Assignments :
                  Agrees(A, T \cup Neg((1..n) \ T)) <=> A \cap (1..n) = T
  <2>1. (1..n) \in SUBSET Literal /\ \A v \in 1..n : v > 0 /\ -(-v) = v /\ ~(-v > 0)
    BY DEF Literal
  <2>2. T \in SUBSET Literal /\ (1..n) \ T \in SUBSET Literal
    BY <2>1
  <2>3. Neg((1..n) \ T) \in SUBSET Literal
    BY <2>2, NegIsLiteral
  <2>4. ASSUME NEW A \in Assignments
        PROVE  /\ Agrees(A, T) <=> T \subseteq A
               /\ Agrees(A, Neg((1..n) \ T)) <=> A \cap ((1..n) \ T) = {}
    BY <2>1 DEF Agrees, IsTrue, Neg
  <2>5. ASSUME NEW A \in Assignments
        PROVE  Agrees(A, T \cup Neg((1..n) \ T)) <=>
                 T \subseteq A /\ A \cap ((1..n) \ T) = {}
    <3>1. Agrees(A, T \cup Neg((1..n) \ T)) <=> Agrees(A, T) /\ Agrees(A, Neg((1..n) \ T))
      BY DEF Agrees
    <3> QED BY <2>4, <3>1
  <2>6. \A A : T \subseteq A /\ A \cap ((1..n) \ T) = {} <=> A \cap (1..n) = T
    OBVIOUS
  <2> QED BY <2>2, <2>3, <2>5, <2>6
<1>2. ASSUME NEW T \in SUBSET (1..n)
      PROVE  Satisfiable(F, L \cup T \cup Neg((1..n) \ T)) <=>
               \E A \in Assignments : /\ Satisfies(A, F) /\ Agrees(A, L)
                                      /\ A \cap (1..n) = T
  <2>1. \A A : Agrees(A, L \cup T \cup Neg((1..n) \ T)) <=>
                 Agrees(A, L) /\ Agrees(A, T \cup Neg((1..n) \ T))
    BY DEF Agrees
  <2> DEFINE K == L \cup T \cup Neg((1..n) \ T)
  <2>2. K \in SUBSET Literal
    BY <1>1
  <2>3. \A A \in Assignments : Agrees(A, K) <=> Agrees(A, L) /\ A \cap (1..n) = T
    BY <1>1, <2>1
  <2> HIDE DEF K
  <2>4. Satisfiable(F, K) <=> \E A \in Assignments : Satisfies(A, F) /\ Agrees(A, K)
    BY <2>2, SatisfiableExact DEF HasModel
  <2>5. Satisfiable(F, K) <=>
          \E A \in Assignments : Satisfies(A, F) /\ Agrees(A, L) /\ A \cap (1..n) = T
    BY <2>3, <2>4
  <2> QED BY <2>5 DEF K
<1> QED BY <1>2 DEF Models

----------------------------------------------------------------------------
(* The models that the external engine prints: the value of every variable *)

\* The assignments of a formula, cut down to the first n variables.
CutModels(F, L, n) ==
  {A \cap (1..n) : A \in {B \in Assignments : Satisfies(B, F) /\ Agrees(B, L)}}

\* A formula over the first n variables.
Within(F, n) == \A l \in UNION F : l <= n /\ -l <= n

Unset(P, n) == {v \in 1..n : v \notin P /\ -v \notin P}

Branch(P, n) == CHOOSE v \in Unset(P, n) : TRUE

\* A round of FullModels.
FullStep(F, n, full) ==
  [M \in SUBSET Literal |->
     LET P    == Propagate(F, M)
         open == {v \in 1..n : v \notin P /\ -v \notin P}
         v    == CHOOSE v \in open : TRUE
     IN  IF Conflict(F, P) THEN {}
         ELSE IF open = {} THEN {P \cap (1..n)}
              ELSE full[M \cup {v}] \cup full[M \cup {-v}]]

\* When every variable has a value and nothing is in conflict, there is one model.
LEMMA NothingUnset ==
  ASSUME NEW F, Clausal(F), NEW n \in Nat, Within(F, n), NEW P \in SUBSET Literal,
         ~Conflict(F, P), Unset(P, n) = {}
  PROVE  CutModels(F, P, n) = {P \cap (1..n)}
<1> DEFINE A == {l \in P : l > 0}
<1>1. A \in Assignments
  <2>1. \A l \in A : l \in Nat \ {0}
    BY DEF Literal
  <2> QED BY <2>1 DEF Assignments
<1>2. \A l \in P : l \in Literal /\ -l \notin P
  BY NegIsLiteral DEF Conflict
<1>3. Agrees(A, P)
  BY <1>2 DEF Agrees, IsTrue, Literal
<1>4. ASSUME NEW c \in F PROVE c \cap P # {}
  <2>1. c \cap P = {} => c \ Neg(P) # {}
    BY DEF Conflict, Simplify
  <2>2. ASSUME NEW l \in c \ Neg(P) PROVE l \in P
    <3>1. l \in Literal /\ l <= n /\ -l <= n
      BY DEF Clausal, Within
    <3>2. -l \notin P
      BY <3>1, NegIsLiteral
    <3>3. l \in Int /\ l # 0 /\ (l \in 1..n \/ -l \in 1..n)
      BY <3>1 DEF Literal
    <3>4. -(-l) = l
      BY <3>3
    <3> QED BY <3>2, <3>3, <3>4 DEF Unset
  <2> QED BY <2>1, <2>2
<1>5. Satisfies(A, F)
  BY <1>3, <1>4 DEF Satisfies, Agrees
<1>6. ASSUME NEW B \in Assignments, Agrees(B, P) PROVE B \cap (1..n) = P \cap (1..n)
  <2>1. ASSUME NEW v \in 1..n PROVE v \in B <=> v \in P
    <3>1. v \in Int /\ v > 0 /\ -(-v) = v /\ ~(-v > 0)
      OBVIOUS
    <3>2. v \in P \/ -v \in P
      BY DEF Unset
    <3> QED BY <1>6, <3>1, <3>2 DEF Agrees, IsTrue
  <2> QED BY <2>1
<1> QED BY <1>1, <1>3, <1>5, <1>6 DEF CutModels

\* Every model goes to one side of the variable that FullModels splits on.
LEMMA BranchExact ==
  ASSUME NEW F, Clausal(F), NEW M \in SUBSET Literal, NEW n \in Nat, Within(F, n)
  PROVE  LET P == Propagate(F, M)
             v == Branch(P, n)
         IN  CutModels(F, M, n) =
               IF Conflict(F, P) THEN {}
               ELSE IF Unset(P, n) = {} THEN {P \cap (1..n)}
               ELSE CutModels(F, M \cup {v}, n) \cup CutModels(F, M \cup {-v}, n)
<1> DEFINE P == Propagate(F, M)
<1> DEFINE v == Branch(P, n)
<1>1. /\ P \in SUBSET Literal /\ M \subseteq P
      /\ \A A : Satisfies(A, F) /\ Agrees(A, M) => Agrees(A, P)
  BY PropagateExact
<1> HIDE DEF P
<1>2. \A A : Satisfies(A, F) => (Agrees(A, M) <=> Agrees(A, P))
  BY <1>1 DEF Agrees
<1>3. CutModels(F, M, n) = CutModels(F, P, n)
  BY <1>2 DEF CutModels
<1>4. CASE Conflict(F, P)
  <2>1. ~HasModel(F, P)
    BY <1>1, <1>4, ModelHasNoConflict
  <2>2. CutModels(F, P, n) = {}
    BY <2>1 DEF HasModel, CutModels
  <2> QED BY <1>3, <1>4, <2>2 DEF P
<1>5. CASE ~Conflict(F, P) /\ Unset(P, n) = {}
  <2>1. CutModels(F, P, n) = {P \cap (1..n)}
    BY <1>1, <1>5, NothingUnset
  <2> QED BY <1>3, <1>5, <2>1 DEF P
<1>6. CASE ~Conflict(F, P) /\ Unset(P, n) # {}
  <2>1. v \in 1..n
    BY <1>6 DEF Branch, Unset
  <2> HIDE DEF v
  <2>2. v \in Literal
    BY <2>1 DEF Literal
  <2>3. \A A : IsTrue(A, -v) <=> ~IsTrue(A, v)
    BY <2>2, Negation
  <2>4. \A A : Agrees(A, M) <=> Agrees(A, M \cup {v}) \/ Agrees(A, M \cup {-v})
    BY <2>3 DEF Agrees
  <2>5. CutModels(F, M, n) = CutModels(F, M \cup {v}, n) \cup CutModels(F, M \cup {-v}, n)
    BY <2>4 DEF CutModels
  <2> QED BY <1>6, <2>5 DEF P, v
<1> QED BY <1>4, <1>5, <1>6

\* The variables without a value decrease.
LEMMA BranchShrinks ==
  ASSUME NEW F, Clausal(F), NEW M \in SUBSET Literal, NEW n \in Nat,
         Unset(Propagate(F, M), n) # {}
  PROVE  LET v == Branch(Propagate(F, M), n)
             open(K) == Cardinality(Unset(K, n))
         IN  /\ M \cup {v} \in SUBSET Literal /\ M \cup {-v} \in SUBSET Literal
             /\ open(M \cup {v}) < open(M) /\ open(M \cup {-v}) < open(M)
<1> DEFINE v == Branch(Propagate(F, M), n)
<1>1. v \in Unset(Propagate(F, M), n)
  BY DEF Branch
<1>2. M \subseteq Propagate(F, M)
  BY PropagateExact
<1> HIDE DEF v
<1>3. v \in 1..n /\ v \in Unset(M, n) /\ -(-v) = v
  BY <1>1, <1>2 DEF Unset
<1>4. v \in Literal /\ -v \in Literal
  BY <1>3 DEF Literal
<1>5. ASSUME NEW l \in {v, -v} PROVE Cardinality(Unset(M \cup {l}, n)) < Cardinality(Unset(M, n))
  <2>1. v \notin Unset(M \cup {l}, n)
    BY <1>3 DEF Unset
  <2>2. Unset(M \cup {l}, n) \in SUBSET Unset(M, n) /\ Unset(M \cup {l}, n) # Unset(M, n)
    BY <1>3, <2>1 DEF Unset
  <2>3. IsFiniteSet(Unset(M, n)) /\ IsFiniteSet(Unset(M \cup {l}, n))
    <3>1. IsFiniteSet(1..n)
      BY FS_Interval
    <3>2. Unset(M, n) \in SUBSET (1..n) /\ Unset(M \cup {l}, n) \in SUBSET (1..n)
      BY DEF Unset
    <3> QED BY <3>1, <3>2, FS_Subset
  <2>4. /\ Cardinality(Unset(M \cup {l}, n)) <= Cardinality(Unset(M, n))
        /\ Cardinality(Unset(M \cup {l}, n)) # Cardinality(Unset(M, n))
    BY <2>2, <2>3, FS_Subset
  <2> QED BY <2>3, <2>4, FS_CardinalityType
<1> QED BY <1>4, <1>5 DEF v

\* Whatever solves the recursive equation gives the models.
LEMMA FullSolution ==
  ASSUME NEW F, Clausal(F), NEW n \in Nat, Within(F, n),
         NEW full, full = FullStep(F, n, full), NEW L \in SUBSET Literal
  PROVE  full[L] = CutModels(F, L, n)
<1> DEFINE open(M) == Cardinality(Unset(M, n))
<1> DEFINE good(M) == full[M] = CutModels(F, M, n)
<1>1. ASSUME NEW M \in SUBSET Literal,
             \A K \in SUBSET Literal : open(K) < open(M) => good(K)
      PROVE  good(M)
  <2> DEFINE P == Propagate(F, M)
             v == Branch(P, n)
  <2>1. /\ Conflict(F, P) => full[M] = {}
        /\ ~Conflict(F, P) /\ Unset(P, n) = {} => full[M] = {P \cap (1..n)}
        /\ ~Conflict(F, P) /\ Unset(P, n) # {} => full[M] = full[M \cup {v}] \cup full[M \cup {-v}]
    <3>1. full[M] = FullStep(F, n, full)[M]
      OBVIOUS
    <3> QED BY <3>1 DEF FullStep, Branch, Unset
  <2>2. CutModels(F, M, n) =
          IF Conflict(F, P) THEN {}
          ELSE IF Unset(P, n) = {} THEN {P \cap (1..n)}
          ELSE CutModels(F, M \cup {v}, n) \cup CutModels(F, M \cup {-v}, n)
    BY BranchExact
  <2>3. Unset(P, n) # {} => good(M \cup {v}) /\ good(M \cup {-v})
    <3>1. Unset(P, n) # {} =>
            /\ M \cup {v} \in SUBSET Literal /\ M \cup {-v} \in SUBSET Literal
            /\ open(M \cup {v}) < open(M) /\ open(M \cup {-v}) < open(M)
      BY BranchShrinks
    <3> HIDE DEF open, good, v, P
    <3> QED BY <1>1, <3>1
  <2> HIDE DEF P, v
  <2> QED BY <2>1, <2>2, <2>3
<1>2. \A M : open(M) \in Nat
  <2>1. ASSUME NEW M PROVE open(M) \in Nat
    <3>1. IsFiniteSet(1..n) /\ Unset(M, n) \in SUBSET (1..n)
      BY FS_Interval DEF Unset
    <3>2. IsFiniteSet(Unset(M, n))
      BY <3>1, FS_Subset
    <3> QED BY <3>2, FS_CardinalityType
  <2> QED BY <2>1
<1> HIDE DEF open, good
<1> SUFFICES ASSUME ~good(L) PROVE FALSE
  BY DEF good
<1> DEFINE bad == {k \in Nat : \E M \in SUBSET Literal : open(M) = k /\ ~good(M)}
<1>3. PICK m \in bad : \A k \in Nat : k < m => k \notin bad
  <2>1. open(L) \in bad /\ bad \in SUBSET Nat
    BY <1>2
  <2> HIDE DEF bad
  <2> QED BY <2>1, LeastNumber
<1>4. PICK M \in SUBSET Literal : open(M) = m /\ ~good(M)
  BY <1>3
<1>5. \A K \in SUBSET Literal : open(K) < m => good(K)
  BY <1>2, <1>3
<1> QED BY <1>1, <1>4, <1>5

\* Over all the variables of a formula, FullModels gives the models, each once.
THEOREM FullModelsExact ==
  ASSUME NEW F, Clausal(F), NEW n \in Nat, Within(F, n), NEW L \in SUBSET Literal
  PROVE  FullModels(F, L, n) =
           {A \cap (1..n) : A \in {B \in Assignments : Satisfies(B, F) /\ Agrees(B, L)}}
<1> DEFINE truth == [M \in SUBSET Literal |-> CutModels(F, M, n)]
<1>1. truth = FullStep(F, n, truth)
  <2>1. ASSUME NEW M \in SUBSET Literal
        PROVE  CutModels(F, M, n) = FullStep(F, n, truth)[M]
    <3> DEFINE P == Propagate(F, M)
               v == Branch(P, n)
    <3>1. CutModels(F, M, n) =
            IF Conflict(F, P) THEN {}
            ELSE IF Unset(P, n) = {} THEN {P \cap (1..n)}
            ELSE CutModels(F, M \cup {v}, n) \cup CutModels(F, M \cup {-v}, n)
      BY BranchExact
    <3>2. Unset(P, n) # {} => /\ truth[M \cup {v}] = CutModels(F, M \cup {v}, n)
                              /\ truth[M \cup {-v}] = CutModels(F, M \cup {-v}, n)
      BY BranchShrinks
    <3> HIDE DEF truth
    <3>3. /\ Conflict(F, P) => FullStep(F, n, truth)[M] = {}
          /\ ~Conflict(F, P) /\ Unset(P, n) = {} => FullStep(F, n, truth)[M] = {P \cap (1..n)}
          /\ ~Conflict(F, P) /\ Unset(P, n) # {} =>
               FullStep(F, n, truth)[M] = truth[M \cup {v}] \cup truth[M \cup {-v}]
      BY DEF FullStep, Branch, Unset
    <3> HIDE DEF P, v
    <3> QED BY <3>1, <3>2, <3>3
  <2>2. FullStep(F, n, truth) = [M \in SUBSET Literal |-> FullStep(F, n, truth)[M]]
    BY DEF FullStep
  <2> QED BY <2>1, <2>2
<1> HIDE DEF truth
<1>2. PICK full : full = FullStep(F, n, full) /\ FullModels(F, L, n) = full[L]
  <2> DEFINE chosen == CHOOSE s : s = FullStep(F, n, s)
  <2>1. chosen = FullStep(F, n, chosen)
    BY <1>1
  <2>2. FullModels(F, L, n) = chosen[L]
    BY DEF FullModels, FullStep
  <2> QED BY <2>1, <2>2
<1> QED BY <1>2, FullSolution DEF CutModels

----------------------------------------------------------------------------
(* What a propagation may have on its trail *)

Implied(F, K) == UNION {{l \in c : c \ {l} \subseteq Neg(K)} : c \in F}

ReachStep(F) == [K \in SUBSET Literal |-> K \cup Implied(F, K)]

\* The literals that a clause implies are literals of the formula, and true in
\* every assignment of it.
LEMMA ImpliedSound ==
  ASSUME NEW F, Clausal(F), NEW K \in SUBSET Literal
  PROVE  /\ Implied(F, K) \subseteq UNION F
         /\ \A A : Satisfies(A, F) /\ Agrees(A, K) => Agrees(A, Implied(F, K))
<1>1. ASSUME NEW A, Satisfies(A, F), Agrees(A, K), NEW l \in Implied(F, K)
      PROVE  IsTrue(A, l)
  <2>1. PICK c \in F : l \in c /\ c \ {l} \subseteq Neg(K)
    BY DEF Implied
  <2>2. PICK m \in c : IsTrue(A, m)
    BY <1>1 DEF Satisfies
  <2> QED BY <1>1, <2>1, <2>2, AgreesConsistent
<1> QED BY <1>1 DEF Implied, Agrees

\* One round of what propagation can reach adds what the clauses imply.
LEMMA ReachStepGrows ==
  ASSUME NEW F, Clausal(F)
  PROVE  /\ Growing(Literal, UNION F, ReachStep(F)) /\ IsFiniteSet(UNION F)
         /\ \A K \in SUBSET Literal :
              /\ ReachStep(F)[K] = K \cup Implied(F, K)
              /\ ReachStep(F)[K] \in SUBSET Literal
<1>1. \A K \in SUBSET Literal : /\ ReachStep(F)[K] = K \cup Implied(F, K)
                                /\ ReachStep(F)[K] \in SUBSET Literal
  BY ImpliedSound DEF ReachStep, Clausal
<1> QED BY <1>1, ImpliedSound DEF Growing, ReachStep, Clausal

\* Reachable is the iteration of that round.
LEMMA ReachIterates ==
  ASSUME NEW F, Clausal(F)
  PROVE  \E f : /\ Iterates(Literal, ReachStep(F), f)
                /\ \A L : Reachable(F, L) = f[L]
<1> DEFINE rec(f) == [K \in SUBSET Literal |->
                        LET M == K \cup UNION {{l \in c : c \ {l} \subseteq Neg(K)} : c \in F}
                        IN  IF M = K THEN K ELSE f[M]]
           step == ReachStep(F)
<1>1. ASSUME NEW f
      PROVE  rec(f) = [K \in SUBSET Literal |-> IF step[K] = K THEN K ELSE f[step[K]]]
  BY ReachStepGrows DEF Implied
<1>2. \A f : f = rec(f) <=> Iterates(Literal, step, f)
  BY <1>1 DEF Iterates
<1>3. \E f : Iterates(Literal, step, f)
  BY ReachStepGrows, IterationExists
<1> DEFINE reach == CHOOSE f : f = rec(f)
<1>4. reach = rec(reach)
  <2> HIDE DEF rec, step
  <2> QED BY <1>2, <1>3
<1>5. \A K : Reachable(F, K) = reach[K]
  BY DEF Reachable
<1> HIDE DEF reach, rec, step
<1> QED BY <1>2, <1>4, <1>5 DEF step

\* A propagation that meets a conflict too finds only literals that every
\* assignment of the formula shares.
LEMMA ReachableSound ==
  ASSUME NEW F, Clausal(F), NEW L \in SUBSET Literal
  PROVE  \A A : Satisfies(A, F) /\ Agrees(A, L) => Agrees(A, Reachable(F, L))
<1> DEFINE step == ReachStep(F)
<1>1. PICK f : Iterates(Literal, step, f) /\ \A K : Reachable(F, K) = f[K]
  BY ReachIterates
<1>2. Growing(Literal, UNION F, step) /\ IsFiniteSet(UNION F)
  BY ReachStepGrows
<1>3. \A K \in SUBSET Literal : step[K] = K \cup Implied(F, K) /\ step[K] \in SUBSET Literal
  BY ReachStepGrows
<1> HIDE DEF step
<1>4. ASSUME NEW A, Satisfies(A, F), Agrees(A, L) PROVE Agrees(A, f[L])
  <2> DEFINE Q == {K \in SUBSET Literal : Agrees(A, K)}
  <2>1. ASSUME NEW K \in Q PROVE step[K] \in Q
    <3>1. Agrees(A, Implied(F, K))
      BY <1>4, ImpliedSound
    <3> QED BY <1>3, <3>1 DEF Agrees
  <2>2. Q \in SUBSET SUBSET Literal /\ L \in Q
    BY <1>4
  <2> HIDE DEF Q
  <2>3. f[L] \in Q
    BY <1>1, <1>2, <2>1, <2>2, IterationResult, ZenonT(30)
  <2> QED BY <2>3 DEF Q
<1> QED BY <1>1, <1>4

\* Propagation that ends without a conflict leaves no clause with one literal
\* that is not yet false:
LEMMA PropagateClosed ==
  ASSUME NEW F, Clausal(F), NEW P \in SUBSET Literal, Units(Simplify(F, P)) = {},
         ~Conflict(F, P), NEW c \in F, NEW l \in c, c \ {l} \subseteq Neg(P)
  PROVE  l \in P
<1>1. SUFFICES ASSUME l \notin P PROVE FALSE
  OBVIOUS
<1>2. P \cap Neg(P) = {} /\ {} \notin Simplify(F, P)
  BY DEF Conflict
<1>3. c \cap P = {}
  BY <1>1, <1>2
<1>4. c \ Neg(P) \in Simplify(F, P)
  BY <1>3 DEF Simplify
<1>5. c \ Neg(P) = {l}
  BY <1>2, <1>4
<1>6. Cardinality(c \ Neg(P)) = 1
  BY <1>5, FS_Singleton
<1> QED BY <1>4, <1>5, <1>6 DEF Units

\* it then has the same literals on its trail in whatever order it goes.
LEMMA ReachableInPropagate ==
  ASSUME NEW F, Clausal(F), NEW L \in SUBSET Literal, ~Conflict(F, Propagate(F, L))
  PROVE  Reachable(F, L) \subseteq Propagate(F, L)
<1> DEFINE step == ReachStep(F)
           P    == Propagate(F, L)
           Q    == SUBSET P
<1>1. PICK f : Iterates(Literal, step, f) /\ \A K : Reachable(F, K) = f[K]
  BY ReachIterates
<1>2. Growing(Literal, UNION F, step) /\ IsFiniteSet(UNION F)
  BY ReachStepGrows
<1>3. P \in SUBSET Literal /\ L \subseteq P /\ Units(Simplify(F, P)) = {}
  BY PropagateExact
<1>4. ASSUME NEW K \in Q PROVE step[K] \in Q
  <2>1. K \in SUBSET Literal /\ Neg(K) \subseteq Neg(P)
    BY <1>3 DEF Neg
  <2>2. ASSUME NEW c \in F, NEW l \in c, c \ {l} \subseteq Neg(K) PROVE l \in P
    BY <1>3, <2>1, <2>2, PropagateClosed
  <2>3. Implied(F, K) \subseteq P
    BY <2>2 DEF Implied
  <2>4. step[K] = K \cup Implied(F, K)
    BY <2>1, ReachStepGrows
  <2> HIDE DEF step, P
  <2> QED BY <2>3, <2>4
<1>5. Q \in SUBSET SUBSET Literal /\ L \in Q
  BY <1>3
<1> HIDE DEF Q, step
<1>6. f[L] \in Q
  BY <1>1, <1>2, <1>4, <1>5, IterationResult, ZenonT(30)
<1> QED BY <1>1, <1>6 DEF Q


----------------------------------------------------------------------------
(* The semantics, over finitely many arguments *)

\* More arguments defend more.
LEMMA DefendedMonotone ==
  ASSUME NEW A, NEW R, NEW S, NEW T, S \subseteq T
  PROVE  Defended(A, R, S) \subseteq Defended(A, R, T)
BY DEF Defended, Attacked

\* An argument that an admissible set defends may be added to it.
LEMMA FundamentalLemma ==
  ASSUME NEW A, NEW R, NEW S \in Admissible(A, R), NEW x \in Defended(A, R, S)
  PROVE  S \cup {x} \in Admissible(A, R)
<1>1. /\ S \subseteq A /\ x \in A /\ ConflictFree(R, S)
      /\ \A y \in S : y \in Defended(A, R, S)
  BY DEF Admissible, Defended
<1>2. \A z, y : z \in S /\ y \in S => <<z, y>> \notin R
  BY <1>1 DEF ConflictFree
<1>3. \A y \in A : <<y, x>> \in R => \E z \in S : <<z, y>> \in R
  BY DEF Defended, Attacked
<1>4. \A s \in S : \A y \in A : <<y, s>> \in R => \E z \in S : <<z, y>> \in R
  BY <1>1 DEF Defended, Attacked
<1>5. \A y \in S : <<y, x>> \notin R
  BY <1>1, <1>2, <1>3
<1>6. \A y \in S : <<x, y>> \notin R
  BY <1>1, <1>4, <1>5
<1>7. <<x, x>> \notin R
  BY <1>1, <1>3, <1>5
<1>8. ConflictFree(R, S \cup {x})
  BY <1>2, <1>5, <1>6, <1>7 DEF ConflictFree
<1>9. S \cup {x} \subseteq Defended(A, R, S \cup {x})
  BY <1>1, DefendedMonotone
<1> QED BY <1>1, <1>8, <1>9 DEF Admissible

\* Among finitely many sets there is a maximal one.
LEMMA MaximalExists ==
  ASSUME NEW A, IsFiniteSet(A), NEW Q \in SUBSET SUBSET A, Q # {}
  PROVE  \E S \in Q : \A T \in Q : S \subseteq T => S = T
<1> DEFINE sizes == {Cardinality(A \ S) : S \in Q}
<1>1. \A S \in SUBSET A : IsFiniteSet(A \ S) /\ Cardinality(A \ S) \in Nat
  BY FS_Difference, FS_CardinalityType
<1>2. sizes \in SUBSET Nat /\ sizes # {}
  BY <1>1
<1>3. PICK m \in sizes : \A k \in sizes : m <= k
  BY <1>2, LeastElement
<1>4. PICK S \in Q : m = Cardinality(A \ S)
  BY <1>3
<1>5. ASSUME NEW T \in Q, S \subseteq T PROVE S = T
  <2>1. Cardinality(A \ S) <= Cardinality(A \ T)
    BY <1>3, <1>4
  <2>2. (A \ T) \in SUBSET (A \ S)
    BY <1>5
  <2>3. /\ IsFiniteSet(A \ S) /\ Cardinality(A \ S) \in Nat
        /\ Cardinality(A \ T) \in Nat /\ Cardinality(A \ T) <= Cardinality(A \ S)
    BY <1>1, <2>2, FS_Subset
  <2>4. Cardinality(A \ T) = Cardinality(A \ S)
    BY <2>1, <2>3
  <2>5. A \ T = A \ S
    BY <2>2, <2>3, <2>4, FS_Subset
  <2> QED BY <1>5, <2>5
<1> QED BY <1>5

\* Every admissible set lies in a preferred extension.
LEMMA PreferredAbove ==
  ASSUME NEW A, IsFiniteSet(A), NEW R, NEW S \in Admissible(A, R)
  PROVE  \E P \in Preferred(A, R) : S \subseteq P
<1> DEFINE Q == {T \in Admissible(A, R) : S \subseteq T}
<1>1. Q \in SUBSET SUBSET A /\ Q # {}
  BY DEF Admissible
<1>2. PICK P \in Q : \A T \in Q : P \subseteq T => P = T
  <2> HIDE DEF Q
  <2> QED BY <1>1, MaximalExists
<1>3. P \in Admissible(A, R) /\ S \subseteq P
  OBVIOUS
<1>4. ASSUME NEW x \in Defended(A, R, P) PROVE x \in P
  <2>1. P \cup {x} \in Q
    BY <1>3, FundamentalLemma
  <2> QED BY <1>2, <2>1
<1>5. P \in Complete(A, R)
  BY <1>3, <1>4 DEF Admissible, Complete
<1>6. ASSUME NEW T \in Complete(A, R), P \subseteq T PROVE P = T
  <2>1. T \in Q
    BY <1>3, <1>6 DEF Complete, Admissible
  <2> QED BY <1>2, <1>6, <2>1
<1> QED BY <1>3, <1>5, <1>6 DEF Preferred

\* There is a preferred extension.
LEMMA PreferredExists ==
  ASSUME NEW A, IsFiniteSet(A), NEW R
  PROVE  Preferred(A, R) # {}
<1>1. {} \in Admissible(A, R)
  BY DEF Admissible, ConflictFree
<1> QED BY <1>1, PreferredAbove

\* The grounded extension is a complete one, and part of every set that holds
\* what it defends (what propagation reaches is one).
LEMMA GroundedExists ==
  ASSUME NEW A, IsFiniteSet(A), NEW R
  PROVE  /\ Grounded(A, R) \in Complete(A, R)
         /\ \A S \in SUBSET A : Defended(A, R, S) \subseteq S => Grounded(A, R) \subseteq S
<1> DEFINE Closed(S) == Defended(A, R, S) \subseteq S
           G == {x \in A : \A S \in SUBSET A : Closed(S) => x \in S}
<1>1. G \in SUBSET A /\ \A S \in SUBSET A : Closed(S) => G \subseteq S
  OBVIOUS
<1>2. Closed(G)
  <2>1. ASSUME NEW x \in Defended(A, R, G), NEW S \in SUBSET A, Closed(S)
        PROVE  x \in S
    <3>1. x \in Defended(A, R, S)
      BY <1>1, <2>1, DefendedMonotone
    <3> QED BY <2>1, <3>1
  <2>2. Defended(A, R, G) \subseteq A
    BY DEF Defended
  <2> QED BY <2>1, <2>2
<1>3. G \subseteq Defended(A, R, G)
  <2>1. Defended(A, R, G) \in SUBSET A
    BY DEF Defended
  <2>2. Closed(Defended(A, R, G))
    BY <1>2, <2>1, DefendedMonotone
  <2> QED BY <1>1, <2>1, <2>2
<1>4. \A S \in Complete(A, R) : G \subseteq S
  BY <1>1 DEF Complete
<1>5. G \in Complete(A, R)
  <2>1. PICK P \in Preferred(A, R) : TRUE
    BY PreferredExists
  <2>2. ConflictFree(R, P) /\ G \subseteq P
    BY <1>4, <2>1 DEF Preferred, Complete
  <2>3. ConflictFree(R, G)
    BY <2>2 DEF ConflictFree
  <2> QED BY <1>1, <1>2, <1>3, <2>3 DEF Complete
<1> HIDE DEF G
<1>6. Grounded(A, R) \in Complete(A, R) /\ \A S \in Complete(A, R) : Grounded(A, R) \subseteq S
  BY <1>4, <1>5 DEF Grounded
<1>7. Grounded(A, R) = G
  BY <1>4, <1>5, <1>6
<1> QED BY <1>1, <1>6, <1>7

\* The ideal extension is a complete one, and the largest admissible set inside
\* the preferred extensions.
LEMMA IdealExists ==
  ASSUME NEW A, IsFiniteSet(A), NEW R
  PROVE  /\ Ideal(A, R) \in Complete(A, R)
         /\ \A P \in Preferred(A, R) : Ideal(A, R) \subseteq P
         /\ \A S \in Admissible(A, R) :
              (\A P \in Preferred(A, R) : S \subseteq P) => S \subseteq Ideal(A, R)
<1> DEFINE inside == {S \in Admissible(A, R) : \A P \in Preferred(A, R) : S \subseteq P}
<1>1. PICK P0 \in Preferred(A, R) : TRUE
  BY PreferredExists
<1>2. inside \in SUBSET SUBSET A
  BY DEF Admissible
<1>3. {} \in inside
  BY DEF Admissible, ConflictFree
<1>4. PICK I \in inside : \A T \in inside : I \subseteq T => I = T
  <2> HIDE DEF inside
  <2> QED BY <1>2, <1>3, MaximalExists
<1>5. ASSUME NEW T \in inside PROVE T \subseteq I
  <2>1. /\ I \cup T \subseteq A
        /\ \A P \in Preferred(A, R) : I \cup T \subseteq P
    BY <1>2, <1>4
  <2>2. ConflictFree(R, I \cup T)
    <3>1. ConflictFree(R, P0) /\ I \cup T \subseteq P0
      BY <1>1, <2>1 DEF Preferred, Complete
    <3> QED BY <3>1 DEF ConflictFree
  <2>3. I \cup T \subseteq Defended(A, R, I \cup T)
    <3>1. I \subseteq Defended(A, R, I) /\ T \subseteq Defended(A, R, T)
      BY <1>4, <1>5 DEF Admissible
    <3>2. /\ Defended(A, R, I) \subseteq Defended(A, R, I \cup T)
          /\ Defended(A, R, T) \subseteq Defended(A, R, I \cup T)
      BY DefendedMonotone
    <3> QED BY <3>1, <3>2
  <2>4. I \cup T \in inside
    BY <2>1, <2>2, <2>3 DEF Admissible
  <2> QED BY <1>4, <2>4
<1>6. \A J \in inside : (\A T \in inside : T \subseteq J) => J = I
  BY <1>4, <1>5
<1>7. Ideal(A, R) = CHOOSE S \in inside : \A T \in inside : T \subseteq S
  BY DEF Ideal
<1>8. Ideal(A, R) = I
  <2> HIDE DEF inside
  <2> QED BY <1>4, <1>5, <1>6, <1>7
<1>9. ASSUME NEW x \in Defended(A, R, I) PROVE x \in I
  <2>1. I \cup {x} \in Admissible(A, R)
    BY <1>4, FundamentalLemma
  <2>2. ASSUME NEW P \in Preferred(A, R) PROVE I \cup {x} \subseteq P
    <3>1. I \subseteq P /\ P = Defended(A, R, P)
      BY <1>4 DEF Preferred, Complete
    <3> QED BY <3>1, DefendedMonotone
  <2>3. I \cup {x} \in inside
    BY <2>1, <2>2
  <2> QED BY <1>5, <2>3
<1>10. I \in Complete(A, R)
  BY <1>4, <1>9 DEF Complete, Admissible
<1>11. \A S \in Admissible(A, R) : (\A P \in Preferred(A, R) : S \subseteq P) => S \subseteq I
  BY <1>5
<1>12. \A P \in Preferred(A, R) : I \subseteq P
  BY <1>4
<1> QED BY <1>8, <1>10, <1>11, <1>12

----------------------------------------------------------------------------
(* The variables *)

\* The position of an argument in the map (VarMap::getNames).
LEMMA Positions ==
  /\ Len(Order) \in Nat /\ DOMAIN Order = 1..Len(Order)
  /\ \A x \in Arg : Position(x) \in 1..Len(Order) /\ Order[Position(x)] = x
  /\ \A k \in 1..Len(Order) : Order[k] \in Arg /\ Position(Order[k]) = k
<1>1. Len(Order) \in Nat /\ DOMAIN Order = 1..Len(Order)
  BY OrderAssumption, LenProperties
<1>2. ASSUME NEW x \in Arg
      PROVE  Position(x) \in 1..Len(Order) /\ Order[Position(x)] = x
  BY <1>1, OrderAssumption DEF Position
<1>3. ASSUME NEW k \in 1..Len(Order) PROVE Order[k] \in Arg /\ Position(Order[k]) = k
  <2>1. Order[k] \in Arg
    BY <1>1, OrderAssumption
  <2> QED BY <1>1, <1>2, <2>1, OrderAssumption
<1> QED BY <1>1, <1>2, <1>3

\* The arguments of the list are finitely many.
LEMMA ArgFinite == IsFiniteSet(Arg)
<1> DEFINE f == [k \in 1..Len(Order) |-> Order[k]]
<1>1. f \in Surjection(1..Len(Order), Arg)
  BY Positions, OrderAssumption DEF Surjection
<1>2. IsFiniteSet(1..Len(Order))
  BY Positions, FS_Interval
<1> HIDE DEF f
<1> QED BY <1>1, <1>2, FS_Surjection

\* reserveDynVars creates variables once for each attack that changes.
LEMMA RankBelow ==
  ASSUME TypeOK, NEW p \in DynPairs
  PROVE  /\ IsFiniteSet(DynPairs) /\ Cardinality(DynPairs) \in Nat
         /\ Rank(FirstRecordOf(p)) \in Nat
         /\ Rank(FirstRecordOf(p)) < Cardinality(DynPairs)
<1> DEFINE f == [j \in FirstRecords |-> Pair(j)]
           r == FirstRecordOf(p)
           before == {k \in FirstRecords : k < r}
<1>1. DOMAIN dynAttacks = 1..Len(dynAttacks) /\ Len(dynAttacks) \in Nat
  BY LenProperties DEF TypeOK
<1>2. FirstRecords \in SUBSET (1..Len(dynAttacks))
  BY <1>1 DEF FirstRecords
<1>3. IsFiniteSet(FirstRecords)
  <2>1. IsFiniteSet(1..Len(dynAttacks))
    BY <1>1, FS_Interval
  <2> QED BY <1>2, <2>1, FS_Subset
<1>4. f \in Surjection(FirstRecords, DynPairs)
  <2>1. \A j \in FirstRecords : Pair(j) \in DynPairs
    BY DEF FirstRecords, DynPairs
  <2>2. \A q \in DynPairs : \E j \in FirstRecords : f[j] = q
    BY FirstRecordExists
  <2> QED BY <2>1, <2>2 DEF Surjection
<1>5. f \in Injection(FirstRecords, DynPairs)
  <2>1. ASSUME NEW j \in FirstRecords, NEW k \in FirstRecords, f[j] = f[k]
        PROVE  j = k
    <3>1. j \in Int /\ k \in Int /\ j >= 1 /\ k >= 1
      BY <1>2
    <3>2. ~(j < k) /\ ~(k < j)
      BY <2>1, <3>1 DEF FirstRecords
    <3> QED BY <3>1, <3>2
  <2>2. f \in [FirstRecords -> DynPairs]
    BY <1>4 DEF Surjection
  <2> HIDE DEF f
  <2> QED BY <2>1, <2>2 DEF Injection, IsInjective
<1>6. IsFiniteSet(DynPairs) /\ Cardinality(DynPairs) = Cardinality(FirstRecords)
  <2> HIDE DEF f
  <2> QED BY <1>3, <1>4, <1>5, FS_Surjection
<1>7. r \in FirstRecords
  BY FirstRecordExists
<1>8. before \in SUBSET FirstRecords /\ r \notin before
  <2>1. r \in 1..Len(dynAttacks)
    BY <1>2, <1>7
  <2>2. ~(r < r)
    BY <2>1
  <2> QED BY <2>2
<1>9. /\ Cardinality(before) \in Nat /\ Cardinality(FirstRecords) \in Nat
      /\ Cardinality(before) <= Cardinality(FirstRecords)
      /\ Cardinality(before) # Cardinality(FirstRecords)
  <2> HIDE DEF before
  <2> QED BY <1>3, <1>7, <1>8, FS_Subset, FS_CardinalityType
<1>10. Rank(r) = Cardinality(before)
  BY DEF Rank
<1> HIDE DEF before
<1> QED BY <1>6, <1>9, <1>10

\* The variables of the changing attacks follow the first n, without overlap and
\* up to the number that newVar has been told of.
LEMMA DynVars ==
  ASSUME TypeOK, NEW n \in Nat
  PROVE  /\ Width \in {2, 3} /\ Width * Cardinality(DynPairs) \in Nat
         /\ \A p \in DynPairs :
              /\ FirstVar(n, p) \in Nat /\ FirstVar(n, p) > n
              /\ FirstVar(n, p) + Width - 1 <= n + Width * Cardinality(DynPairs)
         /\ \A p, q \in DynPairs : \A d, e \in 0..(Width - 1) :
              FirstVar(n, p) + d = FirstVar(n, q) + e => p = q /\ d = e
<1>1. Width \in {2, 3}
  BY DEF Width, TypeOK
<1>2. Cardinality(DynPairs) \in Nat
  <2>1. CASE DynPairs = {}
    BY <2>1, FS_EmptySet
  <2>2. CASE DynPairs # {}
    BY <2>2, RankBelow
  <2> QED BY <2>1, <2>2
<1>3. ASSUME NEW p \in DynPairs
      PROVE  /\ FirstVar(n, p) \in Nat /\ FirstVar(n, p) > n
             /\ FirstVar(n, p) + Width - 1 <= n + Width * Cardinality(DynPairs)
             /\ FirstVar(n, p) - n = FromRepl(p) - nbVars
  <2>1. /\ Rank(FirstRecordOf(p)) \in Nat
        /\ Rank(FirstRecordOf(p)) + 1 <= Cardinality(DynPairs)
    BY <1>2, RankBelow
  <2>2. nbVars \in Nat
    BY DEF TypeOK
  <2>3. CASE Width = 2
    BY <1>2, <2>1, <2>2, <2>3 DEF FirstVar, FromRepl
  <2>4. CASE Width = 3
    BY <1>2, <2>1, <2>2, <2>4 DEF FirstVar, FromRepl
  <2> QED BY <1>1, <2>3, <2>4
<1>4. ASSUME NEW p \in DynPairs, NEW q \in DynPairs,
             NEW d \in 0..(Width - 1), NEW e \in 0..(Width - 1),
             FirstVar(n, p) + d = FirstVar(n, q) + e
      PROVE  p = q /\ d = e
  <2>1. /\ FirstVar(n, p) \in Nat /\ FirstVar(n, q) \in Nat
        /\ FirstVar(n, p) - n = FromRepl(p) - nbVars
        /\ FirstVar(n, q) - n = FromRepl(q) - nbVars
    BY <1>3
  <2>2. /\ FromRepl(p) \in Nat /\ FromRepl(q) \in Nat /\ nbVars \in Nat
        /\ AssumpVar(p) = FromRepl(p) + Width - 1
        /\ AssumpVar(q) = FromRepl(q) + Width - 1
    BY AssumpVarType DEF AssumpVar, TypeOK
  <2>3. /\ FromRepl(p) + d = FromRepl(q) + e
        /\ FromRepl(p) + d \in FromRepl(p)..AssumpVar(p)
        /\ FromRepl(q) + e \in FromRepl(q)..AssumpVar(q)
    BY <1>1, <1>4, <2>1, <2>2
  <2>4. p = q
    BY <2>3, VarsDisjoint DEF DynVarsDisjoint
  <2> QED BY <1>1, <1>4, <2>1, <2>4
<1>5. Width * Cardinality(DynPairs) \in Nat
  BY <1>1, <1>2
<1> HIDE DEF Width, FirstVar, DynPairs, FromRepl
<1> QED BY <1>1, <1>3, <1>4, <1>5

----------------------------------------------------------------------------
(* What the clauses say *)

\* A helper over n variables of arguments, for the encoding of semantics s.
Encodes(s, h, n) ==
  /\ n \in Nat
  /\ h.var \in [Arg -> 1..n]
  /\ h.disj = [x \in Arg |-> n + Position(x)]
  /\ h.base = IF s = "ST" THEN n ELSE n + Len(Order)
  /\ reserveNotAttackedRepl = (s # "ST")

\* The sets of arguments that the clauses stand for.
Encoded(s, R) ==
  CASE s = "ST"  -> Stable(Arg, R)
    [] s = "STG" -> {S \in SUBSET Arg : ConflictFree(R, S)}
    [] OTHER     -> Complete(Arg, R)

\* The framework of a step: the attacks that do not change, and some of the
\* others.
StepFramework(R) ==
  R \subseteq instance \cup DynPairs /\ instance \ DynPairs \subseteq R

\* The variables of an argument and of the disjunction of its attackers.
LEMMA ArgumentVars ==
  ASSUME NEW s, NEW h, NEW n, Encodes(s, h, n), NEW x \in Arg
  PROVE  /\ h.var[x] \in Nat \ {0} /\ h.var[x] <= n
         /\ h.disj[x] \in Nat \ {0} /\ h.disj[x] > n
<1>1. n \in Nat /\ h.var[x] \in 1..n /\ h.disj[x] = n + Position(x)
  BY DEF Encodes
<1>2. Position(x) \in 1..Len(Order) /\ Len(Order) \in Nat
  BY Positions
<1> QED BY <1>1, <1>2

\* The helper's variables are distinct, and in the range it announces.
LEMMA HelperVars ==
  ASSUME TypeOK, NEW s, NEW h, NEW n, Encodes(s, h, n)
  PROVE  /\ n \in Nat /\ h.base \in Nat /\ n <= h.base
         /\ NbVarsOf(h) \in Nat /\ h.base <= NbVarsOf(h)
         /\ \A x \in Arg : /\ h.var[x] \in Nat \ {0} /\ h.var[x] <= n
                           /\ h.disj[x] \in Nat /\ h.disj[x] > n
                           /\ s # "ST" => h.disj[x] <= h.base
         /\ \A x, y \in Arg : h.disj[x] = h.disj[y] => x = y
         /\ \A p \in DynPairs :
              /\ Repl(h, p) \in Nat /\ Repl(h, p) > h.base
              /\ Assump(h, p) \in Nat /\ Assump(h, p) > h.base
              /\ Repl(h, p) <= NbVarsOf(h) /\ Assump(h, p) <= NbVarsOf(h)
              /\ s # "ST" => /\ NotAttacked(h, p) \in Nat /\ NotAttacked(h, p) > h.base
                             /\ NotAttacked(h, p) <= NbVarsOf(h)
         /\ \A p, q \in DynPairs :
              /\ Repl(h, p) = Repl(h, q) => p = q
              /\ Assump(h, p) = Assump(h, q) => p = q
              /\ Repl(h, p) # Assump(h, q)
              /\ s # "ST" => /\ NotAttacked(h, p) = NotAttacked(h, q) => p = q
                             /\ Repl(h, p) # NotAttacked(h, q)
                             /\ Assump(h, p) # NotAttacked(h, q)
<1>1. n \in Nat /\ Len(Order) \in Nat
  BY Positions DEF Encodes
<1>2. h.base \in Nat /\ n <= h.base /\ (s # "ST" => h.base = n + Len(Order))
  BY <1>1 DEF Encodes
<1>3. ASSUME NEW x \in Arg
      PROVE  /\ h.var[x] \in Nat \ {0} /\ h.var[x] <= n
             /\ h.disj[x] = n + Position(x) /\ Position(x) \in 1..Len(Order)
  <2>1. h.var[x] \in 1..n
    BY DEF Encodes
  <2> QED BY <1>1, <2>1, Positions DEF Encodes
<1>4. \A x, y \in Arg : h.disj[x] = h.disj[y] => x = y
  <2>1. ASSUME NEW x \in Arg, NEW y \in Arg, h.disj[x] = h.disj[y]
        PROVE  x = y
    <3>1. Position(x) = Position(y)
      BY <1>1, <1>3, <2>1
    <3> QED BY <3>1, Positions
  <2> QED BY <2>1
<1>5. /\ Width \in {2, 3} /\ Width * Cardinality(DynPairs) \in Nat
      /\ Width = IF s = "ST" THEN 2 ELSE 3
  BY <1>2, DynVars DEF Width, Encodes
<1>6. NbVarsOf(h) = h.base + Width * Cardinality(DynPairs)
  BY DEF NbVarsOf
<1>7. ASSUME NEW p \in DynPairs
      PROVE  /\ Repl(h, p) \in Nat /\ Repl(h, p) > h.base
             /\ NotAttacked(h, p) = Repl(h, p) + 1
             /\ Assump(h, p) = Repl(h, p) + (Width - 1)
             /\ Repl(h, p) + Width - 1 <= NbVarsOf(h)
  <2>1. Repl(h, p) \in Nat /\ Repl(h, p) > h.base /\ Repl(h, p) + Width - 1 <= NbVarsOf(h)
    BY <1>2, <1>6, DynVars DEF Repl
  <2> QED BY <1>5, <2>1 DEF Repl, NotAttacked, Assump
<1>8. \A p, q \in DynPairs : \A d, e \in 0..(Width - 1) :
        Repl(h, p) + d = Repl(h, q) + e => p = q /\ d = e
  <2>1. \A p, q \in DynPairs : \A d, e \in 0..(Width - 1) :
          FirstVar(h.base, p) + d = FirstVar(h.base, q) + e => p = q /\ d = e
    BY <1>2, DynVars
  <2>2. \A p : Repl(h, p) = FirstVar(h.base, p)
    BY DEF Repl
  <2> QED BY <2>1, <2>2
<1>9. ASSUME NEW p \in DynPairs, NEW q \in DynPairs
      PROVE  /\ Repl(h, p) = Repl(h, q) => p = q
             /\ Assump(h, p) = Assump(h, q) => p = q
             /\ Repl(h, p) # Assump(h, q)
             /\ s # "ST" => /\ NotAttacked(h, p) = NotAttacked(h, q) => p = q
                            /\ Repl(h, p) # NotAttacked(h, q)
                            /\ Assump(h, p) # NotAttacked(h, q)
  <2>0. PICK last \in 0..(Width - 1) : last = Width - 1
    BY <1>5
  <2>1. PICK first \in 0..(Width - 1) : first = 0 /\ first # last
    BY <1>5, <2>0
  <2>2. Repl(h, p) = Repl(h, p) + first /\ Repl(h, q) = Repl(h, q) + first
    BY <1>7, <2>1
  <2>3. /\ NotAttacked(h, p) = Repl(h, p) + 1 /\ NotAttacked(h, q) = Repl(h, q) + 1
        /\ Assump(h, p) = Repl(h, p) + last /\ Assump(h, q) = Repl(h, q) + last
    BY <1>7, <2>0
  <2>4. Repl(h, p) = Repl(h, q) => p = q
    BY <1>8, <2>2
  <2>5. Assump(h, p) = Assump(h, q) => p = q
    BY <1>8, <2>0, <2>3
  <2>6. Repl(h, p) # Assump(h, q)
    <3>1. Repl(h, p) + first # Repl(h, q) + last
      BY <1>8, <2>1
    <3> QED BY <2>2, <2>3, <3>1
  <2>7. ASSUME s # "ST"
        PROVE  /\ NotAttacked(h, p) = NotAttacked(h, q) => p = q
               /\ Repl(h, p) # NotAttacked(h, q)
               /\ Assump(h, p) # NotAttacked(h, q)
    <3>1. PICK second \in 0..(Width - 1) : second = 1 /\ second # last /\ second # first
      BY <1>5, <2>0, <2>1, <2>7
    <3>2. NotAttacked(h, p) = Repl(h, p) + second /\ NotAttacked(h, q) = Repl(h, q) + second
      BY <2>3, <3>1
    <3>3. Repl(h, p) + first # Repl(h, q) + second
      BY <1>8, <3>1
    <3>4. Repl(h, p) + last # Repl(h, q) + second
      BY <1>8, <3>1
    <3> QED BY <1>8, <2>2, <2>3, <3>2, <3>3, <3>4
  <2> QED BY <2>4, <2>5, <2>6, <2>7
<1>10. ASSUME NEW p \in DynPairs
       PROVE  /\ Repl(h, p) \in Nat /\ Repl(h, p) > h.base
              /\ Assump(h, p) \in Nat /\ Assump(h, p) > h.base
              /\ Repl(h, p) <= NbVarsOf(h) /\ Assump(h, p) <= NbVarsOf(h)
              /\ s # "ST" => /\ NotAttacked(h, p) \in Nat /\ NotAttacked(h, p) > h.base
                             /\ NotAttacked(h, p) <= NbVarsOf(h)
  <2>1. NbVarsOf(h) \in Nat
    BY <1>2, <1>5, <1>6
  <2> QED BY <1>2, <1>5, <1>7, <2>1
<1>11. NbVarsOf(h) \in Nat /\ h.base <= NbVarsOf(h)
  BY <1>2, <1>5, <1>6
<1>12. \A x \in Arg : /\ h.var[x] \in Nat \ {0} /\ h.var[x] <= n
                      /\ h.disj[x] \in Nat /\ h.disj[x] > n
                      /\ s # "ST" => h.disj[x] <= h.base
  BY <1>1, <1>2, <1>3
<1> QED BY <1>1, <1>2, <1>4, <1>9, <1>10, <1>11, <1>12

\* The assignment A reads as the attacks R and the accepted arguments S: the
\* variables of the attackers,
ReadsAttacks(h, A, R, S) ==
  /\ \A x \in Arg : h.var[x] \in A <=> x \in S
  /\ \A p \in DynPairs : /\ Assump(h, p) \in A <=> p \in R
                         /\ Repl(h, p) \in A <=> p \in R /\ p[1] \in S

\* and those of what is attacked.
ReadsDefence(h, A, R, S) ==
  /\ \A x \in Arg : h.disj[x] \in A <=> Attacked(R, S, x)
  /\ \A p \in DynPairs :
       NotAttacked(h, p) \in A <=> p \in R /\ ~Attacked(R, S, p[1])

\* A variable and its negation as literals.
LEMMA PositiveTrue ==
  ASSUME NEW A, NEW v \in Nat \ {0}
  PROVE  /\ v \in Literal /\ -v \in Literal /\ -(-v) = v
         /\ IsTrue(A, v) <=> v \in A
         /\ IsTrue(A, -v) <=> v \notin A
BY DEF Literal, IsTrue

\* The three clauses of a conjunction (reserveDynVars) say that it is one.
LEMMA BothTrue ==
  ASSUME NEW A, NEW d \in Literal, NEW x \in Literal, NEW y \in Literal
  PROVE  Satisfies(A, Both(d, x, y)) <=> (IsTrue(A, d) <=> IsTrue(A, x) /\ IsTrue(A, y))
<1>1. /\ IsTrue(A, -d) <=> ~IsTrue(A, d)
      /\ IsTrue(A, -x) <=> ~IsTrue(A, x)
      /\ IsTrue(A, -y) <=> ~IsTrue(A, y)
  BY Negation
<1>2. Satisfies(A, Both(d, x, y)) <=>
        /\ IsTrue(A, -d) \/ IsTrue(A, x)
        /\ IsTrue(A, -d) \/ IsTrue(A, y)
        /\ IsTrue(A, d) \/ IsTrue(A, -x) \/ IsTrue(A, -y)
  BY DEF Satisfies, Both
<1> QED BY <1>1, <1>2

\* A pair of the list is made of two arguments.
LEMMA PairEnds ==
  ASSUME TypeOK, NEW p \in DynPairs
  PROVE  p[1] \in Arg /\ p[2] \in Arg /\ p = <<p[1], p[2]>>
BY PairsAreAttacks DEF Attack

\* A dynamic attack counts while it is switched on.
LEMMA DynClausesTrue ==
  ASSUME TypeOK, NEW s, NEW h, NEW n, Encodes(s, h, n), NEW A
  PROVE  Satisfies(A, DynClauses(h)) <=>
           \A p \in DynPairs :
             /\ Repl(h, p) \in A <=> h.var[p[1]] \in A /\ Assump(h, p) \in A
             /\ s # "ST" =>
                  (NotAttacked(h, p) \in A <=> h.disj[p[1]] \notin A /\ Assump(h, p) \in A)
<1>1. ASSUME NEW p \in DynPairs
      PROVE  /\ p[1] \in Arg
             /\ Repl(h, p) \in Nat \ {0} /\ Assump(h, p) \in Nat \ {0}
             /\ h.var[p[1]] \in Nat \ {0} /\ h.disj[p[1]] \in Nat \ {0}
             /\ s # "ST" => NotAttacked(h, p) \in Nat \ {0}
  <2>1. p[1] \in Arg
    BY PairEnds
  <2> QED BY <2>1, HelperVars, ArgumentVars
<1>2. ASSUME NEW p \in DynPairs
      PROVE  Satisfies(A, Both(Repl(h, p), h.var[p[1]], Assump(h, p))) <=>
               (Repl(h, p) \in A <=> h.var[p[1]] \in A /\ Assump(h, p) \in A)
  <2> DEFINE r == Repl(h, p)
             v == h.var[p[1]]
             a == Assump(h, p)
  <2>1. r \in Nat \ {0} /\ v \in Nat \ {0} /\ a \in Nat \ {0}
    BY <1>1
  <2> HIDE DEF r, v, a
  <2>2. Satisfies(A, Both(r, v, a)) <=> (r \in A <=> v \in A /\ a \in A)
    BY <2>1, BothTrue, PositiveTrue
  <2> QED BY <2>2 DEF r, v, a
<1>3. ASSUME NEW p \in DynPairs, s # "ST"
      PROVE  Satisfies(A, Both(NotAttacked(h, p), -h.disj[p[1]], Assump(h, p))) <=>
               (NotAttacked(h, p) \in A <=> h.disj[p[1]] \notin A /\ Assump(h, p) \in A)
  <2> DEFINE r == NotAttacked(h, p)
             v == h.disj[p[1]]
             a == Assump(h, p)
  <2>1. r \in Nat \ {0} /\ v \in Nat \ {0} /\ a \in Nat \ {0}
    BY <1>1, <1>3
  <2> HIDE DEF r, v, a
  <2>2. Satisfies(A, Both(r, -v, a)) <=> (r \in A <=> v \notin A /\ a \in A)
    <3>1. r \in Literal /\ -v \in Literal /\ a \in Literal
      BY <2>1, PositiveTrue
    <3>2. /\ IsTrue(A, r) <=> r \in A
          /\ IsTrue(A, -v) <=> v \notin A
          /\ IsTrue(A, a) <=> a \in A
      BY <2>1, PositiveTrue
    <3> QED BY <3>1, <3>2, BothTrue
  <2> QED BY <2>2 DEF r, v, a
<1>4. Satisfies(A, DynClauses(h)) <=>
        \A p \in DynPairs :
          /\ Satisfies(A, Both(Repl(h, p), h.var[p[1]], Assump(h, p)))
          /\ s # "ST" =>
               Satisfies(A, Both(NotAttacked(h, p), -h.disj[p[1]], Assump(h, p)))
  <2>1. CASE s = "ST"
    <3>1. ~reserveNotAttackedRepl
      BY <2>1 DEF Encodes
    <3>2. DynClauses(h) =
            UNION {Both(Repl(h, p), h.var[p[1]], Assump(h, p)) : p \in DynPairs}
      BY <3>1 DEF DynClauses
    <3> QED BY <2>1, <3>2 DEF Satisfies
  <2>2. CASE s # "ST"
    <3>1. reserveNotAttackedRepl
      BY <2>2 DEF Encodes
    <3>2. DynClauses(h) =
            (UNION {Both(Repl(h, p), h.var[p[1]], Assump(h, p)) : p \in DynPairs}) \cup
            UNION {Both(NotAttacked(h, p), -h.disj[p[1]], Assump(h, p)) : p \in DynPairs}
      BY <3>1 DEF DynClauses
    <3> QED BY <2>2, <3>2 DEF Satisfies
  <2> QED BY <2>1, <2>2
<1> QED BY <1>2, <1>3, <1>4

\* lookForDynAttackerReplacement gives a literal that is true when the attack is
\* there and the attacker is accepted.
LEMMA AttackerTrue ==
  ASSUME TypeOK, NEW s, NEW h, NEW n, Encodes(s, h, n), NEW A, NEW R, NEW S,
         StepFramework(R), ReadsAttacks(h, A, R, S),
         NEW x \in Arg, NEW y \in Attackers(x)
  PROVE  /\ AttackerLit(h, x, y) \in Nat \ {0}
         /\ AttackerLit(h, x, y) \in A <=> <<y, x>> \in R /\ y \in S
<1>1. y \in Arg /\ <<y, x>> \in instance \cup DynPairs
  BY DEF Attackers
<1>2. CASE <<y, x>> \in DynPairs
  <2>1. Repl(h, <<y, x>>) \in Nat \ {0}
    BY <1>2, HelperVars
  <2>2. AttackerLit(h, x, y) = Repl(h, <<y, x>>)
    BY <1>2 DEF AttackerLit
  <2>3. Repl(h, <<y, x>>) \in A <=> <<y, x>> \in R /\ <<y, x>>[1] \in S
    BY <1>2 DEF ReadsAttacks
  <2> QED BY <2>1, <2>2, <2>3
<1>3. CASE <<y, x>> \notin DynPairs
  <2>1. h.var[y] \in Nat \ {0}
    BY <1>1, ArgumentVars
  <2>2. AttackerLit(h, x, y) = h.var[y]
    BY <1>3 DEF AttackerLit
  <2>3. <<y, x>> \in R
    BY <1>1, <1>3 DEF StepFramework
  <2> QED BY <1>1, <2>1, <2>2, <2>3 DEF ReadsAttacks
<1> QED BY <1>2, <1>3

\* attackerDisjOfAttacker gives one that is true when the attack is not there or
\* the attacker is attacked.
LEMMA AttackedTrue ==
  ASSUME TypeOK, NEW s, NEW h, NEW n, Encodes(s, h, n), s # "ST", NEW A, NEW R, NEW S,
         StepFramework(R), ReadsDefence(h, A, R, S),
         NEW x \in Arg, NEW y \in Attackers(x)
  PROVE  /\ AttackedLit(h, x, y) \in Literal
         /\ IsTrue(A, AttackedLit(h, x, y)) <=> (<<y, x>> \in R => Attacked(R, S, y))
         /\ IsTrue(A, -AttackedLit(h, x, y)) <=> ~(<<y, x>> \in R => Attacked(R, S, y))
<1>1. y \in Arg /\ <<y, x>> \in instance \cup DynPairs
  BY DEF Attackers
<1>2. CASE <<y, x>> \in DynPairs
  <2> DEFINE v == NotAttacked(h, <<y, x>>)
  <2>1. v \in Nat \ {0}
    BY <1>2, HelperVars
  <2>2. AttackedLit(h, x, y) = -v
    BY <1>2 DEF AttackedLit
  <2>3. v \in A <=> <<y, x>> \in R /\ ~Attacked(R, S, y)
    <3>1. <<y, x>>[1] = y
      OBVIOUS
    <3> QED BY <1>2, <3>1 DEF ReadsDefence
  <2> HIDE DEF v
  <2>4. /\ -v \in Literal /\ -(-v) = v
        /\ IsTrue(A, -v) <=> v \notin A
        /\ IsTrue(A, v) <=> v \in A
    BY <2>1, PositiveTrue
  <2> QED BY <2>2, <2>3, <2>4
<1>3. CASE <<y, x>> \notin DynPairs
  <2> DEFINE v == h.disj[y]
  <2>1. v \in Nat \ {0}
    BY <1>1, ArgumentVars
  <2>2. AttackedLit(h, x, y) = v
    BY <1>3 DEF AttackedLit
  <2>3. <<y, x>> \in R
    BY <1>1, <1>3 DEF StepFramework
  <2>4. v \in A <=> Attacked(R, S, y)
    BY <1>1 DEF ReadsDefence
  <2> HIDE DEF v
  <2>5. /\ v \in Literal
        /\ IsTrue(A, v) <=> v \in A
        /\ IsTrue(A, -v) <=> v \notin A
    BY <2>1, PositiveTrue
  <2> QED BY <2>2, <2>3, <2>4, <2>5
<1> QED BY <1>2, <1>3

\* What attacks an argument is attacked by S: the attackers list and the framework
\* agree on it.
LEMMA AttackedByAttackers ==
  ASSUME TypeOK, NEW R, StepFramework(R), NEW S \in SUBSET Arg, NEW x \in Arg
  PROVE  Attacked(R, S, x) <=> \E y \in Attackers(x) : <<y, x>> \in R /\ y \in S
<1>1. ASSUME NEW y \in S, <<y, x>> \in R PROVE y \in Attackers(x)
  BY <1>1 DEF StepFramework, Attackers
<1> QED BY <1>1 DEF Attacked

\* createConflictFreenessEncodingConstraints: no accepted argument is attacked.
LEMMA ConflictFreenessTrue ==
  ASSUME TypeOK, NEW s, NEW h, NEW n, Encodes(s, h, n), NEW A, NEW R, StepFramework(R),
         NEW S \in SUBSET Arg, ReadsAttacks(h, A, R, S)
  PROVE  Satisfies(A, ConflictFreenessClauses(h)) <=>
           \A x \in S : ~Attacked(R, S, x)
<1>1. ASSUME NEW x \in Arg, NEW y \in Attackers(x)
      PROVE  (\E l \in {-h.var[x], -AttackerLit(h, x, y)} : IsTrue(A, l)) <=>
               ~(x \in S /\ <<y, x>> \in R /\ y \in S)
  <2>1. /\ IsTrue(A, -h.var[x]) <=> h.var[x] \notin A
        /\ h.var[x] \in A <=> x \in S
    BY ArgumentVars, PositiveTrue DEF ReadsAttacks
  <2>2. /\ IsTrue(A, -AttackerLit(h, x, y)) <=> AttackerLit(h, x, y) \notin A
        /\ AttackerLit(h, x, y) \in A <=> <<y, x>> \in R /\ y \in S
    BY AttackerTrue, PositiveTrue
  <2> QED BY <2>1, <2>2
<1>2. Satisfies(A, ConflictFreenessClauses(h)) <=>
        \A x \in Arg : \A y \in Attackers(x) :
          \E l \in {-h.var[x], -AttackerLit(h, x, y)} : IsTrue(A, l)
  <2> DEFINE true(c) == \E l \in c : IsTrue(A, l)
             c(x, y) == {-h.var[x], -AttackerLit(h, x, y)}
  <2>1. Satisfies(A, ConflictFreenessClauses(h)) <=>
          \A d \in UNION {{c(x, y) : y \in Attackers(x)} : x \in Arg} : true(d)
    BY DEF Satisfies, ConflictFreenessClauses
  <2> HIDE DEF true, c
  <2>2. Satisfies(A, ConflictFreenessClauses(h)) <=>
          \A x \in Arg : \A y \in Attackers(x) : true(c(x, y))
    BY <2>1
  <2> QED BY <2>2 DEF true, c
<1>3. Satisfies(A, ConflictFreenessClauses(h)) <=>
        \A x \in Arg : \A y \in Attackers(x) : ~(x \in S /\ <<y, x>> \in R /\ y \in S)
  BY <1>1, <1>2
<1> QED BY <1>3, AttackedByAttackers

\* createStableEncodingConstraints: the accepted arguments are those that no
\* accepted one attacks.
LEMMA StableTrue ==
  ASSUME TypeOK, NEW s, NEW h, NEW n, Encodes(s, h, n), NEW A, NEW R, StepFramework(R),
         NEW S \in SUBSET Arg, ReadsAttacks(h, A, R, S)
  PROVE  Satisfies(A, StableClauses(h)) <=>
           \A x \in Arg : x \in S <=> ~Attacked(R, S, x)
<1>1. ASSUME NEW x \in Arg
      PROVE  (\E l \in {h.var[x]} \cup {AttackerLit(h, x, y) : y \in Attackers(x)} : IsTrue(A, l))
               <=> x \in S \/ Attacked(R, S, x)
  <2>1. IsTrue(A, h.var[x]) <=> x \in S
    BY ArgumentVars, PositiveTrue DEF ReadsAttacks
  <2>2. \A y \in Attackers(x) :
          IsTrue(A, AttackerLit(h, x, y)) <=> <<y, x>> \in R /\ y \in S
    BY AttackerTrue, PositiveTrue
  <2>3. (\E l \in {h.var[x]} \cup {AttackerLit(h, x, y) : y \in Attackers(x)} : IsTrue(A, l))
          <=> x \in S \/ \E y \in Attackers(x) : <<y, x>> \in R /\ y \in S
    BY <2>1, <2>2
  <2> QED BY <2>3, AttackedByAttackers
<1>2. ASSUME NEW x \in Arg, NEW y \in Attackers(x)
      PROVE  (\E l \in {-h.var[x], -AttackerLit(h, x, y)} : IsTrue(A, l)) <=>
               ~(x \in S /\ <<y, x>> \in R /\ y \in S)
  <2>1. /\ IsTrue(A, -h.var[x]) <=> h.var[x] \notin A
        /\ h.var[x] \in A <=> x \in S
    BY ArgumentVars, PositiveTrue DEF ReadsAttacks
  <2>2. /\ IsTrue(A, -AttackerLit(h, x, y)) <=> AttackerLit(h, x, y) \notin A
        /\ AttackerLit(h, x, y) \in A <=> <<y, x>> \in R /\ y \in S
    BY AttackerTrue, PositiveTrue
  <2> QED BY <2>1, <2>2
<1>3. Satisfies(A, StableClauses(h)) <=>
        \A x \in Arg :
          /\ \E l \in {h.var[x]} \cup {AttackerLit(h, x, y) : y \in Attackers(x)} : IsTrue(A, l)
          /\ \A y \in Attackers(x) : \E l \in {-h.var[x], -AttackerLit(h, x, y)} : IsTrue(A, l)
  <2> DEFINE true(c) == \E l \in c : IsTrue(A, l)
             c1(x) == {h.var[x]} \cup {AttackerLit(h, x, y) : y \in Attackers(x)}
             c2(x, y) == {-h.var[x], -AttackerLit(h, x, y)}
  <2>1. Satisfies(A, StableClauses(h)) <=>
          \A d \in UNION {{c1(x)} \cup {c2(x, y) : y \in Attackers(x)} : x \in Arg} : true(d)
    BY DEF Satisfies, StableClauses
  <2> HIDE DEF true, c1, c2
  <2>2. Satisfies(A, StableClauses(h)) <=>
          \A x \in Arg : true(c1(x)) /\ \A y \in Attackers(x) : true(c2(x, y))
    BY <2>1
  <2> QED BY <2>2 DEF true, c1, c2
<1>4. Satisfies(A, StableClauses(h)) <=>
        \A x \in Arg :
          /\ x \in S \/ Attacked(R, S, x)
          /\ \A y \in Attackers(x) : ~(x \in S /\ <<y, x>> \in R /\ y \in S)
  BY <1>1, <1>2, <1>3
<1> QED BY <1>4, AttackedByAttackers

\* createAttackersDisjunctionVars: the variable of the disjunction is true when
\* the argument is attacked, and then it is not accepted.
LEMMA DisjunctionTrue ==
  ASSUME TypeOK, NEW s, NEW h, NEW n, Encodes(s, h, n), NEW A, NEW R, StepFramework(R),
         NEW S \in SUBSET Arg, ReadsAttacks(h, A, R, S)
  PROVE  Satisfies(A, DisjunctionClauses(h)) <=>
           /\ \A x \in Arg : h.disj[x] \in A <=> Attacked(R, S, x)
           /\ \A x \in S : ~Attacked(R, S, x)
<1>1. ASSUME NEW x \in Arg
      PROVE  /\ (\E l \in {-h.var[x], -h.disj[x]} : IsTrue(A, l)) <=>
                  ~(x \in S /\ h.disj[x] \in A)
             /\ (\E l \in {-h.disj[x]} \cup {AttackerLit(h, x, y) : y \in Attackers(x)} : IsTrue(A, l))
                  <=> (h.disj[x] \in A => Attacked(R, S, x))
  <2>1. /\ IsTrue(A, -h.var[x]) <=> x \notin S
        /\ IsTrue(A, -h.disj[x]) <=> h.disj[x] \notin A
    BY ArgumentVars, PositiveTrue DEF ReadsAttacks
  <2>2. \A y \in Attackers(x) :
          IsTrue(A, AttackerLit(h, x, y)) <=> <<y, x>> \in R /\ y \in S
    BY AttackerTrue, PositiveTrue
  <2>3. (\E l \in {-h.disj[x]} \cup {AttackerLit(h, x, y) : y \in Attackers(x)} : IsTrue(A, l))
          <=> h.disj[x] \notin A \/ \E y \in Attackers(x) : <<y, x>> \in R /\ y \in S
    BY <2>1, <2>2
  <2> QED BY <2>1, <2>3, AttackedByAttackers
<1>2. ASSUME NEW x \in Arg, NEW y \in Attackers(x)
      PROVE  (\E l \in {h.disj[x], -AttackerLit(h, x, y)} : IsTrue(A, l)) <=>
               (<<y, x>> \in R /\ y \in S => h.disj[x] \in A)
  <2>1. IsTrue(A, h.disj[x]) <=> h.disj[x] \in A
    BY ArgumentVars, PositiveTrue
  <2>2. /\ IsTrue(A, -AttackerLit(h, x, y)) <=> AttackerLit(h, x, y) \notin A
        /\ AttackerLit(h, x, y) \in A <=> <<y, x>> \in R /\ y \in S
    BY AttackerTrue, PositiveTrue
  <2> QED BY <2>1, <2>2
<1>3. Satisfies(A, DisjunctionClauses(h)) <=>
        \A x \in Arg :
          /\ \E l \in {-h.var[x], -h.disj[x]} : IsTrue(A, l)
          /\ \E l \in {-h.disj[x]} \cup {AttackerLit(h, x, y) : y \in Attackers(x)} : IsTrue(A, l)
          /\ \A y \in Attackers(x) : \E l \in {h.disj[x], -AttackerLit(h, x, y)} : IsTrue(A, l)
  <2> DEFINE true(c) == \E l \in c : IsTrue(A, l)
             c1(x) == {-h.disj[x]} \cup {AttackerLit(h, x, y) : y \in Attackers(x)}
             c2(x, y) == {h.disj[x], -AttackerLit(h, x, y)}
             c3(x) == {-h.var[x], -h.disj[x]}
  <2>1. Satisfies(A, DisjunctionClauses(h)) <=>
          \A d \in UNION {{c3(x), c1(x)} \cup {c2(x, y) : y \in Attackers(x)} : x \in Arg} : true(d)
    BY DEF Satisfies, DisjunctionClauses
  <2> HIDE DEF true, c1, c2, c3
  <2>2. Satisfies(A, DisjunctionClauses(h)) <=>
          \A x \in Arg : true(c3(x)) /\ true(c1(x)) /\ \A y \in Attackers(x) : true(c2(x, y))
    BY <2>1
  <2> QED BY <2>2 DEF true, c1, c2, c3
<1>4. Satisfies(A, DisjunctionClauses(h)) <=>
        \A x \in Arg :
          /\ ~(x \in S /\ h.disj[x] \in A)
          /\ h.disj[x] \in A => Attacked(R, S, x)
          /\ \A y \in Attackers(x) : <<y, x>> \in R /\ y \in S => h.disj[x] \in A
  BY <1>1, <1>2, <1>3
<1>5. ASSUME NEW x \in Arg
      PROVE  (\A y \in Attackers(x) : <<y, x>> \in R /\ y \in S => h.disj[x] \in A) <=>
               (Attacked(R, S, x) => h.disj[x] \in A)
  BY AttackedByAttackers
<1>6. Satisfies(A, DisjunctionClauses(h)) <=>
        \A x \in Arg : /\ ~(x \in S /\ h.disj[x] \in A)
                       /\ h.disj[x] \in A => Attacked(R, S, x)
                       /\ Attacked(R, S, x) => h.disj[x] \in A
  BY <1>4, <1>5
<1> QED BY <1>6

\* createCompleteEncodingConstraints: the accepted arguments are those whose
\* attackers are all attacked.
LEMMA CompleteTrue ==
  ASSUME TypeOK, NEW s, NEW h, NEW n, Encodes(s, h, n), s # "ST", NEW A, NEW R,
         StepFramework(R), NEW S \in SUBSET Arg,
         ReadsAttacks(h, A, R, S), ReadsDefence(h, A, R, S)
  PROVE  Satisfies(A, CompleteClauses(h)) <=> S = Defended(Arg, R, S)
<1> DEFINE hit(x, y) == <<y, x>> \in R => Attacked(R, S, y)
<1>1. ASSUME NEW x \in Arg
      PROVE  (\E l \in {h.var[x]} \cup {-AttackedLit(h, x, y) : y \in Attackers(x)} : IsTrue(A, l))
               <=> x \in S \/ \E y \in Attackers(x) : ~hit(x, y)
  <2>1. IsTrue(A, h.var[x]) <=> x \in S
    BY ArgumentVars, PositiveTrue DEF ReadsAttacks
  <2>2. \A y \in Attackers(x) : IsTrue(A, -AttackedLit(h, x, y)) <=> ~hit(x, y)
    BY AttackedTrue
  <2> QED BY <2>1, <2>2
<1>2. ASSUME NEW x \in Arg, NEW y \in Attackers(x)
      PROVE  (\E l \in {-h.var[x], AttackedLit(h, x, y)} : IsTrue(A, l)) <=>
               (x \in S => hit(x, y))
  <2>1. IsTrue(A, -h.var[x]) <=> x \notin S
    BY ArgumentVars, PositiveTrue DEF ReadsAttacks
  <2>2. IsTrue(A, AttackedLit(h, x, y)) <=> hit(x, y)
    BY AttackedTrue
  <2> QED BY <2>1, <2>2
<1>3. Satisfies(A, CompleteClauses(h)) <=>
        \A x \in Arg :
          /\ \E l \in {h.var[x]} \cup {-AttackedLit(h, x, y) : y \in Attackers(x)} : IsTrue(A, l)
          /\ \A y \in Attackers(x) : \E l \in {-h.var[x], AttackedLit(h, x, y)} : IsTrue(A, l)
  <2> DEFINE true(c) == \E l \in c : IsTrue(A, l)
             c1(x) == {h.var[x]} \cup {-AttackedLit(h, x, y) : y \in Attackers(x)}
             c2(x, y) == {-h.var[x], AttackedLit(h, x, y)}
  <2>1. Satisfies(A, CompleteClauses(h)) <=>
          \A d \in UNION {{c1(x)} \cup {c2(x, y) : y \in Attackers(x)} : x \in Arg} : true(d)
    BY DEF Satisfies, CompleteClauses
  <2> HIDE DEF true, c1, c2
  <2>2. Satisfies(A, CompleteClauses(h)) <=>
          \A x \in Arg : true(c1(x)) /\ \A y \in Attackers(x) : true(c2(x, y))
    BY <2>1
  <2> QED BY <2>2 DEF true, c1, c2
<1> HIDE DEF hit
<1>4. Satisfies(A, CompleteClauses(h)) <=>
        \A x \in Arg : x \in S <=> \A y \in Attackers(x) : hit(x, y)
  BY <1>1, <1>2, <1>3
<1>5. ASSUME NEW x \in Arg
      PROVE  (\A y \in Attackers(x) : hit(x, y)) <=> x \in Defended(Arg, R, S)
  <2>1. \A y \in Arg : <<y, x>> \in R => y \in Attackers(x)
    BY DEF StepFramework, Attackers
  <2>2. Attackers(x) \subseteq Arg
    BY DEF Attackers
  <2> QED BY <2>1, <2>2 DEF hit, Defended
<1>6. Defended(Arg, R, S) \subseteq Arg
  BY DEF Defended
<1> QED BY <1>4, <1>5, <1>6

----------------------------------------------------------------------------
(* The clauses of the solvers' init stand for the sets of Encoded *)

\* The accepted arguments of a model, under the assumptions of a step, are a set
\* that the semantics of the encoding allows in the framework of the step.
LEMMA EncodingSound ==
  ASSUME TypeOK, NEW s, NEW h, NEW n, Encodes(s, h, n), NEW A, NEW R, StepFramework(R),
         Satisfies(A, ClausesOf(s, h)), \A p \in DynPairs : Assump(h, p) \in A <=> p \in R,
         NEW S, S = {x \in Arg : h.var[x] \in A}
  PROVE  /\ S \in Encoded(s, R)
         /\ ReadsAttacks(h, A, R, S)
         /\ s # "ST" => ReadsDefence(h, A, R, S)
<1>1. S \in SUBSET Arg
  OBVIOUS
<1>2. /\ Satisfies(A, DynClauses(h))
      /\ s = "ST" => Satisfies(A, StableClauses(h))
      /\ s # "ST" => Satisfies(A, DisjunctionClauses(h))
      /\ s = "STG" => Satisfies(A, ConflictFreenessClauses(h))
      /\ s # "ST" /\ s # "STG" => Satisfies(A, CompleteClauses(h))
  BY DEF ClausesOf, Satisfies
<1>3. \A p \in DynPairs :
        /\ Repl(h, p) \in A <=> h.var[p[1]] \in A /\ Assump(h, p) \in A
        /\ s # "ST" =>
             (NotAttacked(h, p) \in A <=> h.disj[p[1]] \notin A /\ Assump(h, p) \in A)
  BY <1>2, DynClausesTrue
<1>4. \A p \in DynPairs : p[1] \in Arg
  BY PairEnds
<1>5. ReadsAttacks(h, A, R, S)
  BY <1>3, <1>4 DEF ReadsAttacks
<1>6. CASE s = "ST"
  <2>1. \A x \in Arg : x \in S <=> ~Attacked(R, S, x)
    BY <1>1, <1>2, <1>5, <1>6, StableTrue
  <2>2. S \in Stable(Arg, R)
    BY <1>1, <2>1 DEF Stable, ConflictFree, Attacked
  <2> QED BY <1>5, <1>6, <2>2 DEF Encoded
<1>7. CASE s # "ST"
  <2>1. /\ \A x \in Arg : h.disj[x] \in A <=> Attacked(R, S, x)
        /\ \A x \in S : ~Attacked(R, S, x)
    BY <1>1, <1>2, <1>5, <1>7, DisjunctionTrue
  <2>2. ReadsDefence(h, A, R, S)
    BY <1>3, <1>4, <1>7, <2>1 DEF ReadsDefence
  <2>3. ConflictFree(R, S)
    BY <2>1 DEF ConflictFree, Attacked
  <2>4. CASE s = "STG"
    BY <1>1, <1>5, <2>2, <2>3, <2>4 DEF Encoded
  <2>5. CASE s # "STG"
    <3>1. S = Defended(Arg, R, S)
      BY <1>1, <1>2, <1>5, <1>7, <2>2, <2>5, CompleteTrue
    <3>2. S \in Complete(Arg, R)
      BY <1>1, <2>3, <3>1 DEF Complete
    <3> QED BY <1>5, <1>7, <2>2, <2>5, <3>2 DEF Encoded
  <2> QED BY <2>4, <2>5
<1> QED BY <1>6, <1>7

\* Conversely an assignment that reads as such a set is a model.
LEMMA EncodingComplete ==
  ASSUME TypeOK, NEW s, NEW h, NEW n, Encodes(s, h, n), NEW A, NEW R, StepFramework(R),
         NEW S \in Encoded(s, R), ReadsAttacks(h, A, R, S),
         s # "ST" => ReadsDefence(h, A, R, S)
  PROVE  Satisfies(A, ClausesOf(s, h))
<1>1. S \in SUBSET Arg
  BY DEF Encoded, Stable, Complete
<1>2. \A p \in DynPairs : p[1] \in Arg
  BY PairEnds
<1>3. Satisfies(A, DynClauses(h))
  <2>1. ASSUME NEW p \in DynPairs
        PROVE  /\ Repl(h, p) \in A <=> h.var[p[1]] \in A /\ Assump(h, p) \in A
               /\ s # "ST" =>
                    (NotAttacked(h, p) \in A <=> h.disj[p[1]] \notin A /\ Assump(h, p) \in A)
    BY <1>2 DEF ReadsAttacks, ReadsDefence
  <2> QED BY <2>1, DynClausesTrue
<1>4. CASE s = "ST"
  <2>1. S \in Stable(Arg, R)
    BY <1>4 DEF Encoded
  <2>2. \A x \in Arg : x \in S <=> ~Attacked(R, S, x)
    BY <2>1 DEF Stable, ConflictFree, Attacked
  <2>3. Satisfies(A, StableClauses(h))
    BY <1>1, <2>2, StableTrue
  <2> QED BY <1>3, <1>4, <2>3 DEF ClausesOf, Satisfies
<1>5. CASE s # "ST"
  <2>1. ReadsDefence(h, A, R, S) /\ ConflictFree(R, S)
    BY <1>5 DEF Encoded, Complete
  <2>2. \A x \in S : ~Attacked(R, S, x)
    BY <2>1 DEF ConflictFree, Attacked
  <2>3. Satisfies(A, DisjunctionClauses(h))
    BY <1>1, <2>1, <2>2, DisjunctionTrue DEF ReadsDefence
  <2>4. CASE s = "STG"
    <3>1. Satisfies(A, ConflictFreenessClauses(h))
      BY <1>1, <2>2, ConflictFreenessTrue
    <3> QED BY <1>3, <1>5, <2>3, <2>4, <3>1 DEF ClausesOf, Satisfies
  <2>5. CASE s # "STG"
    <3>1. S = Defended(Arg, R, S)
      BY <1>5, <2>5 DEF Encoded, Complete
    <3>2. Satisfies(A, CompleteClauses(h))
      BY <1>1, <1>5, <2>1, <3>1, CompleteTrue
    <3> QED BY <1>3, <1>5, <2>3, <2>5, <3>2 DEF ClausesOf, Satisfies
  <2> QED BY <2>4, <2>5
<1> QED BY <1>4, <1>5

\* The assignment that reads as R and S.
Canonical(s, h, R, S) ==
  {h.var[x] : x \in S}
  \cup {Assump(h, p) : p \in DynPairs \cap R}
  \cup {Repl(h, p) : p \in {q \in DynPairs \cap R : q[1] \in S}}
  \cup {h.disj[x] : x \in {y \in Arg : s # "ST" /\ Attacked(R, S, y)}}
  \cup {NotAttacked(h, p) :
          p \in {q \in DynPairs \cap R : s # "ST" /\ ~Attacked(R, S, q[1])}}

\* The reading of a set gives every auxiliary variable the value that its name says.
LEMMA CanonicalReads ==
  ASSUME TypeOK, NEW s, NEW h, NEW n, Encodes(s, h, n), NEW R, NEW S \in SUBSET Arg,
         \A x, y \in Arg : h.var[x] = h.var[y] => (x \in S <=> y \in S)
  PROVE  /\ Canonical(s, h, R, S) \in SUBSET (1..NbVarsOf(h))
         /\ ReadsAttacks(h, Canonical(s, h, R, S), R, S)
         /\ s # "ST" => ReadsDefence(h, Canonical(s, h, R, S), R, S)
<1> DEFINE A == Canonical(s, h, R, S)
           A1 == {h.var[x] : x \in S}
           A2 == {Assump(h, p) : p \in DynPairs \cap R}
           A3 == {Repl(h, p) : p \in {q \in DynPairs \cap R : q[1] \in S}}
           A4 == {h.disj[x] : x \in {y \in Arg : s # "ST" /\ Attacked(R, S, y)}}
           A5 == {NotAttacked(h, p) :
                    p \in {q \in DynPairs \cap R : s # "ST" /\ ~Attacked(R, S, q[1])}}
<1>1. A = A1 \cup A2 \cup A3 \cup A4 \cup A5
  BY DEF Canonical
<1>2. /\ n \in Nat /\ h.base \in Nat /\ n <= h.base
      /\ NbVarsOf(h) \in Nat /\ h.base <= NbVarsOf(h)
  BY HelperVars
<1>3. /\ \A v \in A1 : v \in Nat \ {0} /\ v <= n
      /\ \A v \in A2 : v \in Nat /\ v > h.base /\ v <= NbVarsOf(h)
      /\ \A v \in A3 : v \in Nat /\ v > h.base /\ v <= NbVarsOf(h)
      /\ \A v \in A4 : s # "ST" /\ v \in Nat /\ v > n /\ v <= h.base
      /\ \A v \in A5 : s # "ST" /\ v \in Nat /\ v > h.base /\ v <= NbVarsOf(h)
  BY HelperVars
<1>4. A \in SUBSET (1..NbVarsOf(h))
  <2> HIDE DEF A, A1, A2, A3, A4, A5
  <2>1. ASSUME NEW v \in A PROVE v \in Nat /\ 1 <= v /\ v <= NbVarsOf(h)
    BY <1>1, <1>2, <1>3
  <2> QED BY <1>2, <2>1
<1>5. ASSUME NEW x \in Arg PROVE h.var[x] \in A <=> x \in S
  <2>1. h.var[x] \in Nat \ {0} /\ h.var[x] <= n
    BY ArgumentVars
  <2>2. h.var[x] \in A1 <=> x \in S
    OBVIOUS
  <2> HIDE DEF A, A1, A2, A3, A4, A5
  <2>3. h.var[x] \notin A2 /\ h.var[x] \notin A3 /\ h.var[x] \notin A4 /\ h.var[x] \notin A5
    BY <1>2, <1>3, <2>1
  <2> QED BY <1>1, <2>2, <2>3
<1>6. ASSUME NEW p \in DynPairs
      PROVE  /\ Assump(h, p) \in A <=> p \in R
             /\ Repl(h, p) \in A <=> p \in R /\ p[1] \in S
  <2>1. /\ Assump(h, p) \in Nat /\ Assump(h, p) > h.base
        /\ Repl(h, p) \in Nat /\ Repl(h, p) > h.base
    BY HelperVars
  <2>2. Assump(h, p) \in A2 <=> p \in R
    BY HelperVars
  <2>3. Assump(h, p) \notin A3 /\ Assump(h, p) \notin A5
    BY HelperVars
  <2>4. Repl(h, p) \in A3 <=> p \in R /\ p[1] \in S
    BY HelperVars
  <2>5. Repl(h, p) \notin A2 /\ Repl(h, p) \notin A5
    BY HelperVars
  <2> HIDE DEF A, A1, A2, A3, A4, A5
  <2>6. /\ Assump(h, p) \notin A1 /\ Assump(h, p) \notin A4
        /\ Repl(h, p) \notin A1 /\ Repl(h, p) \notin A4
    BY <1>2, <1>3, <2>1
  <2> QED BY <1>1, <2>2, <2>3, <2>4, <2>5, <2>6
<1>7. ASSUME s # "ST", NEW x \in Arg PROVE h.disj[x] \in A <=> Attacked(R, S, x)
  <2>1. h.disj[x] \in Nat /\ h.disj[x] > n /\ h.disj[x] <= h.base
    BY <1>7, HelperVars
  <2>2. h.disj[x] \in A4 <=> Attacked(R, S, x)
    BY <1>7, HelperVars
  <2> HIDE DEF A, A1, A2, A3, A4, A5
  <2>3. h.disj[x] \notin A1 /\ h.disj[x] \notin A2 /\ h.disj[x] \notin A3 /\ h.disj[x] \notin A5
    BY <1>2, <1>3, <2>1
  <2> QED BY <1>1, <2>2, <2>3
<1>8. ASSUME s # "ST", NEW p \in DynPairs
      PROVE  NotAttacked(h, p) \in A <=> p \in R /\ ~Attacked(R, S, p[1])
  <2>1. NotAttacked(h, p) \in Nat /\ NotAttacked(h, p) > h.base
    BY <1>8, HelperVars
  <2>2. NotAttacked(h, p) \in A5 <=> p \in R /\ ~Attacked(R, S, p[1])
    BY <1>8, HelperVars
  <2>3. NotAttacked(h, p) \notin A2 /\ NotAttacked(h, p) \notin A3
    BY <1>8, HelperVars
  <2> HIDE DEF A, A1, A2, A3, A4, A5
  <2>4. NotAttacked(h, p) \notin A1 /\ NotAttacked(h, p) \notin A4
    BY <1>2, <1>3, <2>1
  <2> QED BY <1>1, <2>2, <2>3, <2>4
<1> QED BY <1>4, <1>5, <1>6, <1>7, <1>8 DEF ReadsAttacks, ReadsDefence

\* The clauses are built from finitely many variables, those that newVar has been
\* told of.
LEMMA ClausesRange ==
  ASSUME TypeOK, NEW s, NEW h, NEW n, Encodes(s, h, n)
  PROVE  /\ \A c \in ClausesOf(s, h) : \A l \in c : l # 0 /\ l \in (-NbVarsOf(h))..NbVarsOf(h)
         /\ Clausal(ClausesOf(s, h))
<1> DEFINE N == NbVarsOf(h)
           L == {l \in (-N)..N : l # 0}
<1>1. n \in Nat /\ h.base \in Nat /\ n <= h.base /\ N \in Nat /\ h.base <= N
  BY HelperVars
<1>2. \A v \in Nat : v # 0 /\ v <= N => v \in L /\ -v \in L
  BY <1>1
<1>3. ASSUME NEW x \in Arg
      PROVE  /\ h.var[x] \in L /\ -h.var[x] \in L
             /\ s # "ST" => h.disj[x] \in L /\ -h.disj[x] \in L
  <2>1. /\ h.var[x] \in Nat \ {0} /\ h.var[x] <= n
        /\ h.disj[x] \in Nat \ {0}
    BY ArgumentVars
  <2>2. s # "ST" => h.disj[x] <= h.base
    BY HelperVars
  <2> HIDE DEF L
  <2> QED BY <1>1, <1>2, <2>1, <2>2
<1>4. ASSUME NEW p \in DynPairs
      PROVE  /\ p[1] \in Arg
             /\ Repl(h, p) \in L /\ -Repl(h, p) \in L
             /\ Assump(h, p) \in L /\ -Assump(h, p) \in L
             /\ s # "ST" => NotAttacked(h, p) \in L /\ -NotAttacked(h, p) \in L
  <2>1. p[1] \in Arg
    BY PairEnds
  <2>2. /\ Repl(h, p) \in Nat /\ Repl(h, p) > h.base /\ Repl(h, p) <= N
        /\ Assump(h, p) \in Nat /\ Assump(h, p) > h.base /\ Assump(h, p) <= N
        /\ s # "ST" => NotAttacked(h, p) \in Nat /\ NotAttacked(h, p) > h.base
                       /\ NotAttacked(h, p) <= N
    BY HelperVars
  <2> HIDE DEF L
  <2> QED BY <1>1, <1>2, <2>1, <2>2
<1>5. ASSUME NEW x \in Arg, NEW y \in Attackers(x)
      PROVE  /\ AttackerLit(h, x, y) \in L /\ -AttackerLit(h, x, y) \in L
             /\ s # "ST" => AttackedLit(h, x, y) \in L /\ -AttackedLit(h, x, y) \in L
  <2>1. y \in Arg
    BY DEF Attackers
  <2>2. \A v \in L : -(-v) = v
    BY <1>1
  <2> HIDE DEF L
  <2> QED BY <1>3, <1>4, <2>1, <2>2 DEF AttackerLit, AttackedLit
<1>6. ASSUME NEW c \in ClausesOf(s, h) PROVE c \subseteq L
  <2> HIDE DEF L
  <2>1. CASE c \in UNION {Both(Repl(h, p), h.var[p[1]], Assump(h, p)) : p \in DynPairs}
    BY <1>3, <1>4, <2>1 DEF Both
  <2>2. CASE s # "ST" /\ c \in UNION {Both(NotAttacked(h, p), -h.disj[p[1]], Assump(h, p)) : p \in DynPairs}
    <3>1. PICK p \in DynPairs : c \in Both(NotAttacked(h, p), -h.disj[p[1]], Assump(h, p))
      BY <2>2
    <3>2. p[1] \in Arg /\ h.disj[p[1]] \in Nat
      BY <1>4, ArgumentVars
    <3>3. -(-h.disj[p[1]]) = h.disj[p[1]]
      BY <3>2
    <3> QED BY <1>3, <1>4, <2>2, <3>1, <3>2, <3>3 DEF Both
  <2>3. CASE s = "ST" /\ c \in StableClauses(h)
    BY <1>3, <1>5, <2>3 DEF StableClauses
  <2>4. CASE s # "ST" /\ c \in DisjunctionClauses(h)
    BY <1>3, <1>5, <2>4 DEF DisjunctionClauses
  <2>5. CASE c \in ConflictFreenessClauses(h)
    BY <1>3, <1>5, <2>5 DEF ConflictFreenessClauses
  <2>6. CASE s # "ST" /\ c \in CompleteClauses(h)
    BY <1>3, <1>5, <2>6 DEF CompleteClauses
  <2>7. c \in DynClauses(h) =>
          \/ c \in UNION {Both(Repl(h, p), h.var[p[1]], Assump(h, p)) : p \in DynPairs}
          \/ s # "ST" /\ c \in UNION {Both(NotAttacked(h, p), -h.disj[p[1]], Assump(h, p)) : p \in DynPairs}
    <3>1. reserveNotAttackedRepl <=> s # "ST"
      BY DEF Encodes
    <3> QED BY <3>1 DEF DynClauses
  <2>8. \/ c \in DynClauses(h)
        \/ s = "ST" /\ c \in StableClauses(h)
        \/ s # "ST" /\ c \in DisjunctionClauses(h)
        \/ c \in ConflictFreenessClauses(h)
        \/ s # "ST" /\ c \in CompleteClauses(h)
    BY DEF ClausesOf
  <2> QED BY <2>1, <2>2, <2>3, <2>4, <2>5, <2>6, <2>7, <2>8
<1>7. IsFiniteSet((-N)..N) /\ L \in SUBSET ((-N)..N)
  <2>1. -N \in Int /\ N \in Int
    BY <1>1
  <2> HIDE DEF N
  <2>2. IsFiniteSet((-N)..N)
    BY <2>1, FS_Interval
  <2> QED BY <2>2
<1>8. UNION ClausesOf(s, h) \in SUBSET L
  <2> HIDE DEF L
  <2> QED BY <1>6
<1>9. IsFiniteSet(L)
  <2> HIDE DEF L, N
  <2> QED BY <1>7, FS_Subset
<1>10. IsFiniteSet(UNION ClausesOf(s, h))
  <2> HIDE DEF L
  <2> QED BY <1>8, <1>9, FS_Subset
<1>11. L \subseteq Literal
  BY DEF Literal
<1> QED BY <1>6, <1>8, <1>10, <1>11 DEF Clausal

----------------------------------------------------------------------------
(* The problem reduction *)

\* The encoding that the reduction propagates in: each argument has the variable
\* of its position.
InitialHelper(s) == HelperOf(s, InitialVar, NbArgs)

\* The map that SatProblemReducer::search starts from has a variable for each argument.
LEMMA InitialEncodes ==
  ASSUME NEW s, reserveNotAttackedRepl = (s # "ST")
  PROVE  Encodes(s, InitialHelper(s), NbArgs)
<1>1. NbArgs = Len(Order) /\ NbArgs \in Nat
  BY Positions DEF NbArgs
<1>2. InitialVar \in [Arg -> 1..NbArgs]
  BY <1>1, Positions DEF InitialVar
<1> QED BY <1>1, <1>2 DEF Encodes, InitialHelper, HelperOf

\* Every extension of every step is a model of it: the dynamic attacks are open.
LEMMA InitialModel ==
  ASSUME TypeOK, NEW s, reserveNotAttackedRepl = (s # "ST"),
         NEW R, StepFramework(R), NEW S \in Encoded(s, R)
  PROVE  \E A \in Assignments :
           /\ Satisfies(A, ClausesOf(s, InitialHelper(s)))
           /\ \A x \in Arg : Position(x) \in A <=> x \in S
<1> DEFINE h == InitialHelper(s)
           A == Canonical(s, h, R, S)
<1>1. Encodes(s, h, NbArgs)
  BY InitialEncodes
<1>2. \A x \in Arg : h.var[x] = Position(x)
  BY DEF InitialHelper, HelperOf, InitialVar
<1>3. S \in SUBSET Arg
  BY DEF Encoded, Stable, Complete
<1> HIDE DEF h
<1>4. \A x, y \in Arg : h.var[x] = h.var[y] => (x \in S <=> y \in S)
  BY <1>2, Positions
<1>5. /\ A \in SUBSET (1..NbVarsOf(h))
      /\ ReadsAttacks(h, A, R, S)
      /\ s # "ST" => ReadsDefence(h, A, R, S)
  BY <1>1, <1>3, <1>4, CanonicalReads
<1> HIDE DEF A
<1>6. Satisfies(A, ClausesOf(s, h))
  BY <1>1, <1>5, EncodingComplete
<1>7. A \in Assignments
  <2>1. NbVarsOf(h) \in Nat
    BY <1>1, HelperVars
  <2> QED BY <1>5, <2>1 DEF Assignments
<1>8. \A x \in Arg : Position(x) \in A <=> x \in S
  BY <1>2, <1>5 DEF ReadsAttacks
<1> QED BY <1>6, <1>7, <1>8 DEF h

\* What propagation fixes or makes equal agrees with every model.
LEMMA FixedSound ==
  ASSUME NEW F, Clausal(F), NEW A, Satisfies(A, F), NEW fixed \in FixedLiterals(F)
  PROVE  fixed \subseteq ArgVars \cup Neg(ArgVars) /\ Agrees(A, fixed)
<1> DEFINE T == Reachable(F, {}) \cap (ArgVars \cup Neg(ArgVars))
<1>1. fixed \in SUBSET T
  BY DEF FixedLiterals
<1>2. Agrees(A, Reachable(F, {}))
  <2>1. Agrees(A, {}) /\ {} \in SUBSET Literal
    BY DEF Agrees
  <2> QED BY <2>1, ReachableSound
<1> QED BY <1>1, <1>2 DEF Agrees

\* A pair that computePropagationsOf may find is an implication of the formula.
LEMMA PropagatedSound ==
  ASSUME NEW F, Clausal(F), NEW A, Satisfies(A, F),
         NEW propagated \in PropagatedPairs(F), NEW v, NEW w, <<v, w>> \in propagated
  PROVE  v \in ArgVars /\ w \in ArgVars /\ (v \in A => w \in A)
<1> DEFINE found(u) == {<<u, t>> : t \in (Reachable(F, {u}) \cap ArgVars) \ {u}}
<1>1. \E u \in ArgVars : <<v, w>> \in found(u)
  <2> DEFINE failed == {u \in ArgVars : Conflict(F, Propagate(F, {u}))}
             sure   == UNION {found(u) : u \in ArgVars \ failed}
             unsure == UNION {found(u) : u \in failed}
  <2>1. PropagatedPairs(F) = {sure \cup P : P \in SUBSET unsure}
    BY DEF PropagatedPairs
  <2>2. PICK P \in SUBSET unsure : propagated = sure \cup P
    BY <2>1
  <2>3. <<v, w>> \in sure \/ <<v, w>> \in unsure
    BY <2>2
  <2> HIDE DEF found
  <2> QED BY <2>3
<1>2. v \in ArgVars /\ w \in ArgVars /\ w \in Reachable(F, {v})
  BY <1>1
<1>3. v \in Nat \ {0} /\ w \in Nat \ {0}
  BY <1>2, Positions DEF ArgVars, NbArgs
<1>4. ASSUME v \in A PROVE w \in A
  <2>1. {v} \in SUBSET Literal /\ Agrees(A, {v})
    BY <1>3, <1>4, PositiveTrue DEF Agrees
  <2>2. IsTrue(A, w)
    BY <1>2, <2>1, ReachableSound DEF Agrees
  <2> QED BY <1>3, <2>2, PositiveTrue
<1> QED BY <1>2, <1>4

\* lookForEquivalencesOf for the variable k, from the classes found before it.
ClassStep(fixed, propagated, k, rep) ==
  LET isFixed(v) == v \in fixed \/ -v \in fixed
  IN  IF isFixed(k) \/ rep[k] # k THEN rep
      ELSE [v \in ArgVars |->
              IF /\ v > k /\ ~isFixed(v) /\ rep[v] = v
                 /\ Equivalent(propagated, k, v)
              THEN k ELSE rep[v]]

\* The classes after the first n variables.
ClassesUpTo(fixed, propagated, n, f) ==
  f = [k \in 0..n |-> IF k = 0 THEN [v \in ArgVars |-> v]
                      ELSE ClassStep(fixed, propagated, k, f[k - 1])]

\* The rounds of lookForEquivalencesOf are well defined.
LEMMA ClassesExist ==
  ASSUME NEW fixed, NEW propagated, NEW n \in Nat
  PROVE  \E f : ClassesUpTo(fixed, propagated, n, f)
<1> DEFINE step(k, rep) == ClassStep(fixed, propagated, k, rep)
           upto(m, f) == ClassesUpTo(fixed, propagated, m, f)
           bad == {m \in Nat : ~\E f : upto(m, f)}
<1>1. SUFFICES ASSUME bad # {} PROVE FALSE
  OBVIOUS
<1>2. PICK m \in bad : \A k \in Nat : k < m => k \notin bad
  <2>1. bad \in SUBSET Nat
    OBVIOUS
  <2> HIDE DEF bad
  <2> QED BY <1>1, <2>1, LeastNumber
<1>3. CASE m = 0
  <2> DEFINE f == [k \in 0..0 |-> [v \in ArgVars |-> v]]
  <2>1. upto(0, f)
    BY DEF ClassesUpTo
  <2> QED BY <1>2, <1>3, <2>1
<1>4. CASE m # 0
  <2>1. m - 1 \in Nat /\ m - 1 < m
    BY <1>4
  <2>2. PICK f : upto(m - 1, f)
    BY <1>2, <2>1
  <2> DEFINE g == [k \in 0..m |-> IF k = m THEN step(m, f[m - 1]) ELSE f[k]]
  <2>3. \A k \in 0..(m - 1) : f[k] = IF k = 0 THEN [v \in ArgVars |-> v] ELSE step(k, f[k - 1])
    BY <2>2 DEF ClassesUpTo
  <2>4. \A k \in 0..(m - 1) : g[k] = f[k]
    BY <2>1
  <2>5. g[m] = step(m, f[m - 1])
    BY <1>2
  <2> HIDE DEF step
  <2>6. ASSUME NEW k \in 0..m
        PROVE  g[k] = IF k = 0 THEN [v \in ArgVars |-> v] ELSE step(k, g[k - 1])
    <3>1. CASE k = m
      <4>1. m - 1 \in 0..(m - 1)
        BY <2>1
      <4> QED BY <1>4, <2>4, <2>5, <3>1, <4>1
    <3>2. CASE k # m
      <4>1. k \in 0..(m - 1) /\ (k # 0 => k - 1 \in 0..(m - 1))
        BY <2>1, <3>2
      <4> QED BY <2>3, <2>4, <4>1
    <3> QED BY <3>1, <3>2
  <2>7. g = [k \in 0..m |-> IF k = 0 THEN [v \in ArgVars |-> v] ELSE step(k, g[k - 1])]
    <3>1. g = [k \in 0..m |-> g[k]]
      OBVIOUS
    <3> HIDE DEF g
    <3> QED BY <2>6, <3>1
  <2>8. upto(m, g)
    <3> HIDE DEF g
    <3> QED BY <2>7 DEF ClassesUpTo, step
  <2> QED BY <1>2, <2>8
<1> QED BY <1>3, <1>4

\* After the first k variables: no chain of representatives, none among the fixed
\* variables, and each by propagation in both directions.
ClassesSound(fixed, propagated, k, rep) ==
  /\ rep \in [ArgVars -> ArgVars]
  /\ \A v \in ArgVars : rep[v] # v =>
       /\ rep[v] <= k
       /\ v \notin fixed /\ -v \notin fixed
       /\ rep[v] \notin fixed /\ -rep[v] \notin fixed
       /\ rep[rep[v]] = rep[v]
       /\ Equivalent(propagated, rep[v], v)

\* A round of lookForEquivalencesOf joins variables that imply each other, and no others.
LEMMA ClassStepSound ==
  ASSUME NEW fixed, NEW propagated, NEW k \in Nat \ {0}, k <= NbArgs, NEW rep,
         ClassesSound(fixed, propagated, k - 1, rep)
  PROVE  ClassesSound(fixed, propagated, k, ClassStep(fixed, propagated, k, rep))
<1> DEFINE new == ClassStep(fixed, propagated, k, rep)
<1>0. NbArgs \in Nat /\ ArgVars \subseteq Nat /\ k \in ArgVars
  BY Positions DEF ArgVars, NbArgs
<1>1. CASE k \in fixed \/ -k \in fixed \/ rep[k] # k
  <2>1. new = rep
    BY <1>1 DEF ClassStep
  <2>2. \A v \in ArgVars : rep[v] \in ArgVars
    BY DEF ClassesSound
  <2>3. \A v \in ArgVars : rep[v] <= k - 1 => rep[v] <= k
    <3>1. \A w \in Nat : w <= k - 1 => w <= k
      OBVIOUS
    <3> QED BY <1>0, <2>2, <3>1
  <2> HIDE DEF new
  <2>4. ClassesSound(fixed, propagated, k, rep)
    BY <2>3 DEF ClassesSound
  <2> QED BY <2>1, <2>4 DEF new
<1>2. CASE k \notin fixed /\ -k \notin fixed /\ rep[k] = k
  <2>1. new = [v \in ArgVars |->
                 IF /\ v > k /\ v \notin fixed /\ -v \notin fixed /\ rep[v] = v
                    /\ Equivalent(propagated, k, v)
                 THEN k ELSE rep[v]]
    BY <1>2 DEF ClassStep
  <2>2. new \in [ArgVars -> ArgVars]
    BY <1>0, <2>1 DEF ClassesSound
  <2>3. new[k] = k
    BY <1>0, <1>2, <2>1
  <2> HIDE DEF new
  <2>4. ASSUME NEW v \in ArgVars, new[v] # v
        PROVE  /\ new[v] <= k
               /\ v \notin fixed /\ -v \notin fixed
               /\ new[v] \notin fixed /\ -new[v] \notin fixed
               /\ new[new[v]] = new[v]
               /\ Equivalent(propagated, new[v], v)
    <3>1. CASE new[v] = rep[v]
      <4>1. /\ rep[v] \in ArgVars /\ rep[v] <= k - 1
            /\ v \notin fixed /\ -v \notin fixed
            /\ rep[v] \notin fixed /\ -rep[v] \notin fixed
            /\ rep[rep[v]] = rep[v]
            /\ Equivalent(propagated, rep[v], v)
        BY <2>4, <3>1 DEF ClassesSound
      <4>2. ~(rep[v] > k) /\ rep[v] <= k
        <5>1. \A w \in Nat : w <= k - 1 => ~(w > k) /\ w <= k
          OBVIOUS
        <5> QED BY <1>0, <4>1, <5>1
      <4>3. new[rep[v]] = rep[v]
        BY <2>1, <4>1, <4>2
      <4> QED BY <3>1, <4>1, <4>2, <4>3
    <3>2. CASE new[v] # rep[v]
      <4>1. /\ new[v] = k /\ v \notin fixed /\ -v \notin fixed
            /\ Equivalent(propagated, k, v)
        BY <2>1, <3>2
      <4> QED BY <1>0, <1>2, <2>3, <4>1
    <3> QED BY <3>1, <3>2
  <2>5. ClassesSound(fixed, propagated, k, new)
    BY <2>2, <2>4 DEF ClassesSound
  <2> QED BY <2>5 DEF new
<1> QED BY <1>1, <1>2

\* What Representative computes.
LEMMA RepresentativeSound ==
  ASSUME NEW fixed, NEW propagated
  PROVE  ClassesSound(fixed, propagated, NbArgs, Representative(fixed, propagated))
<1>0. NbArgs \in Nat /\ ArgVars = 1..NbArgs
  BY Positions DEF ArgVars, NbArgs
<1> DEFINE isFixed(v) == v \in fixed \/ -v \in fixed
           rec(f) == [k \in 0..NbArgs |->
                        IF k = 0 THEN [v \in ArgVars |-> v]
                        ELSE LET rep == f[k - 1]
                             IN  IF isFixed(k) \/ rep[k] # k THEN rep
                                 ELSE [v \in ArgVars |->
                                         IF /\ v > k /\ ~isFixed(v) /\ rep[v] = v
                                            /\ Equivalent(propagated, k, v)
                                         THEN k ELSE rep[v]]]
           after == CHOOSE f : f = rec(f)
<1>1. \A f : f = rec(f) <=> ClassesUpTo(fixed, propagated, NbArgs, f)
  BY DEF ClassesUpTo, ClassStep
<1>2. \E f : ClassesUpTo(fixed, propagated, NbArgs, f)
  BY <1>0, ClassesExist
<1>3. ClassesUpTo(fixed, propagated, NbArgs, after)
  <2> HIDE DEF rec
  <2> QED BY <1>1, <1>2
<1>4. Representative(fixed, propagated) = after[NbArgs]
  BY DEF Representative
<1> HIDE DEF after
<1> DEFINE bad == {k \in 0..NbArgs : ~ClassesSound(fixed, propagated, k, after[k])}
<1>5. bad = {}
  <2>1. SUFFICES ASSUME bad # {} PROVE FALSE
    OBVIOUS
  <2>2. PICK k \in bad : \A l \in Nat : l < k => l \notin bad
    <3>1. bad \in SUBSET Nat
      BY <1>0
    <3> HIDE DEF bad
    <3> QED BY <2>1, <3>1, LeastNumber
  <2>3. CASE k = 0
    <3>1. after[0] = [v \in ArgVars |-> v]
      BY <1>0, <1>3 DEF ClassesUpTo
    <3>2. ClassesSound(fixed, propagated, 0, after[0])
      BY <3>1 DEF ClassesSound
    <3> QED BY <2>2, <2>3, <3>2
  <2>4. CASE k # 0
    <3>1. /\ k \in Nat \ {0} /\ k <= NbArgs
          /\ k - 1 \in 0..NbArgs /\ k - 1 \in Nat /\ k - 1 < k
      BY <1>0, <2>4
    <3>2. ClassesSound(fixed, propagated, k - 1, after[k - 1])
      BY <2>2, <3>1
    <3>3. after[k] = ClassStep(fixed, propagated, k, after[k - 1])
      BY <1>3, <2>4 DEF ClassesUpTo
    <3>4. ClassesSound(fixed, propagated, k, after[k])
      BY <3>1, <3>2, <3>3, ClassStepSound
    <3> QED BY <2>2, <3>4
  <2> QED BY <2>3, <2>4
<1>6. NbArgs \in 0..NbArgs
  BY <1>0
<1> QED BY <1>4, <1>5, <1>6

\* The elements of a finite set of numbers, counted from the least.
LEMMA RankInSet ==
  ASSUME NEW X \in SUBSET Nat, IsFiniteSet(X)
  PROVE  /\ Cardinality(X) \in Nat
         /\ \A r \in X : Cardinality({q \in X : q <= r}) \in 1..Cardinality(X)
         /\ \A r, q \in X :
              Cardinality({t \in X : t <= r}) = Cardinality({t \in X : t <= q}) => r = q
         /\ \A k \in 1..Cardinality(X) : \E r \in X : Cardinality({q \in X : q <= r}) = k
<1> DEFINE upto(r) == {q \in X : q <= r}
           rank == [r \in X |-> Cardinality(upto(r))]
<1>1. \A r \in X : upto(r) \in SUBSET X /\ r \in upto(r)
  OBVIOUS
<1>2. ASSUME NEW r \in X
      PROVE  /\ IsFiniteSet(upto(r)) /\ Cardinality(upto(r)) \in 1..Cardinality(X)
             /\ Cardinality(X) \in Nat
  <2>1. upto(r) \in SUBSET X /\ upto(r) # {}
    BY <1>1
  <2> HIDE DEF upto
  <2>2. /\ IsFiniteSet(upto(r)) /\ Cardinality(upto(r)) <= Cardinality(X)
        /\ Cardinality(upto(r)) \in Nat /\ Cardinality(X) \in Nat
        /\ Cardinality(upto(r)) # 0
    BY <2>1, FS_Subset, FS_CardinalityType, FS_EmptySet
  <2> QED BY <2>2
<1>3. ASSUME NEW r \in X, NEW q \in X, r < q PROVE Cardinality(upto(r)) # Cardinality(upto(q))
  <2>1. upto(r) \in SUBSET upto(q) /\ q \in upto(q) /\ q \notin upto(r)
    <3>1. \A t \in Nat : t <= r => t <= q
      BY <1>3
    <3>2. q <= q /\ ~(q <= r)
      BY <1>3
    <3> QED BY <3>1, <3>2
  <2> HIDE DEF upto
  <2> QED BY <1>2, <2>1, FS_Subset
<1>4. ASSUME NEW r \in X, NEW q \in X, Cardinality(upto(r)) = Cardinality(upto(q)) PROVE r = q
  <2>1. ~(r < q) /\ ~(q < r)
    BY <1>3, <1>4
  <2>2. r \in Nat /\ q \in Nat
    OBVIOUS
  <2> QED BY <2>1, <2>2
<1>5. Cardinality(X) \in Nat /\ IsFiniteSet(1..Cardinality(X))
      /\ Cardinality(1..Cardinality(X)) = Cardinality(X)
  BY FS_CardinalityType, FS_Interval
<1>6. rank \in Injection(X, 1..Cardinality(X))
  <2> HIDE DEF upto
  <2> QED BY <1>2, <1>4 DEF Injection, IsInjective
<1>7. rank \in Surjection(X, 1..Cardinality(X))
  <2> HIDE DEF rank
  <2> QED BY <1>5, <1>6, FS_Injection
<1>8. \A k \in 1..Cardinality(X) : \E r \in X : Cardinality(upto(r)) = k
  <2> HIDE DEF upto
  <2> QED BY <1>7 DEF Surjection
<1> QED BY <1>2, <1>4, <1>5, <1>8

\* translateVarMap numbers the classes without a gap, and two arguments get one
\* variable only if they are both fixed to true, both fixed to false, or have one
\* representative.
LEMMA ReducedMapExact ==
  ASSUME NEW fixed, fixed \cap Neg(fixed) = {}, NEW propagated
  PROVE  LET map == ReducedMap(fixed, propagated)
             rep == Representative(fixed, propagated)
         IN  /\ map.nArgs \in Nat
             /\ map.varOf \in [Arg -> 1..map.nArgs]
             /\ \A v \in 1..map.nArgs : \E x \in Arg : map.varOf[x] = v
             /\ \A x, y \in Arg : map.varOf[x] = map.varOf[y] =>
                  LET v == Position(x)
                      w == Position(y)
                  IN  \/ v \in fixed /\ w \in fixed
                      \/ -v \in fixed /\ -w \in fixed
                      \/ rep[v] = rep[w]
<1> DEFINE rep   == Representative(fixed, propagated)
           map   == ReducedMap(fixed, propagated)
           T     == {v \in ArgVars : v \in fixed}
           N     == {v \in ArgVars : -v \in fixed}
           first == Cardinality({c \in {T, N} : c # {}})
           free  == {v \in ArgVars \ (T \cup N) : rep[v] = v}
           rank(r) == Cardinality({q \in free : q <= r})
           class(v) == CASE v \in T -> 1
                         [] v \in N -> first
                         [] OTHER   -> first + rank(rep[v])
<1>1. /\ NbArgs \in Nat /\ NbArgs = Len(Order) /\ ArgVars = 1..NbArgs
      /\ \A x \in Arg : Position(x) \in ArgVars
      /\ \A v \in ArgVars : \E x \in Arg : Position(x) = v
  <2>1. NbArgs \in Nat /\ NbArgs = Len(Order) /\ ArgVars = 1..NbArgs
    BY Positions DEF ArgVars, NbArgs
  <2> QED BY <2>1, Positions
<1>2. /\ map.varOf = [x \in Arg |-> class(Position(x))]
      /\ map.nArgs = first + Cardinality(free)
  BY DEF ReducedMap
<1>3. T \cap N = {}
  <2>1. \A v \in ArgVars : v \in fixed /\ -v \in fixed => v \in Neg(fixed)
    <3>1. \A v \in ArgVars : -(-v) = v
      BY <1>1
    <3> QED BY <3>1 DEF Neg
  <2> QED BY <2>1
<1>4. ClassesSound(fixed, propagated, NbArgs, rep)
  BY RepresentativeSound
<1>5. ASSUME NEW v \in ArgVars \ (T \cup N) PROVE rep[v] \in free
  <2>1. rep[v] \in ArgVars /\ (rep[v] # v => rep[v] \notin fixed /\ -rep[v] \notin fixed
                                             /\ rep[rep[v]] = rep[v])
    BY <1>4 DEF ClassesSound
  <2> HIDE DEF rep
  <2> QED BY <2>1
<1>6. /\ first \in Nat
      /\ T # {} => first >= 1
      /\ N # {} => first >= 1
      /\ first = IF T = {} THEN (IF N = {} THEN 0 ELSE 1) ELSE (IF N = {} THEN 1 ELSE 2)
  <2> DEFINE C == {c \in {T, N} : c # {}}
  <2>1. CASE T = {} /\ N = {}
    <3>1. C = {}
      BY <2>1
    <3> HIDE DEF T, N
    <3> QED BY <2>1, <3>1, FS_EmptySet
  <2>2. CASE T # {} /\ N = {}
    <3>1. C = {T}
      BY <2>2
    <3>2. first = Cardinality({T})
      BY <3>1
    <3> HIDE DEF T, N, first
    <3>3. Cardinality({T}) = 1
      BY FS_Singleton
    <3> QED BY <2>2, <3>2, <3>3
  <2>3. CASE T = {} /\ N # {}
    <3>1. C = {N}
      BY <2>3
    <3>2. first = Cardinality({N})
      BY <3>1
    <3> HIDE DEF T, N, first
    <3>3. Cardinality({N}) = 1
      BY FS_Singleton
    <3> QED BY <2>3, <3>2, <3>3
  <2>4. CASE T # {} /\ N # {}
    <3>1. C = {T} \cup {N} /\ N \notin {T}
      BY <1>3, <2>4
    <3>2. first = Cardinality({T} \cup {N})
      BY <3>1
    <3> HIDE DEF T, N, first, C
    <3>3. Cardinality({T}) = 1 /\ IsFiniteSet({T})
      BY FS_Singleton
    <3>4. Cardinality({T} \cup {N}) = 2
      BY <3>1, <3>3, FS_AddElement
    <3> QED BY <2>4, <3>2, <3>4
  <2> HIDE DEF T, N, first
  <2> QED BY <2>1, <2>2, <2>3, <2>4
<1>7. free \in SUBSET Nat /\ IsFiniteSet(free)
  <2>1. free \in SUBSET (1..NbArgs)
    BY <1>1
  <2>2. IsFiniteSet(1..NbArgs)
    BY <1>1, FS_Interval
  <2> HIDE DEF free
  <2>3. IsFiniteSet(free)
    BY <2>1, <2>2, FS_Subset
  <2> QED BY <1>1, <2>1, <2>3
<1>8. /\ Cardinality(free) \in Nat
      /\ \A r \in free : rank(r) \in 1..Cardinality(free)
      /\ \A r, q \in free : rank(r) = rank(q) => r = q
      /\ \A k \in 1..Cardinality(free) : \E r \in free : rank(r) = k
  <2> HIDE DEF free
  <2> QED BY <1>7, RankInSet
<1>9. free \subseteq ArgVars \ (T \cup N) /\ \A r \in free : rep[r] = r
  OBVIOUS
<1> HIDE DEF first, rank, free, rep, map
<1>17. \A v \in ArgVars : /\ v \in T => class(v) = 1 /\ T # {}
                          /\ v \in N => class(v) = first /\ N # {}
                          /\ v \notin T /\ v \notin N => class(v) = first + rank(rep[v])
  <2>1. \A v \in ArgVars : v \in T => v \notin N
    BY <1>3
  <2>2. \A v \in ArgVars : v \in N => v \notin T
    BY <1>3
  <2> HIDE DEF T, N
  <2> QED BY <2>1, <2>2
<1> HIDE DEF class
<1>10. map.nArgs \in Nat
  BY <1>2, <1>6, <1>8
<1>11. ASSUME NEW v \in ArgVars PROVE class(v) \in 1..map.nArgs
  <2>1. CASE v \in T
    BY <1>2, <1>6, <1>8, <1>17, <2>1
  <2>2. CASE v \in N /\ v \notin T
    BY <1>2, <1>6, <1>8, <1>17, <2>2
  <2>3. CASE v \notin T /\ v \notin N
    <3>1. rank(rep[v]) \in 1..Cardinality(free)
      BY <1>5, <1>8, <2>3
    <3>2. class(v) = first + rank(rep[v])
      BY <1>17, <2>3
    <3> QED BY <1>2, <1>6, <1>8, <3>1, <3>2
  <2> QED BY <2>1, <2>2, <2>3
<1>12. ASSUME NEW v \in ArgVars, NEW w \in ArgVars, class(v) = class(w)
       PROVE  \/ v \in T /\ w \in T
              \/ v \in N /\ w \in N
              \/ rep[v] = rep[w]
  <2>1. \A u \in ArgVars : u \in T => class(u) = 1 /\ first >= 1
    BY <1>6, <1>17
  <2>2. \A u \in ArgVars : u \in N => class(u) = first /\ first >= 1 /\ (T # {} => first = 2)
    BY <1>6, <1>17
  <2>3. \A u \in ArgVars : u \notin T /\ u \notin N =>
          class(u) = first + rank(rep[u]) /\ rank(rep[u]) \in 1..Cardinality(free)
    BY <1>5, <1>8, <1>17
  <2>4. \A u \in ArgVars : u \notin T /\ u \notin N => class(u) \in Nat /\ class(u) > first
    BY <1>6, <1>8, <2>3
  <2>5. CASE v \notin T /\ v \notin N /\ w \notin T /\ w \notin N
    <3>1. rank(rep[v]) = rank(rep[w])
      BY <1>6, <1>8, <1>12, <2>3, <2>5
    <3> QED BY <1>5, <1>8, <2>5, <3>1
  <2>6. ASSUME NEW u \in ArgVars, NEW t \in ArgVars, u \in T, t \in N PROVE class(u) # class(t)
    BY <2>1, <2>2, <2>6
  <2>7. ASSUME NEW u \in ArgVars, NEW t \in ArgVars, u \in T \cup N, t \notin T, t \notin N
        PROVE  class(u) # class(t)
    <3>1. class(u) <= first /\ class(u) \in Nat
      BY <1>6, <2>1, <2>2, <2>7
    <3> QED BY <1>6, <2>4, <2>7, <3>1
  <2> HIDE DEF class, T, N
  <2> QED BY <1>12, <2>5, <2>6, <2>7
<1>13. ASSUME NEW k \in 1..map.nArgs PROVE \E v \in ArgVars : class(v) = k
  <2>1. CASE k > first
    <3>1. k - first \in 1..Cardinality(free)
      BY <1>2, <1>6, <1>8, <2>1
    <3>2. PICK r \in free : rank(r) = k - first
      BY <1>8, <3>1
    <3>3. r \in ArgVars /\ class(r) = first + rank(r)
      BY <1>9, <1>17
    <3>4. first + rank(r) = k
      BY <1>6, <1>10, <3>2
    <3> QED BY <3>3, <3>4
  <2>2. CASE k <= first
    <3>1. k \in Nat /\ 1 <= k
      BY <1>10
    <3>2. CASE k = 1 /\ T # {}
      <4>1. PICK v \in T : TRUE
        BY <3>2
      <4> QED BY <1>17, <3>2, <4>1
    <3>3. CASE N # {} /\ (T = {} \/ k # 1)
      <4>1. k = first
        BY <1>6, <2>2, <3>1, <3>3
      <4>2. PICK v \in N : TRUE
        BY <3>3
      <4>3. v \in ArgVars /\ v \notin T
        BY <1>3
      <4>4. class(v) = first
        BY <1>17, <4>2, <4>3
      <4> QED BY <4>1, <4>3, <4>4
    <3>4. T # {} \/ N # {}
      BY <1>6, <2>2, <3>1
    <3>5. N # {} \/ k = 1
      BY <1>6, <2>2, <3>1
    <3> HIDE DEF class, T, N
    <3> QED BY <3>2, <3>3, <3>4, <3>5
  <2>3. k \in Nat /\ first \in Nat
    BY <1>6, <1>10
  <2> QED BY <2>1, <2>2, <2>3
<1>14. \A v \in 1..map.nArgs : \E x \in Arg : map.varOf[x] = v
  <2> HIDE DEF class
  <2> QED BY <1>1, <1>2, <1>13
<1>15. map.varOf \in [Arg -> 1..map.nArgs]
  <2> HIDE DEF class
  <2> QED BY <1>1, <1>2, <1>11
<1>16. ASSUME NEW x \in Arg, NEW y \in Arg, map.varOf[x] = map.varOf[y]
       PROVE  \/ Position(x) \in T /\ Position(y) \in T
              \/ Position(x) \in N /\ Position(y) \in N
              \/ rep[Position(x)] = rep[Position(y)]
  <2> HIDE DEF class, T, N
  <2> QED BY <1>1, <1>2, <1>12, <1>16
<1> QED BY <1>10, <1>14, <1>15, <1>16 DEF map, rep

\* No variable is fixed to both values: a propagation without a conflict does not
\* find both, and after a conflict the code keeps the first it met.
LEMMA FixedConsistent ==
  ASSUME NEW F, Clausal(F), NEW fixed \in FixedLiterals(F)
  PROVE  fixed \cap Neg(fixed) = {}
<1> DEFINE T == Reachable(F, {}) \cap (ArgVars \cup Neg(ArgVars))
<1>1. CASE Conflict(F, Propagate(F, {}))
  BY <1>1 DEF FixedLiterals
<1>2. CASE ~Conflict(F, Propagate(F, {}))
  <2>1. fixed = T
    BY <1>2 DEF FixedLiterals
  <2>2. Reachable(F, {}) \subseteq Propagate(F, {})
    BY <1>2, ReachableInPropagate
  <2>3. Propagate(F, {}) \cap Neg(Propagate(F, {})) = {}
    BY <1>2 DEF Conflict
  <2>4. fixed \subseteq Propagate(F, {})
    BY <2>1, <2>2
  <2>5. Neg(fixed) \subseteq Neg(Propagate(F, {}))
    BY <2>4 DEF Neg
  <2> QED BY <2>3, <2>4, <2>5
<1> QED BY <1>1, <1>2

\* The map of an encoding: its variables are 1 to nArgs, and arguments that share
\* one are together in or out of every set that the encoding stands for.
MapExact(s, map) ==
  /\ map.nArgs \in Nat
  /\ map.varOf \in [Arg -> 1..map.nArgs]
  /\ \A v \in 1..map.nArgs : \E x \in Arg : map.varOf[x] = v
  /\ \A x, y \in Arg : map.varOf[x] = map.varOf[y] =>
       \A R : StepFramework(R) => \A S \in Encoded(s, R) : x \in S <=> y \in S

\* SatProblemReducer::search keeps the sets of every step.
LEMMA ReducedMapsExact ==
  ASSUME TypeOK, NEW s, reserveNotAttackedRepl = (s # "ST"), NEW map \in ReducedMaps(s)
  PROVE  MapExact(s, map)
<1> DEFINE F == ClausesOf(s, InitialHelper(s))
<1>1. PICK fixed \in FixedLiterals(F) : \E propagated \in PropagatedPairs(F) :
        map = ReducedMap(fixed, propagated)
  BY DEF ReducedMaps, InitialHelper
<1>2. PICK propagated \in PropagatedPairs(F) : map = ReducedMap(fixed, propagated)
  BY <1>1
<1>3. Clausal(F)
  BY InitialEncodes, ClausesRange
<1> DEFINE rep == Representative(fixed, propagated)
<1>4. /\ map.nArgs \in Nat
      /\ map.varOf \in [Arg -> 1..map.nArgs]
      /\ \A v \in 1..map.nArgs : \E x \in Arg : map.varOf[x] = v
      /\ \A x, y \in Arg : map.varOf[x] = map.varOf[y] =>
           \/ Position(x) \in fixed /\ Position(y) \in fixed
           \/ -Position(x) \in fixed /\ -Position(y) \in fixed
           \/ rep[Position(x)] = rep[Position(y)]
  <2> HIDE DEF F
  <2>1. fixed \cap Neg(fixed) = {}
    BY <1>1, <1>3, FixedConsistent
  <2> QED BY <1>2, <2>1, ReducedMapExact
<1>5. ASSUME NEW x \in Arg, NEW y \in Arg, map.varOf[x] = map.varOf[y],
             NEW R, StepFramework(R), NEW S \in Encoded(s, R)
      PROVE  x \in S <=> y \in S
  <2>1. PICK A \in Assignments :
          /\ Satisfies(A, F)
          /\ \A z \in Arg : Position(z) \in A <=> z \in S
    BY <1>5, InitialModel
  <2> HIDE DEF F
  <2>2. Agrees(A, fixed)
    BY <1>1, <1>3, <2>1, FixedSound
  <2>3. \A v, w : <<v, w>> \in propagated => (v \in A => w \in A)
    BY <1>2, <1>3, <2>1, PropagatedSound
  <2>4. ClassesSound(fixed, propagated, NbArgs, rep)
    BY RepresentativeSound
  <2> HIDE DEF rep
  <2>5. ASSUME NEW z \in Arg PROVE Position(z) \in A <=> rep[Position(z)] \in A
    <3>1. Position(z) \in ArgVars
      BY Positions DEF ArgVars, NbArgs
    <3> QED BY <2>3, <2>4, <3>1 DEF ClassesSound, Equivalent
  <2>6. \A z \in Arg : /\ Position(z) \in fixed => Position(z) \in A
                       /\ -Position(z) \in fixed => Position(z) \notin A
    <3>1. \A z \in Arg : Position(z) \in Nat \ {0}
      BY Positions
    <3> QED BY <2>2, <3>1, PositiveTrue DEF Agrees
  <2>7. Position(x) \in A <=> Position(y) \in A
    BY <1>4, <1>5, <2>5, <2>6
  <2> QED BY <2>1, <2>7
<1> QED BY <1>4, <1>5 DEF MapExact

\* The map of the grounded solvers, which do not reduce, and that of the others.
LEMMA MapsExact ==
  ASSUME TypeOK, NEW s, reserveNotAttackedRepl = (s # "ST"), NEW map \in MapsOf(s)
  PROVE  MapExact(s, map)
<1>1. CASE s = "GR"
  <2>1. map.varOf = InitialVar /\ map.nArgs = NbArgs
    BY <1>1 DEF MapsOf
  <2>2. NbArgs = Len(Order) /\ NbArgs \in Nat
    BY Positions DEF NbArgs
  <2>3. InitialVar \in [Arg -> 1..NbArgs]
    BY <2>2, Positions DEF InitialVar
  <2>4. \A x, y \in Arg : InitialVar[x] = InitialVar[y] => x = y
    BY Positions DEF InitialVar
  <2>5. \A v \in 1..NbArgs : \E x \in Arg : InitialVar[x] = v
    BY <2>2, Positions DEF InitialVar
  <2> QED BY <2>1, <2>2, <2>3, <2>4, <2>5 DEF MapExact
<1>2. CASE s # "GR"
  BY <1>2, ReducedMapsExact DEF MapsOf
<1> QED BY <1>1, <1>2

----------------------------------------------------------------------------
(* The models of the back end *)

\* The variables of the arguments and disjunctions that are true for the accepted
\* arguments S.
Reading(s, h, R, S) ==
  {h.var[x] : x \in S} \cup {h.disj[x] : x \in {y \in Arg : s # "ST" /\ Attacked(R, S, y)}}

\* Clauses and assumptions about them.
Readable(h) == {l \in Literal : l \in (-h.base)..h.base}

\* The models with one set of arguments agree on every literal that the solvers use.
LEMMA ReadingExact ==
  ASSUME TypeOK, NEW s, NEW h, NEW n, Encodes(s, h, n), NEW R, NEW S \in SUBSET Arg, NEW A,
         ReadsAttacks(h, A, R, S), s # "ST" => ReadsDefence(h, A, R, S),
         \A v \in 1..n : \E x \in Arg : h.var[x] = v
  PROVE  /\ A \cap (1..h.base) = Reading(s, h, R, S)
         /\ \A l \in Readable(h) : IsTrue(A, l) <=> IsTrue(Reading(s, h, R, S), l)
<1>1. n \in Nat /\ h.base \in Nat /\ n <= h.base
      /\ h.base = (IF s = "ST" THEN n ELSE n + Len(Order)) /\ Len(Order) \in Nat
  BY HelperVars, Positions DEF Encodes
<1>2. ASSUME NEW x \in Arg
      PROVE  /\ h.var[x] \in 1..n
             /\ s # "ST" => h.disj[x] \in (n + 1)..h.base
             /\ h.disj[x] = n + Position(x)
  BY <1>1, Positions DEF Encodes
<1>3. Reading(s, h, R, S) \subseteq A \cap (1..h.base)
  <2>1. \A x \in S : h.var[x] \in A /\ h.var[x] \in 1..h.base
    BY <1>1, <1>2 DEF ReadsAttacks
  <2>2. \A y \in Arg : s # "ST" /\ Attacked(R, S, y) => h.disj[y] \in A /\ h.disj[y] \in 1..h.base
    BY <1>1, <1>2 DEF ReadsDefence
  <2> QED BY <2>1, <2>2 DEF Reading
<1>4. ASSUME NEW v \in 1..h.base, v \in A PROVE v \in Reading(s, h, R, S)
  <2>1. CASE v \in 1..n
    <3>1. PICK x \in Arg : h.var[x] = v
      BY <2>1
    <3> QED BY <1>4, <3>1 DEF Reading, ReadsAttacks
  <2>2. CASE v \notin 1..n
    <3>1. s # "ST" /\ v - n \in 1..Len(Order)
      BY <1>1, <2>2
    <3>2. PICK x \in Arg : Position(x) = v - n
      BY <3>1, Positions
    <3>3. h.disj[x] = v
      BY <1>1, <1>2, <3>2
    <3> QED BY <1>4, <3>1, <3>3 DEF Reading, ReadsDefence
  <2> QED BY <2>1, <2>2
<1>5. A \cap (1..h.base) = Reading(s, h, R, S)
  BY <1>3, <1>4
<1>6. ASSUME NEW l \in Readable(h)
      PROVE  IsTrue(A, l) <=> IsTrue(Reading(s, h, R, S), l)
  <2>1. l \in Int /\ l # 0 /\ (l > 0 => l \in 1..h.base) /\ (~(l > 0) => -l \in 1..h.base)
    BY <1>1 DEF Readable, Literal
  <2> QED BY <1>5, <2>1 DEF IsTrue
<1> QED BY <1>5, <1>6

\* A question about a formula F that holds the encoding, with the assumptions E and
\* Q besides those of the step.  Z are the variables beyond the encoding's that E
\* makes true.  The clauses that are not of the encoding have a literal that E, or
\* no assumption, makes true, or else they demand one of the clauses K.
Question(s, h, F, Z, K, E, Q) ==
  /\ Clausal(F) /\ ClausesOf(s, h) \subseteq F
  /\ Z \subseteq Nat /\ \A v \in Z : v > NbVarsOf(h)
  /\ K \subseteq SUBSET Readable(h)
  /\ \A c \in F \ ClausesOf(s, h) :
       \/ \E l \in c : (l > NbVarsOf(h) \/ -l > NbVarsOf(h)) /\ IsTrue(Z, l)
       \/ \E d \in K : d \subseteq c
  /\ E \subseteq Literal
  /\ \A l \in E : (l > NbVarsOf(h) \/ -l > NbVarsOf(h)) /\ IsTrue(Z, l)
  /\ \A d \in K : \E c \in F : c \subseteq d \cup Neg(E)
  /\ Q \subseteq Readable(h)

\* The sets of arguments that the encoding stands for, as far as K and Q allow it:
\* the variables up to m that are true for them.
Readings(s, h, R, K, Q, m) ==
  {Reading(s, h, R, S) \cap (1..m) :
     S \in {X \in Encoded(s, R) : /\ Satisfies(Reading(s, h, R, X), K)
                                  /\ Agrees(Reading(s, h, R, X), Q)}}

\* The assumptions L switch on the dynamic attacks of R, and no others.
Switches(h, L, R) ==
  \A A : Agrees(A, L) <=> \A p \in DynPairs : Assump(h, p) \in A <=> p \in R

\* They are the models of such a question.
LEMMA EncodedModels ==
  ASSUME TypeOK, NEW s, NEW h, NEW n, Encodes(s, h, n),
         \A v \in 1..n : \E x \in Arg : h.var[x] = v,
         NEW R, StepFramework(R),
         \A S \in Encoded(s, R) : \A x, y \in Arg : h.var[x] = h.var[y] => (x \in S <=> y \in S),
         NEW F, NEW Z, NEW K, NEW E, NEW Q, Question(s, h, F, Z, K, E, Q),
         NEW L \in SUBSET Literal, Switches(h, L, R),
         NEW m \in 0..h.base
  PROVE  Models(F, L \cup E \cup Q, m) = Readings(s, h, R, K, Q, m)
<1>0. /\ Clausal(F) /\ ClausesOf(s, h) \subseteq F
      /\ Z \in SUBSET Nat /\ \A v \in Z : v > NbVarsOf(h)
      /\ K \in SUBSET SUBSET Readable(h)
      /\ \A c \in F \ ClausesOf(s, h) :
           \/ \E l \in c : (l > NbVarsOf(h) \/ -l > NbVarsOf(h)) /\ IsTrue(Z, l)
           \/ \E d \in K : d \subseteq c
      /\ E \in SUBSET Literal
      /\ \A l \in E : (l > NbVarsOf(h) \/ -l > NbVarsOf(h)) /\ IsTrue(Z, l)
      /\ \A d \in K : \E c \in F : c \subseteq d \cup Neg(E)
      /\ Q \in SUBSET Readable(h)
  BY DEF Question
<1> DEFINE N == NbVarsOf(h)
           all == L \cup E \cup Q
           rhs == {Reading(s, h, R, S) \cap (1..m) :
                     S \in {X \in Encoded(s, R) : /\ Satisfies(Reading(s, h, R, X), K)
                                                  /\ Agrees(Reading(s, h, R, X), Q)}}
<1>1. n \in Nat /\ h.base \in Nat /\ n <= h.base /\ N \in Nat /\ h.base <= N
  BY HelperVars
<1>2. all \in SUBSET Literal /\ m \in Nat
  BY <1>0, <1>1 DEF Readable
<1>3. Models(F, all, m) =
        {A \cap (1..m) : A \in {B \in Assignments : Satisfies(B, F) /\ Agrees(B, all)}}
  <2> HIDE DEF all
  <2> QED BY <1>0, <1>2, ModelsExact
<1>4. \A A : (1..m) \cap A = (1..m) \cap (A \cap (1..h.base))
  BY <1>1
<1>5. ASSUME NEW A \in Assignments, Satisfies(A, F), Agrees(A, all)
      PROVE  A \cap (1..m) \in rhs
  <2> DEFINE S == {x \in Arg : h.var[x] \in A}
  <2>1. Agrees(A, L) /\ Agrees(A, E) /\ Agrees(A, Q)
    BY <1>5 DEF Agrees
  <2>2. Satisfies(A, ClausesOf(s, h))
    BY <1>0, <1>5 DEF Satisfies
  <2>3. \A p \in DynPairs : Assump(h, p) \in A <=> p \in R
    BY <2>1 DEF Switches
  <2>4. /\ S \in Encoded(s, R) /\ S \in SUBSET Arg
        /\ ReadsAttacks(h, A, R, S)
        /\ s # "ST" => ReadsDefence(h, A, R, S)
    BY <2>2, <2>3, EncodingSound
  <2> HIDE DEF S
  <2>5. /\ A \cap (1..h.base) = Reading(s, h, R, S)
        /\ \A l \in Readable(h) : IsTrue(A, l) <=> IsTrue(Reading(s, h, R, S), l)
    BY <2>4, ReadingExact
  <2>6. Agrees(Reading(s, h, R, S), Q)
    BY <1>0, <2>1, <2>5 DEF Agrees
  <2>7. ASSUME NEW d \in K PROVE \E l \in d : IsTrue(Reading(s, h, R, S), l)
    <3>1. PICK c \in F : c \subseteq d \cup Neg(E)
      BY <1>0, <2>7
    <3>2. PICK l \in c : IsTrue(A, l)
      BY <1>5 DEF Satisfies
    <3>3. l \notin Neg(E)
      BY <1>0, <2>1, <3>2, AgreesConsistent
    <3>4. l \in d /\ l \in Readable(h)
      BY <1>0, <3>1, <3>2, <3>3
    <3> QED BY <2>5, <3>2, <3>4
  <2>8. Satisfies(Reading(s, h, R, S), K)
    BY <2>7 DEF Satisfies
  <2> QED BY <1>4, <2>4, <2>5, <2>6, <2>8
<1>6. ASSUME NEW S \in Encoded(s, R),
             Satisfies(Reading(s, h, R, S), K), Agrees(Reading(s, h, R, S), Q)
      PROVE  \E A \in Assignments : /\ Satisfies(A, F) /\ Agrees(A, all)
                                    /\ A \cap (1..m) = Reading(s, h, R, S) \cap (1..m)
  <2> DEFINE C == Canonical(s, h, R, S)
             A == C \cup Z
  <2>1. S \in SUBSET Arg
    BY DEF Encoded, Stable, Complete
  <2>2. /\ C \in SUBSET (1..N)
        /\ ReadsAttacks(h, C, R, S)
        /\ s # "ST" => ReadsDefence(h, C, R, S)
    BY <1>6, <2>1, CanonicalReads
  <2> HIDE DEF C
  <2>3. \A v \in Nat : v <= N => (v \in A <=> v \in C)
    BY <1>0, <1>1
  <2>4. \A v \in Nat : v > N => (v \in A <=> v \in Z)
    BY <1>1, <2>2
  <2>5. A \in Assignments
    BY <1>0, <1>1, <2>2 DEF Assignments
  <2> HIDE DEF A
  <2>6. ReadsAttacks(h, A, R, S)
    <3>1. \A x \in Arg : h.var[x] \in A <=> h.var[x] \in C
      <4>1. \A x \in Arg : h.var[x] \in Nat /\ h.var[x] <= N
        BY <1>1, ArgumentVars
      <4> QED BY <2>3, <4>1
    <3>2. \A p \in DynPairs : /\ Assump(h, p) \in A <=> Assump(h, p) \in C
                              /\ Repl(h, p) \in A <=> Repl(h, p) \in C
      BY <2>3, HelperVars
    <3> QED BY <2>2, <3>1, <3>2 DEF ReadsAttacks
  <2>7. ASSUME s # "ST" PROVE ReadsDefence(h, A, R, S)
    <3>1. \A x \in Arg : h.disj[x] \in A <=> h.disj[x] \in C
      <4>1. \A x \in Arg : h.disj[x] \in Nat /\ h.disj[x] <= h.base
        BY <2>7, HelperVars
      <4>2. \A x \in Arg : h.disj[x] \in Nat /\ h.disj[x] <= N
        BY <1>1, <4>1
      <4> QED BY <2>3, <4>2
    <3>2. \A p \in DynPairs : NotAttacked(h, p) \in A <=> NotAttacked(h, p) \in C
      BY <2>3, <2>7, HelperVars
    <3> QED BY <2>2, <2>7, <3>1, <3>2 DEF ReadsDefence
  <2>8. Satisfies(A, ClausesOf(s, h))
    BY <1>6, <2>6, <2>7, EncodingComplete
  <2>9. /\ A \cap (1..h.base) = Reading(s, h, R, S)
        /\ \A l \in Readable(h) : IsTrue(A, l) <=> IsTrue(Reading(s, h, R, S), l)
    BY <2>1, <2>6, <2>7, ReadingExact
  <2>10. \A l \in Literal : (l > N \/ -l > N) /\ IsTrue(Z, l) => IsTrue(A, l)
    BY <1>1, <2>4 DEF IsTrue, Literal
  <2>11. Satisfies(A, F)
    <3>1. ASSUME NEW c \in F \ ClausesOf(s, h) PROVE \E l \in c : IsTrue(A, l)
      <4>1. CASE \E l \in c : (l > N \/ -l > N) /\ IsTrue(Z, l)
        <5>1. c \subseteq Literal
          BY <1>0 DEF Clausal
        <5> QED BY <2>10, <4>1, <5>1
      <4>2. CASE \E d \in K : d \subseteq c
        <5>1. PICK d \in K : d \subseteq c
          BY <4>2
        <5>2. PICK l \in d : IsTrue(Reading(s, h, R, S), l)
          BY <1>6 DEF Satisfies
        <5> QED BY <1>0, <2>9, <5>1, <5>2
      <4> QED BY <1>0, <4>1, <4>2
    <3> QED BY <2>8, <3>1 DEF Satisfies
  <2>12. Agrees(A, L)
    BY <2>6 DEF ReadsAttacks, Switches
  <2>13. Agrees(A, E)
    BY <1>0, <2>10 DEF Agrees
  <2>14. Agrees(A, Q)
    BY <1>0, <1>6, <2>9 DEF Agrees
  <2>15. Agrees(A, all)
    BY <2>12, <2>13, <2>14 DEF Agrees
  <2>16. A \cap (1..m) = Reading(s, h, R, S) \cap (1..m)
    BY <1>4, <2>9
  <2> QED BY <2>5, <2>11, <2>15, <2>16
<1> HIDE DEF all
<1>7. Models(F, all, m) \subseteq rhs
  <2> HIDE DEF rhs
  <2> QED BY <1>3, <1>5
<1>8. rhs \subseteq Models(F, all, m)
  BY <1>3, <1>6
<1> QED BY <1>7, <1>8 DEF all, Readings

----------------------------------------------------------------------------
(* What a solver starts from, and keeps *)

\* A map has a number of variables.
LEMMA MapCount ==
  ASSUME NEW s, NEW map \in MapsOf(s)
  PROVE  map.nArgs \in Nat
<1>1. NbArgs \in Nat /\ IsFiniteSet(ArgVars)
  BY Positions, FS_Interval DEF NbArgs, ArgVars
<1>2. CASE s = "GR"
  BY <1>1, <1>2 DEF MapsOf
<1>3. CASE s # "GR"
  <2>1. PICK fixed, propagated : map = ReducedMap(fixed, propagated)
    BY <1>3 DEF MapsOf, ReducedMaps
  <2> DEFINE true == {v \in ArgVars : v \in fixed}
             false == {v \in ArgVars : -v \in fixed}
             first == {c \in {true, false} : c # {}}
             free == {v \in ArgVars \ (true \cup false) :
                        Representative(fixed, propagated)[v] = v}
  <2>2. map.nArgs = Cardinality(first) + Cardinality(free)
    BY <2>1 DEF ReducedMap
  <2>3. free \in SUBSET ArgVars
    OBVIOUS
  <2>4. first \in SUBSET {true, false}
    OBVIOUS
  <2> HIDE DEF true, false, free
  <2>5. Cardinality(first) \in Nat /\ Cardinality(free) \in Nat
    <3>1. IsFiniteSet({true, false})
      <4>1. IsFiniteSet({true}) /\ IsFiniteSet({false})
        BY FS_Singleton
      <4>2. IsFiniteSet({true} \cup {false})
        BY <4>1, FS_Union
      <4>3. {true, false} = {true} \cup {false}
        OBVIOUS
      <4> QED BY <4>2, <4>3
    <3> QED BY <1>1, <2>3, <2>4, <3>1, FS_Subset, FS_CardinalityType
  <2> QED BY <2>2, <2>5
<1> QED BY <1>2, <1>3

\* A step keeps the attacks that do not change, and is made of those that the
\* encoding knows.
LEMMA FrameworkIsStep ==
  ASSUME TypeOK, NEW n \in 0..Len(dynAttacks)
  PROVE  StepFramework(Framework(n))
<1>1. n \in Nat /\ \A k \in 1..n : Pair(k) \in DynPairs
  BY PairsAreAttacks
<1>2. Framework(n) \subseteq instance \cup DynPairs
  BY <1>1 DEF Framework, InForce
<1>3. instance \ DynPairs \subseteq Framework(n)
  BY <1>1 DEF Framework, InForce, TypeOK
<1> QED BY <1>2, <1>3 DEF StepFramework

\* The extensions of every semantics are among the sets that its encoding stands
\* for.
LEMMA ExtensionsEncoded ==
  ASSUME semantics \in Semantics, NEW n
  PROVE  ExtensionsAt(n) \subseteq Encoded(semantics, Framework(n))
<1> DEFINE R == Framework(n)
<1>1. semantics \in {"GR", "CO", "ST", "PR", "ID", "SST", "STG"}
  BY ProblemAssumption
<1> HIDE DEF R
<1>2. Grounded(Arg, R) \in Complete(Arg, R) /\ Ideal(Arg, R) \in Complete(Arg, R)
  BY ArgFinite, GroundedExists, IdealExists
<1>3. /\ Preferred(Arg, R) \subseteq Complete(Arg, R)
      /\ SemiStable(Arg, R) \subseteq Complete(Arg, R)
      /\ Stage(Arg, R) \subseteq {S \in SUBSET Arg : ConflictFree(R, S)}
  BY DEF Preferred, SemiStable, Stage, MaxRange
<1>4. CASE semantics \in {"GR", "ID"}
  BY <1>2, <1>4 DEF R, ExtensionsAt, Encoded
<1>5. CASE semantics \in {"CO", "PR", "SST"}
  BY <1>3, <1>5 DEF R, ExtensionsAt, Encoded
<1>6. CASE semantics \in {"ST", "STG"}
  BY <1>3, <1>6 DEF R, ExtensionsAt, Encoded
<1> QED BY <1>1, <1>4, <1>5, <1>6

\* The problem and its encoding, which no step changes: the map is exact, and the
\* dynamic attacks have their variables after those of the helper.
SetupInv ==
  /\ Base
  /\ semantics \in Semantics /\ task \in Tasks /\ query \in Arg
  /\ reserveNotAttackedRepl = (semantics # "ST")
  /\ MapExact(semantics, [varOf |-> varOf, nArgs |-> nArgs])
  /\ nbVars = Helper.base

\* init, after the problem reduction.
LEMMA StartSetup ==
  ASSUME BackEndInit
  PROVE  SetupInv /\ ScanInv
<1>1. PICK map \in MapsOf(semantics) : varOf = map.varOf /\ nArgs = map.nArgs
  BY DEF BackEndInit
<1>2. nArgs \in Nat
  BY <1>1, MapCount
<1>3. nbVars = Helper.base /\ nbVars \in Nat
  <2>1. Helper.base = IF semantics = "ST" THEN nArgs ELSE nArgs + Len(Order)
    BY DEF Helper, HelperOf
  <2> QED BY <1>2, <2>1, Positions DEF BackEndInit
<1>4. Base /\ ScanInv
  <2>1. ParsedProblem /\ BeforeFirstCall /\ reserveNotAttackedRepl \in BOOLEAN
    BY DEF BackEndInit
  <2> QED BY <1>3, <2>1, StartBase, StartScanInv
<1>5. MapExact(semantics, map)
  BY <1>4, MapsExact DEF BackEndInit, Base
<1>6. MapExact(semantics, [varOf |-> varOf, nArgs |-> nArgs])
  BY <1>1, <1>5 DEF MapExact
<1> QED BY <1>3, <1>4, <1>6 DEF BackEndInit, SetupInv

\* The encoding is fixed: the solvers never change the map.
LEMMA SetupPreserved ==
  ASSUME SetupInv, Base', UNCHANGED <<problem, setup>>
  PROVE  SetupInv'
<1>1. DynPairs' = DynPairs /\ instance' = instance
  BY ProblemFixed DEF problem
<1>2. \A R : StepFramework(R)' <=> StepFramework(R)
  BY <1>1 DEF StepFramework
<1>3. /\ semantics' = semantics /\ task' = task /\ query' = query
      /\ varOf' = varOf /\ nArgs' = nArgs
  BY DEF setup
<1>4. MapExact(semantics, [varOf |-> varOf, nArgs |-> nArgs])'
  BY <1>2, <1>3 DEF SetupInv, MapExact
<1>5. nbVars' = nbVars /\ reserveNotAttackedRepl' = reserveNotAttackedRepl
  BY DEF problem
<1>6. Helper' = Helper
  BY <1>3 DEF Helper
<1> QED BY <1>3, <1>4, <1>5, <1>6 DEF SetupInv

\* Arguments that share a variable stand together in every extension of every
\* step.
LEMMA SharedVariables == SetupInv => ReductionSound
<1> SUFFICES ASSUME SetupInv, NEW x \in Arg, NEW y \in Arg, varOf[x] = varOf[y],
                    NEW n \in 0..Len(dynAttacks), NEW S \in ExtensionsAt(n)
             PROVE  x \in S <=> y \in S
  BY DEF ReductionSound
<1>1. StepFramework(Framework(n))
  BY FrameworkIsStep DEF SetupInv, Base
<1>2. S \in Encoded(semantics, Framework(n))
  BY ExtensionsEncoded DEF SetupInv
<1> QED BY <1>1, <1>2 DEF SetupInv, MapExact

\* The helper encodes the problem over the variables of the map.
LEMMA HelperEncodes ==
  ASSUME SetupInv
  PROVE  /\ Encodes(semantics, Helper, nArgs)
         /\ Helper.var = varOf
         /\ \A v \in 1..nArgs : \E x \in Arg : varOf[x] = v
         /\ \A p \in DynPairs : Assump(Helper, p) = AssumpVar(p)
<1>1. /\ nArgs \in Nat /\ varOf \in [Arg -> 1..nArgs]
      /\ \A v \in 1..nArgs : \E x \in Arg : varOf[x] = v
  BY DEF SetupInv, MapExact
<1>2. /\ Helper.var = varOf
      /\ Helper.disj = [x \in Arg |-> nArgs + Position(x)]
      /\ Helper.base = IF semantics = "ST" THEN nArgs ELSE nArgs + Len(Order)
  BY DEF Helper, HelperOf
<1>3. Encodes(semantics, Helper, nArgs)
  BY <1>1, <1>2 DEF SetupInv, Encodes
<1>4. \A p \in DynPairs : Assump(Helper, p) = AssumpVar(p)
  BY DEF SetupInv, Assump, AssumpVar, FromRepl
<1> QED BY <1>1, <1>2, <1>3, <1>4

\* The assumptions of a call are the framework of its step.
LEMMA AssumptionsExact ==
  ASSUME SetupInv, ScanInv, pc = "scan", i = Len(dynAttacks)
  PROVE  /\ dynStep + 1 \in 0..Len(dynAttacks)
         /\ StepFramework(Framework(dynStep + 1))
         /\ Assumptions \in SUBSET Literal
         /\ Switches(Helper, Assumptions, Framework(dynStep + 1))
         /\ \A p \in DynPairs :
              (IF p \in Framework(dynStep + 1) THEN Assump(Helper, p) ELSE -Assump(Helper, p))
                \in Assumptions
<1> DEFINE n == dynStep + 1
           R == Framework(n)
<1>0. TypeOK /\ Base
  BY DEF SetupInv, Base
<1>1. n \in 0..Len(dynAttacks) /\ Len(dynAttacks) \in Nat
  BY <1>0, PairsAreAttacks DEF TypeOK
<1>2. StepFramework(R)
  BY <1>0, <1>1, FrameworkIsStep
<1>3. \A p \in DynPairs : /\ AssumpVar(p) \in Nat \ {0}
                          /\ p \in R <=> InForce(p, n)
  BY <1>0, PairsAreAttacks, AssumpVarType DEF Framework, TypeOK
<1>4. ASSUME NEW p \in DynPairs
      PROVE  \E j \in DOMAIN assumps : assumps[j] = IF p \in R THEN AssumpVar(p) ELSE -AssumpVar(p)
  BY <1>0, <1>3, ScanResult
<1>5. ASSUME NEW j \in DOMAIN assumps
      PROVE  \E p \in DynPairs : assumps[j] = IF p \in R THEN AssumpVar(p) ELSE -AssumpVar(p)
  <2>1. PICK p \in Seen : assumps[j] = Lit(p)
    BY DEF ScanInv
  <2>2. p \in DynPairs
    BY <1>0, <2>1, SeenArePairs
  <2>3. p \in R <=> InForce(p, n)
    BY <1>3, <2>2
  <2>4. Upto = n
    BY <1>0, <1>1 DEF Upto, TypeOK
  <2> QED BY <2>1, <2>2, <2>3, <2>4 DEF Lit
<1>6. Assumptions = {assumps[j] : j \in DOMAIN assumps}
  BY DEF Assumptions, Range
<1> HIDE DEF n, R
<1>7. Assumptions = {IF p \in R THEN AssumpVar(p) ELSE -AssumpVar(p) : p \in DynPairs}
  BY <1>4, <1>5, <1>6
<1>8. Assumptions \in SUBSET Literal
  BY <1>3, <1>7 DEF Literal
<1>9. ASSUME NEW A, NEW p \in DynPairs
      PROVE  IsTrue(A, IF p \in R THEN AssumpVar(p) ELSE -AssumpVar(p)) <=>
               (Assump(Helper, p) \in A <=> p \in R)
  <2>1. Assump(Helper, p) = AssumpVar(p)
    BY HelperEncodes
  <2> QED BY <1>3, <2>1 DEF IsTrue
<1>10. \A A : Agrees(A, Assumptions) <=> \A p \in DynPairs : Assump(Helper, p) \in A <=> p \in R
  BY <1>7, <1>9 DEF Agrees
<1>11. \A p \in DynPairs :
         (IF p \in R THEN Assump(Helper, p) ELSE -Assump(Helper, p)) \in Assumptions
  BY <1>7, HelperEncodes
<1> QED BY <1>1, <1>2, <1>8, <1>10, <1>11 DEF n, R, Switches

----------------------------------------------------------------------------
(* The clauses that the back end accumulates *)

\* The variables depend on the problem only.
LEMMA VariablesFixed ==
  ASSUME UNCHANGED problem
  PROVE  /\ DynPairs' = DynPairs /\ Width' = Width
         /\ \A h, p : /\ Repl(h, p)' = Repl(h, p)
                      /\ NotAttacked(h, p)' = NotAttacked(h, p)
                      /\ Assump(h, p)' = Assump(h, p)
<1>1. \A k : Pair(k)' = Pair(k)
  BY DEF problem, Pair
<1>2. FirstRecords' = FirstRecords
  BY <1>1 DEF problem, FirstRecords
<1>3. \A p : FirstRecordOf(p)' = FirstRecordOf(p)
  BY <1>1, <1>2 DEF FirstRecordOf
<1>4. \A k : Rank(k)' = Rank(k)
  BY <1>2 DEF Rank
<1>5. Width' = Width
  BY DEF problem, Width
<1>6. DynPairs' = DynPairs
  BY ProblemFixed
<1>7. \A n, p : FirstVar(n, p)' = FirstVar(n, p)
  BY <1>3, <1>4, <1>5 DEF FirstVar
<1>8. \A h, p : /\ Repl(h, p)' = Repl(h, p)
                /\ NotAttacked(h, p)' = NotAttacked(h, p)
                /\ Assump(h, p)' = Assump(h, p)
  BY <1>5, <1>7 DEF Repl, NotAttacked, Assump
<1> QED BY <1>5, <1>6, <1>8

\* Everything an encoding is made of depends on the problem only.
LEMMA ClausesFixed ==
  ASSUME UNCHANGED problem
  PROVE  \A s, h : ClausesOf(s, h)' = ClausesOf(s, h) /\ NbVarsOf(h)' = NbVarsOf(h)
<1>1. Width' = Width
  BY VariablesFixed
<1>2. DynPairs' = DynPairs
  BY VariablesFixed
<1>3. \A h, p : /\ Repl(h, p)' = Repl(h, p)
                /\ NotAttacked(h, p)' = NotAttacked(h, p)
                /\ Assump(h, p)' = Assump(h, p)
  BY VariablesFixed
<1>4. \A x : Attackers(x)' = Attackers(x)
  BY <1>2 DEF problem, Attackers
<1>5. \A h, x, y : /\ AttackerLit(h, x, y)' = AttackerLit(h, x, y)
                    /\ AttackedLit(h, x, y)' = AttackedLit(h, x, y)
  BY <1>2, <1>3 DEF AttackerLit, AttackedLit
<1>6. \A h : DynClauses(h)' = DynClauses(h)
  BY <1>2, <1>3 DEF problem, DynClauses, Both
<1>7. \A h : /\ DisjunctionClauses(h)' = DisjunctionClauses(h)
              /\ ConflictFreenessClauses(h)' = ConflictFreenessClauses(h)
  BY <1>4, <1>5 DEF DisjunctionClauses, ConflictFreenessClauses
<1>8. \A h : CompleteClauses(h)' = CompleteClauses(h)
  BY <1>4, <1>5 DEF CompleteClauses
<1>9. \A h : StableClauses(h)' = StableClauses(h)
  BY <1>4, <1>5 DEF StableClauses
<1>10. \A s, h : ClausesOf(s, h)' = ClausesOf(s, h)
  BY <1>6, <1>7, <1>8, <1>9 DEF ClausesOf
<1>11. \A h : NbVarsOf(h)' = NbVarsOf(h)
  BY <1>1, <1>2 DEF NbVarsOf
<1> QED BY <1>10, <1>11

\* A clause with the negation of a selector: a variable after those of the
\* encoding.
Selective(c) == \E l \in c : -l > NbVarsOf(Helper) /\ -l <= nVars

Knowledge == formula \cup newFormula \cup engine

\* The encoding is never lost, whoever collects the clauses, and all that is added
\* to it has a selector.
BackEndInv ==
  /\ nVars \in Nat /\ NbVarsOf(Helper) <= nVars
  /\ hasSolver \in BOOLEAN
  /\ Clausal(Knowledge)
  /\ ClausesOf(semantics, Helper) \subseteq Collected
  /\ hasSolver => ClausesOf(semantics, Helper) \subseteq engine
  /\ \A c \in Knowledge \ ClausesOf(semantics, Helper) : Selective(c)

\* Before the first call no clause is added, and nothing is kept.
LEMMA StartBackEnd ==
  ASSUME BackEndInit
  PROVE  BackEndInv
<1>1. TypeOK /\ Encodes(semantics, Helper, nArgs)
  BY StartSetup, HelperEncodes DEF SetupInv, Base
<1>2. Clausal(ClausesOf(semantics, Helper)) /\ NbVarsOf(Helper) \in Nat
  BY <1>1, ClausesRange, HelperVars
<1>3. Knowledge = ClausesOf(semantics, Helper) /\ Collected = ClausesOf(semantics, Helper)
  BY DEF BackEndInit, Knowledge, Collected
<1>4. nVars = NbVarsOf(Helper) /\ hasSolver = FALSE
  BY DEF BackEndInit
<1>5. nVars <= nVars /\ nVars \in Nat
  BY <1>2, <1>4
<1> QED BY <1>2, <1>3, <1>4, <1>5 DEF BackEndInv

\* Clauses may be added to a formula.
LEMMA ClausalUnion ==
  ASSUME NEW F, Clausal(F), NEW X, Clausal(X)
  PROVE  Clausal(F \cup X)
<1>1. UNION (F \cup X) = (UNION F) \cup (UNION X)
  OBVIOUS
<1>2. IsFiniteSet((UNION F) \cup (UNION X))
  BY FS_Union DEF Clausal
<1> QED BY <1>1, <1>2 DEF Clausal

\* Clauses may be taken away from a formula.
LEMMA ClausalSubset ==
  ASSUME NEW F, Clausal(F), NEW X, X \subseteq F
  PROVE  Clausal(X)
<1>1. UNION X \in SUBSET UNION F
  OBVIOUS
<1> QED BY <1>1, FS_Subset DEF Clausal

\* A step of the back end adds the clauses X, all with selectors.
LEMMA BackEndStep ==
  ASSUME SetupInv, BackEndInv, UNCHANGED <<problem, setup>>,
         NEW X, Clausal(X),
         nVars' \in Nat, nVars <= nVars',
         \A c \in X : \E l \in c : -l > NbVarsOf(Helper) /\ -l <= nVars',
         hasSolver' \in BOOLEAN,
         Knowledge' \subseteq Knowledge \cup X,
         Collected \subseteq Collected',
         hasSolver' => IF hasSolver THEN engine \subseteq engine' ELSE Collected \subseteq engine'
  PROVE  BackEndInv'
<1> DEFINE C == ClausesOf(semantics, Helper)
           N == NbVarsOf(Helper)
<1>1. Helper' = Helper /\ semantics' = semantics
  BY DEF setup, Helper
<1>2. ClausesOf(semantics, Helper)' = C /\ NbVarsOf(Helper)' = N
  BY <1>1, ClausesFixed
<1> HIDE DEF C, N
<1>3. C \subseteq Collected /\ (hasSolver => C \subseteq engine) /\ N <= nVars /\ nVars \in Nat
  BY DEF BackEndInv, C, N
<1>4. C \subseteq Collected'
  BY <1>3
<1>5. hasSolver' => C \subseteq engine'
  BY <1>3 DEF BackEndInv
<1>6. Clausal(Knowledge)'
  <2>1. Clausal(Knowledge \cup X)
    BY ClausalUnion DEF BackEndInv
  <2> QED BY <2>1, ClausalSubset
<1>7. N <= nVars'
  <2>1. N \in Nat
    BY HelperEncodes, HelperVars DEF SetupInv, Base, N
  <2> QED BY <1>3, <2>1
<1>8. ASSUME NEW c \in Knowledge', c \notin C
      PROVE  \E l \in c : -l > N /\ -l <= nVars'
  <2>1. CASE c \in X
    BY <2>1 DEF N
  <2>2. CASE c \in Knowledge
    <3>1. PICK l \in c : -l > N /\ -l <= nVars
      BY <1>8, <2>2 DEF BackEndInv, Selective, C, N
    <3>2. l \in Int
      BY <2>2 DEF BackEndInv, Clausal, Literal
    <3> QED BY <1>3, <3>1, <3>2
  <2> QED BY <2>1, <2>2
<1> QED BY <1>2, <1>4, <1>5, <1>6, <1>7, <1>8 DEF BackEndInv, Selective

----------------------------------------------------------------------------
(* The models at a call *)

\* The sets of the encoding in the framework of the present step.
StepSets == Encoded(semantics, Framework(dynStep + 1))

\* The argument variables that stand for a set of arguments.
Coded(S) == {varOf[x] : x \in S}

\* They hold all that the models tell of the set.
LEMMA CodedExact ==
  ASSUME SetupInv, NEW R, StepFramework(R), NEW S \in Encoded(semantics, R)
  PROVE  /\ S \in SUBSET Arg
         /\ Coded(S) \in SUBSET (1..nArgs)
         /\ \A x \in Arg : varOf[x] \in Coded(S) <=> x \in S
         /\ Decode(Coded(S)) = S
         /\ Reading(semantics, Helper, R, S) \cap (1..nArgs) = Coded(S)
         /\ \A v \in 1..nArgs : /\ IsTrue(Reading(semantics, Helper, R, S), v) <=> v \in Coded(S)
                                /\ IsTrue(Reading(semantics, Helper, R, S), -v) <=> v \notin Coded(S)
<1>1. S \in SUBSET Arg
  BY DEF Encoded, Stable, Complete
<1>2. varOf \in [Arg -> 1..nArgs] /\ nArgs \in Nat
  BY DEF SetupInv, MapExact
<1>3. \A x \in Arg : varOf[x] \in Coded(S) <=> x \in S
  BY <1>1 DEF SetupInv, MapExact, Coded
<1>4. Decode(Coded(S)) = S
  BY <1>1, <1>3 DEF Decode
<1>5. Coded(S) \in SUBSET (1..nArgs)
  BY <1>1, <1>2 DEF Coded
<1>6. \A x \in Arg : Helper.disj[x] \in Nat /\ Helper.disj[x] > nArgs
  BY HelperEncodes, ArgumentVars
<1>7. Reading(semantics, Helper, R, S) \cap (1..nArgs) = Coded(S)
  <2>1. \A v \in 1..nArgs : v <= nArgs
    OBVIOUS
  <2>2. \A x \in Arg : Helper.disj[x] \notin 1..nArgs
    BY <1>2, <1>6
  <2> QED BY <1>5, <2>2, HelperEncodes DEF Reading, Coded
<1>8. ASSUME NEW v \in 1..nArgs
      PROVE  /\ IsTrue(Reading(semantics, Helper, R, S), v) <=> v \in Coded(S)
             /\ IsTrue(Reading(semantics, Helper, R, S), -v) <=> v \notin Coded(S)
  <2>1. v \in Nat \ {0} /\ v > 0 /\ ~(-v > 0) /\ -(-v) = v
    BY <1>2
  <2>2. v \in Reading(semantics, Helper, R, S) <=> v \in Coded(S)
    BY <1>7
  <2> QED BY <2>1, <2>2 DEF IsTrue
<1> QED BY <1>1, <1>3, <1>4, <1>5, <1>7, <1>8

\* The encoded models, at a call: Z are the selectors that the assumptions E make
\* true.
LEMMA StepModels ==
  ASSUME SetupInv, ScanInv, pc = "scan", i = Len(dynAttacks),
         NEW F, NEW Z, NEW K, NEW E, NEW Q, Question(semantics, Helper, F, Z, K, E, Q),
         NEW m \in 0..Helper.base,
         NEW R, R = Framework(dynStep + 1)
  PROVE  Models(F, Assumptions \cup E \cup Q, m) = Readings(semantics, Helper, R, K, Q, m)
<1>1. /\ TypeOK
      /\ Encodes(semantics, Helper, nArgs)
      /\ \A v \in 1..nArgs : \E x \in Arg : Helper.var[x] = v
  BY HelperEncodes DEF SetupInv, Base
<1>2. /\ StepFramework(R)
      /\ Assumptions \in SUBSET Literal
      /\ Switches(Helper, Assumptions, R)
  BY AssumptionsExact
<1>3. \A S \in Encoded(semantics, R) : \A x, y \in Arg :
        Helper.var[x] = Helper.var[y] => (x \in S <=> y \in S)
  BY <1>2, HelperEncodes DEF SetupInv, MapExact
<1> QED BY <1>1, <1>2, <1>3, EncodedModels

\* What a call may ask about the arguments.
ArgumentLiterals == (1..nArgs) \cup Neg(1..nArgs)

\* The variables of the arguments are among those that the solvers read.
LEMMA ArgumentLiteralsReadable ==
  ASSUME SetupInv
  PROVE  /\ ArgumentLiterals \subseteq Readable(Helper)
         /\ nArgs \in 0..Helper.base /\ 0 \in 0..Helper.base
         /\ Helper.base <= NbVarsOf(Helper) /\ Helper.base \in Nat /\ NbVarsOf(Helper) \in Nat
<1>1. /\ nArgs \in Nat /\ Helper.base \in Nat /\ nArgs <= Helper.base
      /\ NbVarsOf(Helper) \in Nat /\ Helper.base <= NbVarsOf(Helper)
  BY HelperEncodes, HelperVars DEF SetupInv, Base
<1> QED BY <1>1 DEF ArgumentLiterals, Readable, Literal, Neg

\* With no selector assumed, the models of a call are the sets that the encoding
\* stands for in the framework of the step, as far as the question Q allows.
LEMMA CallModels ==
  ASSUME SetupInv, ScanInv, BackEndInv, pc = "scan", i = Len(dynAttacks),
         NEW F, F \subseteq Knowledge, ClausesOf(semantics, Helper) \subseteq F,
         NEW Q \in SUBSET ArgumentLiterals,
         NEW m \in 0..Helper.base,
         NEW R, R = Framework(dynStep + 1)
  PROVE  Models(F, Assumptions \cup Q, m) = Readings(semantics, Helper, R, {}, Q, m)
<1>1. Clausal(F)
  BY ClausalSubset DEF BackEndInv
<1>2. Q \in SUBSET Readable(Helper)
  BY ArgumentLiteralsReadable
<1>3. ASSUME NEW c \in F \ ClausesOf(semantics, Helper)
      PROVE  \E l \in c : (l > NbVarsOf(Helper) \/ -l > NbVarsOf(Helper)) /\ IsTrue({}, l)
  <2>1. PICK l \in c : -l > NbVarsOf(Helper)
    BY <1>3 DEF BackEndInv, Selective
  <2>2. l \in Int /\ NbVarsOf(Helper) \in Nat
    BY <1>1, <2>1, ArgumentLiteralsReadable DEF Clausal, Literal
  <2>3. ~(l > 0)
    BY <2>1, <2>2
  <2> QED BY <2>1, <2>3 DEF IsTrue
<1> DEFINE none == {}
<1>4. Models(F, Assumptions \cup none \cup Q, m) = Readings(semantics, Helper, R, none, Q, m)
  <2>1. Question(semantics, Helper, F, none, none, none, Q)
    BY <1>1, <1>2, <1>3 DEF Question
  <2> HIDE DEF none
  <2> QED BY <2>1, StepModels
<1>5. Assumptions \cup none \cup Q = Assumptions \cup Q
  OBVIOUS
<1> QED BY <1>4, <1>5

\* Whatever asks, the engine or the enumerator, knows the encoding.
LEMMA GivenKnows ==
  ASSUME BackEndInv
  PROVE  /\ Given \subseteq Knowledge /\ ClausesOf(semantics, Helper) \subseteq Given
         /\ Collected \subseteq Knowledge /\ ClausesOf(semantics, Helper) \subseteq Collected
BY DEF BackEndInv, Given, Collected, Knowledge

\* What a call finds about one argument x.
LEMMA ArgumentModels ==
  ASSUME SetupInv, ScanInv, BackEndInv, pc = "scan", i = Len(dynAttacks),
         NEW F, F \subseteq Knowledge, ClausesOf(semantics, Helper) \subseteq F,
         NEW R, R = Framework(dynStep + 1)
  PROVE  /\ Models(F, Assumptions, nArgs) = {Coded(S) : S \in Encoded(semantics, R)}
         /\ \A x \in Arg :
              /\ Models(F, Assumptions \cup {varOf[x]}, nArgs) =
                   {Coded(S) : S \in {X \in Encoded(semantics, R) : x \in X}}
              /\ Models(F, Assumptions \cup {-varOf[x]}, nArgs) =
                   {Coded(S) : S \in {X \in Encoded(semantics, R) : x \notin X}}
              /\ Satisfiable(F, Assumptions \cup {-varOf[x]}) <=>
                   \E S \in Encoded(semantics, R) : x \notin S
<1> DEFINE Set == Encoded(semantics, R)
<1>1. StepFramework(R)
  BY AssumptionsExact
<1>2. nArgs \in 0..Helper.base /\ 0 \in 0..Helper.base
  BY ArgumentLiteralsReadable
<1>3. ASSUME NEW S \in Set
      PROVE  /\ Reading(semantics, Helper, R, S) \cap (1..nArgs) = Coded(S)
             /\ Satisfies(Reading(semantics, Helper, R, S), {})
             /\ Agrees(Reading(semantics, Helper, R, S), {})
             /\ \A x \in Arg :
                  /\ Agrees(Reading(semantics, Helper, R, S), {varOf[x]}) <=> x \in S
                  /\ Agrees(Reading(semantics, Helper, R, S), {-varOf[x]}) <=> x \notin S
  <2>1. \A x \in Arg : varOf[x] \in 1..nArgs
    BY DEF SetupInv, MapExact
  <2>2. \A x \in Arg : varOf[x] \in Coded(S) <=> x \in S
    BY <1>1, CodedExact
  <2>3. /\ Reading(semantics, Helper, R, S) \cap (1..nArgs) = Coded(S)
        /\ \A v \in 1..nArgs : /\ IsTrue(Reading(semantics, Helper, R, S), v) <=> v \in Coded(S)
                               /\ IsTrue(Reading(semantics, Helper, R, S), -v) <=> v \notin Coded(S)
    BY <1>1, CodedExact
  <2> QED BY <2>1, <2>2, <2>3 DEF Agrees, Satisfies
<1>4. ASSUME NEW Q \in SUBSET ArgumentLiterals, NEW m \in 0..Helper.base
      PROVE  Models(F, Assumptions \cup Q, m) = Readings(semantics, Helper, R, {}, Q, m)
  BY CallModels
<1>5. ASSUME NEW Q, NEW P \in SUBSET Set,
             \A S \in Set : Agrees(Reading(semantics, Helper, R, S), Q) <=> S \in P
      PROVE  /\ Readings(semantics, Helper, R, {}, Q, nArgs) = {Coded(S) : S \in P}
             /\ Readings(semantics, Helper, R, {}, Q, 0) # {} <=> P # {}
  <2> DEFINE allowed == {X \in Set : /\ Satisfies(Reading(semantics, Helper, R, X), {})
                                     /\ Agrees(Reading(semantics, Helper, R, X), Q)}
  <2>1. allowed = P
    BY <1>3, <1>5
  <2>2. \A m : Readings(semantics, Helper, R, {}, Q, m) =
               {Reading(semantics, Helper, R, S) \cap (1..m) : S \in allowed}
    BY DEF Readings
  <2> HIDE DEF allowed
  <2>3. {Reading(semantics, Helper, R, S) \cap (1..nArgs) : S \in P} = {Coded(S) : S \in P}
    <3>1. \A S \in P : Reading(semantics, Helper, R, S) \cap (1..nArgs) = Coded(S)
      BY <1>3
    <3> QED BY <3>1
  <2>4. {Reading(semantics, Helper, R, S) \cap (1..0) : S \in P} # {} <=> P # {}
    OBVIOUS
  <2> QED BY <2>1, <2>2, <2>3, <2>4
<1> HIDE DEF Set
<1>6. Models(F, Assumptions, nArgs) = {Coded(S) : S \in Set}
  <2> DEFINE none == {}
  <2>1. Models(F, Assumptions \cup none, nArgs) = Readings(semantics, Helper, R, none, none, nArgs)
    BY <1>2, <1>4
  <2>2. Readings(semantics, Helper, R, none, none, nArgs) = {Coded(S) : S \in Set}
    BY <1>3, <1>5
  <2> QED BY <2>1, <2>2
<1>7. ASSUME NEW x \in Arg
      PROVE  /\ Models(F, Assumptions \cup {varOf[x]}, nArgs) =
                  {Coded(S) : S \in {X \in Set : x \in X}}
             /\ Models(F, Assumptions \cup {-varOf[x]}, nArgs) =
                  {Coded(S) : S \in {X \in Set : x \notin X}}
             /\ Satisfiable(F, Assumptions \cup {-varOf[x]}) <=> \E S \in Set : x \notin S
  <2>1. {varOf[x]} \in SUBSET ArgumentLiterals /\ {-varOf[x]} \in SUBSET ArgumentLiterals
    BY DEF SetupInv, MapExact, ArgumentLiterals, Neg
  <2> DEFINE chosen   == {varOf[x]}
             rejected == {-varOf[x]}
  <2>2. /\ Models(F, Assumptions \cup chosen, nArgs) =
             Readings(semantics, Helper, R, {}, chosen, nArgs)
        /\ Models(F, Assumptions \cup rejected, nArgs) =
             Readings(semantics, Helper, R, {}, rejected, nArgs)
        /\ Models(F, Assumptions \cup rejected, 0) =
             Readings(semantics, Helper, R, {}, rejected, 0)
    BY <1>2, <1>4, <2>1
  <2>3. /\ Readings(semantics, Helper, R, {}, chosen, nArgs) =
             {Coded(S) : S \in {X \in Set : x \in X}}
        /\ Readings(semantics, Helper, R, {}, rejected, nArgs) =
             {Coded(S) : S \in {X \in Set : x \notin X}}
        /\ Readings(semantics, Helper, R, {}, rejected, 0) # {} <=>
             {X \in Set : x \notin X} # {}
    <3>1. \A S \in Set : /\ Agrees(Reading(semantics, Helper, R, S), chosen) <=> S \in {X \in Set : x \in X}
                         /\ Agrees(Reading(semantics, Helper, R, S), rejected) <=> S \in {X \in Set : x \notin X}
      BY <1>3
    <3> HIDE DEF chosen, rejected
    <3>2. {X \in Set : x \in X} \in SUBSET Set /\ {X \in Set : x \notin X} \in SUBSET Set
      OBVIOUS
    <3> DEFINE In == {X \in Set : x \in X}
               Out == {X \in Set : x \notin X}
    <3> HIDE DEF In, Out
    <3> QED BY <1>5, <3>1, <3>2 DEF In, Out
  <2>4. Satisfiable(F, Assumptions \cup rejected) <=> Models(F, Assumptions \cup rejected, 0) # {}
    <3>1. 1..0 = {}
      OBVIOUS
    <3>2. Neg({}) = {}
      BY DEF Neg
    <3>3. Models(F, Assumptions \cup rejected, 0) =
            {T \in {{}} : Satisfiable(F, Assumptions \cup rejected \cup T \cup Neg({} \ T))}
      BY <3>1 DEF Models
    <3>4. Assumptions \cup rejected \cup {} \cup Neg({} \ {}) = Assumptions \cup rejected
      BY <3>2
    <3> HIDE DEF rejected
    <3> QED BY <3>3, <3>4
  <2>5. Readings(semantics, Helper, R, {}, rejected, 0) # {} <=> \E S \in Set : x \notin S
    BY <2>3
  <2> QED BY <2>2, <2>3, <2>4, <2>5
<1> QED BY <1>6, <1>7 DEF Set

\* No trace of the earlier steps: the models are the sets that the encoding stands
\* for.
LEMMA FormulaAtCall ==
  ASSUME SetupInv, ScanInv, BackEndInv, pc = "scan", i = Len(dynAttacks)
  PROVE  FormulaExact
<1> DEFINE R == Framework(dynStep + 1)
<1>1. StepFramework(R)
  BY AssumptionsExact
<1>2. ModelsOf(Assumptions) = {Coded(S) : S \in Encoded(semantics, R)}
  BY GivenKnows, ArgumentModels DEF ModelsOf
<1>3. \A S \in Encoded(semantics, R) : Decode(Coded(S)) = S
  BY <1>1, CodedExact
<1>4. {Decode(T) : T \in ModelsOf(Assumptions)} = Encoded(semantics, R)
  BY <1>2, <1>3
<1> QED BY <1>4 DEF FormulaExact, Encoded

----------------------------------------------------------------------------
(* What propagation finds for the complete encoding *)

\* No clause has all its literals false but one that is not reached.
Saturated(F, P) == \A c \in F : \A l \in c : c \ {l} \subseteq Neg(P) => l \in P

\* The accepted arguments of a saturated set hold what they defend: the clauses
\* lead from the attackers to the disjunctions and back.
LEMMA SaturatedDefends ==
  ASSUME TypeOK, NEW s, NEW h, NEW n, Encodes(s, h, n), s \notin {"ST", "STG"},
         NEW R, StepFramework(R), NEW P, Saturated(ClausesOf(s, h), P),
         \A p \in DynPairs : (IF p \in R THEN Assump(h, p) ELSE -Assump(h, p)) \in P,
         NEW S, S = {x \in Arg : h.var[x] \in P}
  PROVE  Defended(Arg, R, S) \subseteq S
<1>1. /\ DynClauses(h) \subseteq ClausesOf(s, h)
      /\ DisjunctionClauses(h) \subseteq ClausesOf(s, h)
      /\ CompleteClauses(h) \subseteq ClausesOf(s, h)
  BY DEF ClausesOf
<1>2. /\ \A p \in DynPairs : Both(Repl(h, p), h.var[p[1]], Assump(h, p)) \subseteq ClausesOf(s, h)
      /\ \A p \in DynPairs : Both(NotAttacked(h, p), -h.disj[p[1]], Assump(h, p)) \subseteq ClausesOf(s, h)
  <2>1. reserveNotAttackedRepl
    BY DEF Encodes
  <2>2. DynClauses(h) =
          (UNION {Both(Repl(h, p), h.var[p[1]], Assump(h, p)) : p \in DynPairs}) \cup
          UNION {Both(NotAttacked(h, p), -h.disj[p[1]], Assump(h, p)) : p \in DynPairs}
    BY <2>1 DEF DynClauses
  <2> QED BY <1>1, <2>2
<1>3. \A v : v \in P => -v \in Neg(P)
  BY DEF Neg
<1>4. ASSUME NEW y \in Arg, NEW z \in S, <<z, y>> \in R
      PROVE  z \in Attackers(y) /\ AttackerLit(h, y, z) \in P
  <2>1. z \in Arg /\ h.var[z] \in P
    OBVIOUS
  <2>2. z \in Attackers(y)
    BY <1>4, <2>1 DEF StepFramework, Attackers
  <2>3. CASE <<z, y>> \in DynPairs
    <3> DEFINE d == Repl(h, <<z, y>>)
               e == Assump(h, <<z, y>>)
    <3>1. {d, -h.var[z], -e} \in ClausesOf(s, h)
      <4>1. Both(d, h.var[z], e) \subseteq ClausesOf(s, h)
        BY <1>2, <2>3
      <4> QED BY <4>1 DEF Both
    <3>2. e \in P
      BY <1>4, <2>3
    <3>3. AttackerLit(h, y, z) = d
      BY <2>3 DEF AttackerLit
    <3> HIDE DEF d, e
    <3>4. {d, -h.var[z], -e} \ {d} \subseteq Neg(P)
      BY <1>3, <2>1, <3>2
    <3> QED BY <2>2, <3>1, <3>3, <3>4 DEF Saturated
  <2>4. CASE <<z, y>> \notin DynPairs
    BY <2>1, <2>2, <2>4 DEF AttackerLit
  <2> QED BY <2>3, <2>4
<1>5. ASSUME NEW y \in Arg, Attacked(R, S, y)
      PROVE  h.disj[y] \in P
  <2>1. PICK z \in S : <<z, y>> \in R
    BY <1>5 DEF Attacked
  <2>2. z \in Attackers(y) /\ AttackerLit(h, y, z) \in P
    BY <1>4, <2>1
  <2>3. {h.disj[y], -AttackerLit(h, y, z)} \in ClausesOf(s, h)
    BY <1>1, <2>2 DEF DisjunctionClauses
  <2>4. {h.disj[y], -AttackerLit(h, y, z)} \ {h.disj[y]} \subseteq Neg(P)
    BY <1>3, <2>2
  <2> QED BY <2>3, <2>4 DEF Saturated
<1>6. ASSUME NEW x \in Arg, NEW y \in Attackers(x), <<y, x>> \in R => Attacked(R, S, y)
      PROVE  AttackedLit(h, x, y) \in P
  <2>1. y \in Arg /\ <<y, x>> \in instance \cup DynPairs
    BY DEF Attackers
  <2>2. CASE <<y, x>> \in DynPairs
    <3> DEFINE d == NotAttacked(h, <<y, x>>)
               e == Assump(h, <<y, x>>)
               a == h.disj[y]
    <3>1. {-d, -a} \in ClausesOf(s, h) /\ {-d, e} \in ClausesOf(s, h)
      <4>1. Both(d, -a, e) \subseteq ClausesOf(s, h)
        BY <1>2, <2>2
      <4> QED BY <4>1 DEF Both
    <3>2. AttackedLit(h, x, y) = -d
      BY <2>2 DEF AttackedLit
    <3>3. e \in Nat
      BY <2>2, HelperVars
    <3>4. (<<y, x>> \in R /\ a \in P) \/ -e \in P
      BY <1>5, <1>6, <2>1, <2>2
    <3> HIDE DEF d, e, a
    <3>5. CASE a \in P
      <4>1. {-d, -a} \ {-d} \subseteq Neg(P)
        BY <1>3, <3>5
      <4> QED BY <3>1, <3>2, <4>1 DEF Saturated
    <3>6. CASE -e \in P
      <4>1. e \in Neg(P)
        <5>1. -(-e) = e
          BY <3>3
        <5> QED BY <1>3, <3>6, <5>1
      <4>2. {-d, e} \ {-d} \subseteq Neg(P)
        BY <4>1
      <4> QED BY <3>1, <3>2, <4>2 DEF Saturated
    <3> QED BY <3>4, <3>5, <3>6
  <2>3. CASE <<y, x>> \notin DynPairs
    <3>1. <<y, x>> \in R
      BY <2>1, <2>3 DEF StepFramework
    <3> QED BY <1>5, <1>6, <2>1, <2>3, <3>1 DEF AttackedLit
  <2> QED BY <2>2, <2>3
<1>7. ASSUME NEW x \in Defended(Arg, R, S)
      PROVE  x \in S
  <2> DEFINE others == {-AttackedLit(h, x, y) : y \in Attackers(x)}
  <2>1. x \in Arg /\ \A y \in Arg : <<y, x>> \in R => Attacked(R, S, y)
    BY DEF Defended
  <2>2. {h.var[x]} \cup others \in ClausesOf(s, h)
    BY <1>1, <2>1 DEF CompleteClauses
  <2>3. \A y \in Attackers(x) : AttackedLit(h, x, y) \in P
    BY <1>6, <2>1 DEF Attackers
  <2>4. ({h.var[x]} \cup others) \ {h.var[x]} \subseteq Neg(P)
    BY <1>3, <2>3
  <2> HIDE DEF others
  <2>5. h.var[x] \in P
    BY <2>2, <2>4 DEF Saturated
  <2> QED BY <2>1, <2>5
<1> QED BY <1>7

\* Propagation finds the grounded extension of the step, whether or not learnt
\* clauses help it.
LEMMA PropagationsExact ==
  ASSUME SetupInv, ScanInv, BackEndInv, pc = "scan", i = Len(dynAttacks),
         semantics \notin {"ST", "STG"}, NEW P \in Propagations(Assumptions),
         NEW R, R = Framework(dynStep + 1)
  PROVE  /\ Grounded(Arg, R) \in Encoded(semantics, R)
         /\ \A S \in Encoded(semantics, R) : Grounded(Arg, R) \subseteq S
         /\ P = Coded(Grounded(Arg, R))
<1> DEFINE G == Grounded(Arg, R)
           reached == Propagate(Given, Assumptions)
<1>1. /\ TypeOK
      /\ Encodes(semantics, Helper, nArgs)
      /\ Helper.var = varOf
      /\ \A v \in 1..nArgs : \E x \in Arg : varOf[x] = v
      /\ nArgs \in Nat /\ \A x \in Arg : varOf[x] \in 1..nArgs
  BY HelperEncodes DEF SetupInv, Base, MapExact
<1>2. /\ StepFramework(R) /\ Assumptions \in SUBSET Literal
      /\ \A p \in DynPairs :
           (IF p \in R THEN Assump(Helper, p) ELSE -Assump(Helper, p)) \in Assumptions
  BY AssumptionsExact
<1>3. Encoded(semantics, R) = Complete(Arg, R)
  BY DEF Encoded
<1>4. /\ G \in Complete(Arg, R)
      /\ \A S \in SUBSET Arg : Defended(Arg, R, S) \subseteq S => G \subseteq S
  BY ArgFinite, GroundedExists
<1>5. \A S \in Complete(Arg, R) : G \subseteq S
  BY <1>4 DEF Complete
<1>6. /\ Given \subseteq Knowledge /\ ClausesOf(semantics, Helper) \subseteq Given
      /\ Clausal(Given)
  BY GivenKnows, ClausalSubset DEF BackEndInv
<1> HIDE DEF G
<1>7. \A x \in Arg : varOf[x] \in Coded(G) <=> x \in G
  BY <1>2, <1>3, <1>4, CodedExact
<1>8. Coded(G) \subseteq 1..nArgs
  BY <1>2, <1>3, <1>4, CodedExact
<1>9. {v \in 1..nArgs : ~Satisfiable(Given, Assumptions \cup {-v})} = Coded(G)
  <2>1. \A x \in Arg : Satisfiable(Given, Assumptions \cup {-varOf[x]}) <=>
                         \E S \in Complete(Arg, R) : x \notin S
    BY <1>3, <1>6, ArgumentModels, ZenonT(30)
  <2>2. \A x \in Arg : ~Satisfiable(Given, Assumptions \cup {-varOf[x]}) <=> x \in G
    BY <1>4, <1>5, <2>1
  <2>3. \A v \in 1..nArgs : ~Satisfiable(Given, Assumptions \cup {-v}) <=> v \in Coded(G)
    BY <1>1, <1>7, <2>2
  <2> QED BY <1>8, <2>3
<1>10. reached \cap (1..nArgs) = Coded(G)
  <2>1. /\ reached \in SUBSET Literal /\ Assumptions \subseteq reached
        /\ Units(Simplify(Given, reached)) = {}
        /\ \A A : Satisfies(A, Given) /\ Agrees(A, Assumptions) => Agrees(A, reached)
    BY <1>2, <1>6, PropagateExact
  <2>2. PICK A \in Assignments : /\ Satisfies(A, Given) /\ Agrees(A, Assumptions)
                                 /\ A \cap (1..nArgs) = Coded(G)
    <3>1. Coded(G) \in Models(Given, Assumptions, nArgs)
      <4>1. Models(Given, Assumptions, nArgs) = {Coded(S) : S \in Encoded(semantics, R)}
        BY <1>6, ArgumentModels
      <4> QED BY <1>3, <1>4, <4>1
    <3>2. Models(Given, Assumptions, nArgs) =
            {A \cap (1..nArgs) :
               A \in {B \in Assignments : Satisfies(B, Given) /\ Agrees(B, Assumptions)}}
      <4>1. Clausal(Given) /\ Assumptions \in SUBSET Literal /\ nArgs \in Nat
        BY <1>1, <1>2, <1>6
      <4> QED BY ONLY <4>1, ModelsExact
    <3> QED BY <3>1, <3>2
  <2> HIDE DEF reached
  <2>3. Agrees(A, reached)
    BY <2>1, <2>2
  <2>4. reached \cap (1..nArgs) \subseteq Coded(G)
    <3>1. \A v \in 1..nArgs : v > 0
      BY <1>1
    <3>2. \A v \in reached \cap (1..nArgs) : v \in A
      BY <2>3, <3>1 DEF Agrees, IsTrue
    <3> QED BY <2>2, <3>2
  <2>5. ~Conflict(Given, reached)
    BY <1>6, <2>1, <2>2, <2>3, ModelHasNoConflict DEF HasModel
  <2>6. Saturated(Given, reached)
    BY <1>6, <2>1, <2>5, PropagateClosed DEF Saturated
  <2>7. Saturated(ClausesOf(semantics, Helper), reached)
    BY <1>6, <2>6 DEF Saturated
  <2> DEFINE S == {x \in Arg : Helper.var[x] \in reached}
  <2>8. \A p \in DynPairs :
          (IF p \in R THEN Assump(Helper, p) ELSE -Assump(Helper, p)) \in reached
    BY <1>2, <2>1
  <2>9. S \in SUBSET Arg
    OBVIOUS
  <2>10. \A x \in S : varOf[x] \in reached
    BY <1>1
  <2>11. Defended(Arg, R, S) \subseteq S
    <3>1. S = {x \in Arg : Helper.var[x] \in reached}
      OBVIOUS
    <3> HIDE DEF S
    <3> QED BY <1>1, <1>2, <2>7, <2>8, <3>1, SaturatedDefends
  <2> HIDE DEF S
  <2>12. G \subseteq S
    BY <1>4, <2>9, <2>11
  <2>13. Coded(G) \subseteq reached
    BY <2>10, <2>12 DEF Coded
  <2> QED BY <1>8, <2>4, <2>13
<1>11. P = Coded(G)
  BY <1>9, <1>10 DEF Propagations
<1> QED BY <1>3, <1>4, <1>5, <1>11 DEF G

----------------------------------------------------------------------------
(* The operations of the back end keep its invariant *)

\* buildSolver, after which the clauses that wait all have selectors.
LEMMA BuildSolverStep ==
  ASSUME SetupInv, BackEndInv, UNCHANGED <<problem, setup>>, BuildSolver,
         Clausal(newFormula'), nVars' \in Nat, nVars <= nVars',
         \A c \in newFormula' : \E l \in c : -l > NbVarsOf(Helper) /\ -l <= nVars'
  PROVE  BackEndInv'
<1>1. engine' = Given /\ hasSolver' = TRUE /\ formula' = Collected
  BY DEF BuildSolver
<1>2. Knowledge' \subseteq Knowledge \cup newFormula'
  BY <1>1, GivenKnows DEF Knowledge
<1>3. Collected \subseteq Collected'
  BY <1>1 DEF Collected
<1>4. IF hasSolver THEN engine \subseteq engine' ELSE Collected \subseteq engine'
  BY <1>1 DEF Given, Collected
<1> QED BY <1>1, <1>2, <1>3, <1>4, BackEndStep

\* A formula may be empty.
LEMMA NoClauses == Clausal({})
BY FS_EmptySet DEF Clausal

\* propagatedAtDecisionLvlZero keeps what is known of the back end.
LEMMA PropagatedStep ==
  ASSUME SetupInv, BackEndInv, UNCHANGED <<problem, setup>>, PropagatedAtDecisionLvlZero
  PROVE  BackEndInv'
<1>1. BuildSolver /\ newFormula' = {} /\ nVars' = nVars
  BY DEF PropagatedAtDecisionLvlZero
<1>2. nVars \in Nat
  BY DEF BackEndInv
<1> QED BY <1>1, <1>2, NoClauses, BuildSolverStep

\* computeModel keeps what is known of the back end, and finds a model if there is one.
LEMMA ComputeModelStep ==
  ASSUME SetupInv, BackEndInv, UNCHANGED <<problem, setup>>, NEW A, ComputeModel(A)
  PROVE  /\ BackEndInv'
         /\ ModelsOf(A) = {} => models' = << >>
         /\ ModelsOf(A) # {} => \E T \in ModelsOf(A) : models' = <<T>>
         /\ models' = << >> <=> ModelsOf(A) = {}
<1>1. BuildSolver /\ newFormula' = {} /\ nVars' = nVars
  BY DEF ComputeModel
<1>2. nVars \in Nat
  BY DEF BackEndInv
<1>3. BackEndInv'
  BY <1>1, <1>2, NoClauses, BuildSolverStep
<1>4. /\ ModelsOf(A) = {} => models' = << >>
      /\ ModelsOf(A) # {} => \E T \in ModelsOf(A) : models' = <<T>>
  BY DEF ComputeModel
<1>5. \A T : <<T>> # << >>
  OBVIOUS
<1> HIDE DEF ModelsOf
<1> QED BY <1>3, <1>4, <1>5

\* A clause about the argument variables, with a selector.
LEMMA SelectedClausal ==
  ASSUME SetupInv, NEW d \in SUBSET Readable(Helper), NEW v \in Nat \ {0}
  PROVE  Clausal({Selected(d, v)})
<1>1. UNION {Selected(d, v)} = d \cup {-v}
  BY DEF Selected
<1>2. IsFiniteSet(Readable(Helper))
  <2>1. Readable(Helper) \in SUBSET ((-Helper.base)..Helper.base)
    BY DEF Readable
  <2>2. IsFiniteSet((-Helper.base)..Helper.base)
    <3>1. Helper.base \in Int /\ -Helper.base \in Int
      BY ArgumentLiteralsReadable
    <3> QED BY <3>1, FS_Interval
  <2> QED BY <2>1, <2>2, FS_Subset
<1>3. IsFiniteSet(d) /\ IsFiniteSet({-v})
  BY <1>2, FS_Subset, FS_Singleton
<1>4. IsFiniteSet(d \cup {-v})
  BY <1>3, FS_Union
<1>5. d \cup {-v} \subseteq Literal
  BY DEF Readable, Literal
<1> QED BY <1>1, <1>4, <1>5 DEF Clausal

\* A blocking clause is about variables that the solvers read.
LEMMA BlockingClauseReadable ==
  ASSUME SetupInv, NEW T \in SUBSET (1..nArgs)
  PROVE  BlockingClause(T) \in SUBSET Readable(Helper)
<1>1. BlockingClause(T) \subseteq ArgumentLiterals
  BY DEF BlockingClause, ArgumentLiterals, Neg
<1> QED BY <1>1, ArgumentLiteralsReadable

\* A round of computeAllModels.
LEMMA BlockedModelStep ==
  ASSUME SetupInv, BackEndInv, UNCHANGED <<problem, setup>>,
         NEW T \in SUBSET (1..nArgs), NEW ms, NEW sels, BlockedModel(T, ms, sels)
  PROVE  BackEndInv'
<1>1. /\ BuildSolver /\ newFormula' = {Selected(BlockingClause(T), nVars + 1)}
      /\ nVars' = nVars + 1
  BY DEF BlockedModel
<1>2. nVars \in Nat /\ NbVarsOf(Helper) \in Nat /\ NbVarsOf(Helper) <= nVars
  BY ArgumentLiteralsReadable DEF BackEndInv
<1>3. Clausal(newFormula')
  <2>1. nVars + 1 \in Nat \ {0}
    BY <1>2
  <2> QED BY <1>1, <2>1, BlockingClauseReadable, SelectedClausal
<1>4. \A c \in newFormula' : \E l \in c : -l > NbVarsOf(Helper) /\ -l <= nVars'
  <2>1. -(nVars + 1) \in Selected(BlockingClause(T), nVars + 1)
    BY DEF Selected
  <2>2. -(-(nVars + 1)) > NbVarsOf(Helper) /\ -(-(nVars + 1)) <= nVars'
    BY <1>1, <1>2
  <2> QED BY <1>1, <2>1, <2>2
<1>5. nVars' \in Nat /\ nVars <= nVars'
  BY <1>1, <1>2
<1> QED BY <1>1, <1>3, <1>4, <1>5, BuildSolverStep

\* Unit clauses that retire selectors.
LEMMA RetiredClausal ==
  ASSUME SetupInv, BackEndInv, NEW V \in SUBSET Nat, IsFiniteSet(V),
         \A v \in V : v > NbVarsOf(Helper) /\ v <= nVars
  PROVE  /\ Clausal({{-v} : v \in V})
         /\ \A c \in {{-v} : v \in V} : \E l \in c : -l > NbVarsOf(Helper) /\ -l <= nVars
<1>1. \A v \in V : v \in Nat \ {0} /\ -(-v) = v
  BY ArgumentLiteralsReadable
<1>2. UNION {{-v} : v \in V} = {-v : v \in V}
  OBVIOUS
<1>3. IsFiniteSet({-v : v \in V})
  <2> DEFINE f == [v \in V |-> -v]
             U == {-v : v \in V}
  <2>1. f \in Surjection(V, U)
    BY DEF Surjection
  <2> HIDE DEF f
  <2> QED BY <2>1, FS_Surjection DEF ExistsSurjection
<1>4. {-v : v \in V} \subseteq Literal
  BY <1>1 DEF Literal
<1> QED BY <1>1, <1>2, <1>3, <1>4 DEF Clausal

----------------------------------------------------------------------------
(* The answers *)

\* The framework of a step is what the list of changes says, whatever the solver does.
LEMMA ExtensionsFixed ==
  ASSUME UNCHANGED <<problem, setup>>
  PROVE  /\ \A n : ExtensionsAt(n)' = ExtensionsAt(n)
         /\ \A n : Framework(n)' = Framework(n)
<1>1. \A n : Framework(n)' = Framework(n)
  BY ProblemFixed DEF Framework
<1>2. semantics' = semantics
  BY DEF setup
<1> QED BY <1>1, <1>2 DEF ExtensionsAt

\* What the formatter gets is right for the framework of the step.
LEMMA AnswerStep ==
  ASSUME SetupInv, UNCHANGED <<problem, setup>>, dynStep' = dynStep,
         NEW E, E = ExtensionsAt(dynStep + 1),
         task = "SE" => IF E = {} THEN written' = << >>
                        ELSE Len(written') = 1 /\ written'[1] \in E,
         task = "EE" => Range(written') = E /\ Len(written') = Cardinality(E),
         task = "DC" => (accepted' <=> \E S \in E : query \in S),
         task = "DS" => (accepted' <=> \A S \in E : query \in S)
  PROVE  AnswersCorrect'
<1>1. task \in {"SE", "EE", "DC", "DS"}
  BY ProblemAssumption DEF SetupInv
<1>2. task' = task /\ query' = query
  BY DEF setup
<1>3. ExtensionsAt(dynStep + 1)' = E
  BY ExtensionsFixed
<1> HIDE DEF ExtensionsAt
<1> QED BY <1>1, <1>2, <1>3 DEF AnswersCorrect

\* Between the answers nothing of them changes.
LEMMA AnswersKept ==
  ASSUME AnswersCorrect, UNCHANGED <<problem, setup>>,
         pc' = "returned" => pc = "returned" /\ UNCHANGED <<dynStep, written, accepted>>
  PROVE  AnswersCorrect'
<1>1. CASE pc' # "returned"
  BY <1>1 DEF AnswersCorrect
<1>2. CASE pc' = "returned"
  <2>1. pc = "returned" /\ dynStep' = dynStep /\ written' = written /\ accepted' = accepted
    BY <1>2
  <2>2. task' = task /\ query' = query
    BY DEF setup
  <2>3. ExtensionsAt(dynStep + 1)' = ExtensionsAt(dynStep + 1)
    BY <2>1, ExtensionsFixed
  <2> HIDE DEF ExtensionsAt
  <2> QED BY <2>1, <2>2, <2>3 DEF AnswersCorrect
<1> QED BY <1>1, <1>2
=============================================================================
