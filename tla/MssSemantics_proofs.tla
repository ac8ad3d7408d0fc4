------------------------- MODULE MssSemantics_proofs -------------------------
(* Proofs about the preferred, ideal, semi-stable and stage solvers, for any  *)
(* framework and any list of changes: what they write at every step is right. *)
EXTENDS MssSemantics, Encoding_proofs

----------------------------------------------------------------------------
(* What the enumerator finds *)

Present == Framework(dynStep + 1)

\* What the solvers maximise.
Compared(S) == IF RangeBased THEN RangeOf(Arg, Present, S) ELSE S

MaximalIn(Sets) ==
  {S \in Sets : \A T \in Sets :
     Compared(S) \subseteq Compared(T) => Compared(S) = Compared(T)}

Maximal == MaximalIn(StepSets)

\* The soft clauses that hold for S.
SoftOf(S) ==
  {k \in DOMAIN Softs : Softs[k] \cap Reading(semantics, Helper, Present, S) # {}}

Entry(S) == [ext |-> Coded(S), soft |-> SoftOf(S)]

\* The sets of the step and the semantics of these solvers.
LEMMA StepSetsAre ==
  ASSUME SetupInv
  PROVE  /\ semantics \in {"PR", "ID", "SST", "STG"}
         /\ \A S \in StepSets : S \in SUBSET Arg /\ ConflictFree(Present, S)
         /\ semantics # "STG" => StepSets = Complete(Arg, Present)
         /\ semantics = "STG" => StepSets = {S \in SUBSET Arg : ConflictFree(Present, S)}
         /\ StepSets \in SUBSET SUBSET Arg
<1>1. semantics \in {"PR", "ID", "SST", "STG"}
  BY MssProblemAssumption DEF SetupInv
<1>2. CASE semantics = "STG"
  BY <1>1, <1>2 DEF StepSets, Encoded, Present
<1>3. CASE semantics # "STG"
  <2>1. StepSets = Complete(Arg, Present)
    BY <1>1, <1>3 DEF StepSets, Encoded, Present
  <2> QED BY <1>1, <1>3, <2>1 DEF Complete
<1> QED BY <1>1, <1>2, <1>3

\* A soft clause stands for an argument in the extension, or in the range.
LEMMA SoftRange ==
  ASSUME SetupInv, StepFramework(Present), NEW S \in StepSets
  PROVE  /\ RangeBased =>
              /\ DOMAIN Softs = DOMAIN Order
              /\ \A k \in DOMAIN Order : k \in SoftOf(S) <=> Order[k] \in RangeOf(Arg, Present, S)
         /\ ~RangeBased =>
              /\ DOMAIN Softs = 1..nArgs
              /\ SoftOf(S) = Coded(S)
<1> DEFINE reading == Reading(semantics, Helper, Present, S)
<1>1. /\ S \in SUBSET Arg
      /\ Coded(S) \in SUBSET (1..nArgs)
      /\ \A x \in Arg : varOf[x] \in Coded(S) <=> x \in S
      /\ reading \cap (1..nArgs) = Coded(S)
      /\ semantics \in {"PR", "ID", "SST", "STG"}
  BY CodedExact, StepSetsAre DEF StepSets, Present
<1>2. /\ Encodes(semantics, Helper, nArgs) /\ Helper.var = varOf
      /\ nArgs \in Nat /\ \A x \in Arg : varOf[x] \in 1..nArgs
  BY HelperEncodes DEF SetupInv, MapExact
<1>3. CASE RangeBased
  <2>1. Softs = [k \in DOMAIN Order |-> {varOf[Order[k]], Helper.disj[Order[k]]}]
    BY <1>2, <1>3 DEF Softs, SoftClauses, RangeBased
  <2>2. ASSUME NEW x \in Arg
        PROVE  /\ varOf[x] \in reading <=> x \in S
               /\ Helper.disj[x] \in reading <=> Attacked(Present, S, x)
    <3>1. varOf[x] \in reading <=> x \in S
      BY <1>1, <1>2
    <3>2. \A y \in Arg : Helper.disj[y] \in Nat /\ Helper.disj[y] > nArgs
                         /\ Helper.disj[y] = nArgs + Position(y)
      <4>1. \A y \in Arg : Helper.disj[y] \in Nat \ {0} /\ Helper.disj[y] > nArgs
        BY <1>2, ArgumentVars
      <4>2. Helper.disj = [y \in Arg |-> nArgs + Position(y)]
        BY <1>2 DEF Encodes
      <4> QED BY <4>1, <4>2
    <3>3. \A y \in S : Helper.var[y] # Helper.disj[x]
      <4>1. \A y \in S : varOf[y] \in Nat /\ varOf[y] <= nArgs
        BY <1>1, <1>2
      <4> QED BY <1>2, <3>2, <4>1
    <3>4. \A y \in Arg : Helper.disj[y] = Helper.disj[x] => y = x
      <4>1. ASSUME NEW y \in Arg, Helper.disj[y] = Helper.disj[x] PROVE y = x
        <5>1. Position(y) = Position(x)
          BY <1>2, <3>2, <4>1, Positions
        <5> QED BY <5>1, Positions
      <4> QED BY <4>1
    <3>5. semantics # "ST"
      BY <1>1
    <3> QED BY <3>1, <3>3, <3>4, <3>5 DEF Reading
  <2>3. ASSUME NEW k \in DOMAIN Order
        PROVE  k \in SoftOf(S) <=> Order[k] \in RangeOf(Arg, Present, S)
    <3>1. Order[k] \in Arg
      BY Positions
    <3>2. k \in SoftOf(S) <=> varOf[Order[k]] \in reading \/ Helper.disj[Order[k]] \in reading
      BY <2>1 DEF SoftOf
    <3> HIDE DEF reading
    <3> QED BY <2>2, <3>1, <3>2 DEF RangeOf
  <2>4. DOMAIN Softs = DOMAIN Order
    BY <2>1
  <2> QED BY <1>3, <2>3, <2>4
<1>4. CASE ~RangeBased
  <2>1. Softs = [k \in 1..nArgs |-> {k}]
    BY <1>4 DEF Softs, SoftClauses, RangeBased
  <2>2. SoftOf(S) = reading \cap (1..nArgs)
    BY <2>1 DEF SoftOf
  <2> QED BY <1>1, <1>4, <2>1, <2>2
<1> QED BY <1>3, <1>4

\* The soft clauses are made of the variables of the encoding.
LEMMA SoftsBased ==
  ASSUME SetupInv, NEW k \in DOMAIN Softs
  PROVE  Softs[k] \subseteq 1..Helper.base
<1>1. /\ Encodes(semantics, Helper, nArgs) /\ Helper.var = varOf
      /\ \A x \in Arg : varOf[x] \in 1..nArgs
      /\ semantics # "ST"
      /\ nArgs \in Nat /\ Helper.base \in Nat /\ nArgs <= Helper.base
  BY HelperEncodes, StepSetsAre, ArgumentLiteralsReadable DEF SetupInv, MapExact
<1>2. CASE RangeBased
  <2>1. Softs = [j \in DOMAIN Order |-> {varOf[Order[j]], Helper.disj[Order[j]]}]
    BY <1>1, <1>2 DEF Softs, SoftClauses, RangeBased
  <2>2. Order[k] \in Arg
    BY <2>1, Positions
  <2>3. Helper.disj[Order[k]] \in Nat \ {0} /\ Helper.disj[Order[k]] <= Helper.base
    <3>1. Helper.disj[Order[k]] \in Nat \ {0}
      BY <1>1, <2>2, ArgumentVars
    <3>2. /\ Helper.disj[Order[k]] = nArgs + Position(Order[k])
          /\ Helper.base = nArgs + Len(Order)
      BY <1>1, <2>2 DEF Encodes
    <3> QED BY <1>1, <2>2, <3>1, <3>2, Positions
  <2>4. varOf[Order[k]] \in 1..Helper.base
    BY <1>1, <2>2
  <2> QED BY <1>1, <2>1, <2>3, <2>4
<1>3. CASE ~RangeBased
  <2>1. Softs = [j \in 1..nArgs |-> {j}]
    BY <1>3 DEF Softs, SoftClauses, RangeBased
  <2> QED BY <1>1, <2>1
<1> QED BY <1>2, <1>3

\* The enumerator compares the soft clauses as the semantics compare the sets.
LEMMA SoftOrder ==
  ASSUME SetupInv, StepFramework(Present), NEW S \in StepSets, NEW T \in StepSets
  PROVE  /\ SoftOf(S) \subseteq SoftOf(T) <=> Compared(S) \subseteq Compared(T)
         /\ SoftOf(S) = SoftOf(T) <=> Compared(S) = Compared(T)
<1>1. S \in SUBSET Arg /\ T \in SUBSET Arg
  BY StepSetsAre
<1>2. ASSUME NEW U \in StepSets, NEW V \in StepSets
      PROVE  SoftOf(U) \subseteq SoftOf(V) <=> Compared(U) \subseteq Compared(V)
  <2>1. U \in SUBSET Arg /\ V \in SUBSET Arg
    BY StepSetsAre
  <2>2. CASE RangeBased
    <3>1. \A k \in DOMAIN Order : /\ k \in SoftOf(U) <=> Order[k] \in RangeOf(Arg, Present, U)
                                  /\ k \in SoftOf(V) <=> Order[k] \in RangeOf(Arg, Present, V)
      BY <2>2, SoftRange
    <3>2. SoftOf(U) \subseteq DOMAIN Order /\ SoftOf(V) \subseteq DOMAIN Order
      BY <2>2, SoftRange DEF SoftOf
    <3>3. RangeOf(Arg, Present, U) \subseteq Arg /\ RangeOf(Arg, Present, V) \subseteq Arg
      BY <2>1 DEF RangeOf
    <3>4. Arg = {Order[k] : k \in DOMAIN Order}
      BY OrderAssumption
    <3> QED BY <2>2, <3>1, <3>2, <3>3, <3>4 DEF Compared
  <2>3. CASE ~RangeBased
    <3>1. SoftOf(U) = Coded(U) /\ SoftOf(V) = Coded(V)
      BY <2>3, SoftRange
    <3>2. \A x \in Arg : (varOf[x] \in Coded(U) <=> x \in U) /\ (varOf[x] \in Coded(V) <=> x \in V)
      BY CodedExact DEF StepSets, Present
    <3>3. Coded(U) \subseteq Coded(V) <=> U \subseteq V
      BY <2>1, <3>2 DEF Coded
    <3> QED BY <2>3, <3>1, <3>3 DEF Compared
  <2> QED BY <2>2, <2>3
<1>3. SoftOf(S) \subseteq SoftOf(T) <=> Compared(S) \subseteq Compared(T)
  BY <1>2
<1>4. SoftOf(T) \subseteq SoftOf(S) <=> Compared(T) \subseteq Compared(S)
  BY <1>2
<1> QED BY <1>3, <1>4

\* The models over the variables of the map and the disjunctions, with what is
\* left of them.
LEMMA FoundExact ==
  ASSUME SetupInv, ScanInv, BackEndInv, pc = "scan", i = Len(dynAttacks),
         NEW Q \in SUBSET ArgumentLiterals
  PROVE  {[ext |-> T \cap (1..nArgs), soft |-> {k \in DOMAIN Softs : Softs[k] \cap T # {}}] :
             T \in Models(Collected, Assumptions \cup Q, Helper.base)} =
           {Entry(S) : S \in {X \in StepSets :
                                Agrees(Reading(semantics, Helper, Present, X), Q)}}
<1> DEFINE allowed == {X \in StepSets : Agrees(Reading(semantics, Helper, Present, X), Q)}
           found(T) == [ext |-> T \cap (1..nArgs),
                        soft |-> {k \in DOMAIN Softs : Softs[k] \cap T # {}}]
           read(S) == Reading(semantics, Helper, Present, S) \cap (1..Helper.base)
<1>1. StepFramework(Present)
  BY AssumptionsExact DEF Present
<1>2. /\ Helper.base \in 0..Helper.base /\ Helper.base \in Nat /\ nArgs \in Nat
      /\ nArgs <= Helper.base
  BY ArgumentLiteralsReadable
<1>3. Models(Collected, Assumptions \cup Q, Helper.base) =
        Readings(semantics, Helper, Present, {}, Q, Helper.base)
  BY <1>2, CallModels, GivenKnows DEF Present
<1>4. \A X \in StepSets : Satisfies(Reading(semantics, Helper, Present, X), {})
  BY DEF Satisfies
<1>5. Readings(semantics, Helper, Present, {}, Q, Helper.base) = {read(S) : S \in allowed}
  <2> DEFINE kept == {X \in Encoded(semantics, Present) :
                        /\ Satisfies(Reading(semantics, Helper, Present, X), {})
                        /\ Agrees(Reading(semantics, Helper, Present, X), Q)}
  <2>1. kept = allowed
    BY <1>4 DEF StepSets, Present
  <2>2. Readings(semantics, Helper, Present, {}, Q, Helper.base) = {read(S) : S \in kept}
    BY DEF Readings
  <2> HIDE DEF kept, allowed
  <2> QED BY <2>1, <2>2
<1>6. ASSUME NEW S \in allowed PROVE found(read(S)) = Entry(S)
  <2>1. Reading(semantics, Helper, Present, S) \cap (1..nArgs) = Coded(S) /\ S \in StepSets
    BY <1>1, CodedExact DEF StepSets, Present
  <2>2. read(S) \cap (1..nArgs) = Coded(S)
    <3>1. (1..Helper.base) \cap (1..nArgs) = 1..nArgs
      BY <1>2
    <3> QED BY <2>1, <3>1
  <2>3. \A k \in DOMAIN Softs : Softs[k] \subseteq 1..Helper.base
    BY SoftsBased
  <2>4. {k \in DOMAIN Softs : Softs[k] \cap read(S) # {}} = SoftOf(S)
    BY <2>3 DEF SoftOf
  <2> QED BY <2>2, <2>4 DEF Entry
<1>7. {found(T) : T \in {read(S) : S \in allowed}} = {found(read(S)) : S \in allowed}
  OBVIOUS
<1>8. {found(read(S)) : S \in allowed} = {Entry(S) : S \in allowed}
  <2> HIDE DEF found, read, allowed
  <2> QED BY <1>6
<1> HIDE DEF read, allowed
<1>9. {found(T) : T \in Models(Collected, Assumptions \cup Q, Helper.base)} =
        {Entry(S) : S \in allowed}
  BY <1>3, <1>5, <1>7, <1>8
<1> QED BY <1>9 DEF allowed

\* An enumeration reports the maximal sets among those that its question allows.
LEMMA MssesExact ==
  ASSUME SetupInv, ScanInv, BackEndInv, pc = "scan", i = Len(dynAttacks),
         NEW Q \in SUBSET ArgumentLiterals
  PROVE  Msses(Assumptions \cup Q) =
           {Entry(S) : S \in MaximalIn({X \in StepSets :
                               Agrees(Reading(semantics, Helper, Present, X), Q)})}
<1> DEFINE allowed == {X \in StepSets : Agrees(Reading(semantics, Helper, Present, X), Q)}
           found == {Entry(S) : S \in allowed}
           maximal == {m \in found : \A n \in found : m.soft \subseteq n.soft => m.soft = n.soft}
<1>1. Msses(Assumptions \cup Q) = maximal
  <2> DEFINE all == {[ext |-> T \cap (1..nArgs),
                      soft |-> {k \in DOMAIN Softs : Softs[k] \cap T # {}}] :
                       T \in Models(Collected, Assumptions \cup Q, Helper.base)}
  <2>1. all = found
    BY FoundExact
  <2>2. Msses(Assumptions \cup Q) =
          {m \in all : \A n \in all : m.soft \subseteq n.soft => m.soft = n.soft}
    BY DEF Msses
  <2> HIDE DEF all, found
  <2> QED BY <2>1, <2>2
<1>2. StepFramework(Present)
  BY AssumptionsExact DEF Present
<1>3. \A S \in allowed : S \in StepSets /\ Entry(S).soft = SoftOf(S)
  BY DEF Entry
<1>4. \A S, T \in allowed : /\ SoftOf(S) \subseteq SoftOf(T) <=> Compared(S) \subseteq Compared(T)
                            /\ SoftOf(S) = SoftOf(T) <=> Compared(S) = Compared(T)
  BY <1>2, <1>3, SoftOrder
<1> HIDE DEF allowed
<1>5. ASSUME NEW S \in allowed
      PROVE  Entry(S) \in maximal <=> S \in MaximalIn(allowed)
  <2>1. Entry(S) \in maximal <=>
          \A T \in allowed : SoftOf(S) \subseteq SoftOf(T) => SoftOf(S) = SoftOf(T)
    BY <1>3
  <2> QED BY <1>4, <2>1 DEF MaximalIn
<1>6. MaximalIn(allowed) \subseteq allowed
  BY DEF MaximalIn
<1>7. maximal = {Entry(S) : S \in MaximalIn(allowed)}
  <2>1. maximal \subseteq {Entry(S) : S \in MaximalIn(allowed)}
    <3>1. ASSUME NEW m \in maximal PROVE m \in {Entry(S) : S \in MaximalIn(allowed)}
      <4>1. PICK S \in allowed : m = Entry(S)
        OBVIOUS
      <4> HIDE DEF maximal
      <4>2. S \in MaximalIn(allowed)
        BY <1>5, <3>1, <4>1
      <4> QED BY <4>1, <4>2
    <3> QED BY <3>1
  <2> HIDE DEF maximal
  <2>2. \A S \in MaximalIn(allowed) : Entry(S) \in maximal
    BY <1>5, <1>6
  <2> QED BY <2>1, <2>2
<1> QED BY <1>1, <1>7 DEF allowed

\* Every set lies below a maximal one; there is one at all.
LEMMA MaximalAbove ==
  ASSUME SetupInv, NEW Sets \in SUBSET StepSets, NEW S \in Sets
  PROVE  \E T \in MaximalIn(Sets) : Compared(S) \subseteq Compared(T)
<1> DEFINE Q == {Compared(T) : T \in {X \in Sets : Compared(S) \subseteq Compared(X)}}
<1>1. \A T \in StepSets : Compared(T) \in SUBSET Arg
  BY StepSetsAre DEF Compared, RangeOf
<1>2. Q \in SUBSET SUBSET Arg /\ Q # {}
  <2>1. Compared(S) \in Q
    OBVIOUS
  <2> QED BY <1>1, <2>1
<1>3. PICK U \in Q : \A V \in Q : U \subseteq V => U = V
  <2> HIDE DEF Q
  <2> QED BY <1>2, ArgFinite, MaximalExists
<1>4. PICK T \in Sets : Compared(S) \subseteq Compared(T) /\ U = Compared(T)
  BY <1>3
<1>5. ASSUME NEW X \in Sets, Compared(T) \subseteq Compared(X)
      PROVE  Compared(T) = Compared(X)
  <2>1. Compared(X) \in Q
    BY <1>4, <1>5
  <2> HIDE DEF Q
  <2> QED BY <1>3, <1>4, <1>5, <2>1
<1> QED BY <1>4, <1>5 DEF MaximalIn

\* Every step has a set that the encoding allows, and so a maximal one: the empty set is
\* admissible, hence some set is complete.
LEMMA StepSetsNonEmpty ==
  ASSUME SetupInv
  PROVE  StepSets # {} /\ Maximal # {} /\ Maximal \subseteq StepSets
<1>1. StepSets # {}
  <2>1. Complete(Arg, Present) # {}
    BY ArgFinite, GroundedExists
  <2>2. {} \in {S \in SUBSET Arg : ConflictFree(Present, S)}
    BY DEF ConflictFree
  <2> QED BY <2>1, <2>2, StepSetsAre
<1>2. PICK S \in StepSets : TRUE
  BY <1>1
<1>3. Maximal # {}
  BY MaximalAbove DEF Maximal
<1> QED BY <1>1, <1>3 DEF Maximal, MaximalIn

\* They are the extensions, of the preferred ones for the ideal semantics.
LEMMA ExtensionsMaximal ==
  ASSUME SetupInv
  PROVE  /\ semantics # "ID" => ExtensionsAt(dynStep + 1) = Maximal
         /\ semantics = "ID" => /\ ExtensionsAt(dynStep + 1) = {Ideal(Arg, Present)}
                                /\ Maximal = Preferred(Arg, Present)
<1>1. semantics \in {"PR", "ID", "SST", "STG"}
  BY StepSetsAre
<1>2. CASE semantics \in {"PR", "ID"}
  <2>1. StepSets = Complete(Arg, Present) /\ \A S : Compared(S) = S
    BY <1>2, StepSetsAre DEF Compared, RangeBased
  <2>2. Maximal = Preferred(Arg, Present)
    BY <2>1 DEF Maximal, MaximalIn, Preferred
  <2> QED BY <1>2, <2>2 DEF ExtensionsAt, Present
<1>3. CASE semantics \in {"SST", "STG"}
  <2>1. \A S : Compared(S) = RangeOf(Arg, Present, S)
    BY <1>3 DEF Compared, RangeBased
  <2>2. Maximal = MaxRange(Arg, Present, StepSets)
    BY <2>1 DEF Maximal, MaximalIn, MaxRange
  <2>3. CASE semantics = "SST"
    BY <1>3, <2>2, <2>3, StepSetsAre DEF ExtensionsAt, Present, SemiStable
  <2>4. CASE semantics = "STG"
    BY <1>3, <2>2, <2>4, StepSetsAre DEF ExtensionsAt, Present, Stage
  <2> QED BY <1>3, <2>3, <2>4
<1> QED BY <1>1, <1>2, <1>3

\* Different sets with the same range are not parts of each other.
LEMMA SameRange ==
  ASSUME SetupInv, NEW S \in StepSets, NEW T \in StepSets, S \subseteq T,
         Compared(T) \subseteq Compared(S)
  PROVE  S = T
<1>1. S \in SUBSET Arg /\ T \in SUBSET Arg /\ ConflictFree(Present, T)
  BY StepSetsAre
<1>2. CASE RangeBased
  <2>1. ASSUME NEW x \in T, x \notin S PROVE FALSE
    <3>1. x \in RangeOf(Arg, Present, T)
      BY <2>1 DEF RangeOf
    <3>2. x \in RangeOf(Arg, Present, S)
      BY <1>2, <3>1 DEF Compared
    <3>3. Attacked(Present, S, x)
      BY <2>1, <3>2 DEF RangeOf
    <3> QED BY <1>1, <2>1, <3>3 DEF Attacked, ConflictFree
  <2> QED BY <2>1
<1>3. CASE ~RangeBased
  BY <1>3 DEF Compared
<1> QED BY <1>2, <1>3

\* A larger set compares as larger.
LEMMA ComparedMonotone ==
  ASSUME NEW S, NEW T, S \subseteq T
  PROVE  Compared(S) \subseteq Compared(T)
BY DEF Compared, RangeOf, Attacked

\* A maximal set that is part of every set is the only one.
LEMMA LeastAlone ==
  ASSUME SetupInv, NEW S \in Maximal, \A T \in StepSets : S \subseteq T
  PROVE  Maximal = {S}
<1>1. ASSUME NEW T \in StepSets PROVE S = T
  <2>1. Compared(S) \subseteq Compared(T)
    BY <1>1, ComparedMonotone
  <2>2. Compared(S) = Compared(T) /\ S \in StepSets
    BY <2>1 DEF Maximal, MaximalIn
  <2> QED BY <2>2, SameRange
<1> QED BY <1>1, StepSetsNonEmpty

\* Propagation finds no more than what every set has, even where the solvers
\* propagate without the assumptions of the step.
LEMMA PropagationSound ==
  ASSUME SetupInv, ScanInv, BackEndInv, pc = "scan", i = Len(dynAttacks),
         NEW P \in Propagations(PropagationAssumptions)
  PROVE  /\ P \in SUBSET (1..nArgs)
         /\ \A S \in StepSets : P \subseteq Coded(S)
<1> DEFINE known == PropagationAssumptions
           reached == Propagate(Given, known)
<1>1. /\ Assumptions \in SUBSET Literal /\ known \subseteq Assumptions
      /\ Clausal(Given) /\ nArgs \in Nat
  BY AssumptionsExact, GivenKnows, ClausalSubset, ArgumentLiteralsReadable
     DEF BackEndInv, PropagationAssumptions
<1> HIDE DEF known
<1>2. P \in SUBSET (1..nArgs)
  BY DEF Propagations
<1>3. ASSUME NEW S \in StepSets PROVE P \subseteq Coded(S)
  <2>1. PICK A \in Assignments : /\ Satisfies(A, Given) /\ Agrees(A, Assumptions)
                                 /\ A \cap (1..nArgs) = Coded(S)
    <3>1. Coded(S) \in Models(Given, Assumptions, nArgs)
      <4>1. Models(Given, Assumptions, nArgs) = {Coded(T) : T \in StepSets}
        BY GivenKnows, ArgumentModels DEF StepSets
      <4> QED BY <4>1
    <3>2. Models(Given, Assumptions, nArgs) =
            {A \cap (1..nArgs) :
               A \in {B \in Assignments : Satisfies(B, Given) /\ Agrees(B, Assumptions)}}
      BY ONLY <1>1, ModelsExact
    <3> QED BY <3>1, <3>2
  <2>2. Agrees(A, known)
    BY <1>1, <2>1 DEF Agrees
  <2>3. known \in SUBSET Literal
    BY <1>1
  <2>4. \A v \in 1..nArgs : v > 0 /\ -v \in Literal /\ ~(-v > 0) /\ -(-v) = v
    BY <1>1 DEF Literal
  <2>5. ASSUME NEW v \in reached \cap (1..nArgs) PROVE v \in A
    <3>1. Agrees(A, reached)
      BY <1>1, <2>1, <2>2, <2>3, PropagateExact
    <3> HIDE DEF reached
    <3> QED BY <2>4, <2>5, <3>1 DEF Agrees, IsTrue
  <2>6. ASSUME NEW v \in 1..nArgs, ~Satisfiable(Given, known \cup {-v}) PROVE v \in A
    <3>1. SUFFICES ASSUME v \notin A PROVE FALSE
      OBVIOUS
    <3>2. Agrees(A, known \cup {-v})
      BY <2>2, <2>4, <3>1 DEF Agrees, IsTrue
    <3>3. known \cup {-v} \in SUBSET Literal
      BY <2>3, <2>4
    <3>4. HasModel(Given, known \cup {-v})
      BY <2>1, <3>2 DEF HasModel
    <3> QED BY <1>1, <2>6, <3>3, <3>4, SatisfiableExact
  <2>7. \/ P = reached \cap (1..nArgs)
        \/ P = {v \in 1..nArgs : ~Satisfiable(Given, known \cup {-v})}
    BY DEF Propagations, known
  <2> HIDE DEF reached
  <2>8. P \subseteq A
    BY <2>5, <2>6, <2>7
  <2> QED BY <1>2, <2>1, <2>8
<1> QED BY <1>2, <1>3

\* How the clauses about a range and about its extensions read for a set.
LEMMA SoftReads ==
  ASSUME SetupInv, NEW X, NEW k \in DOMAIN Softs
  PROVE  /\ Softs[k] \in SUBSET Readable(Helper) /\ Neg(Softs[k]) \in SUBSET Readable(Helper)
         /\ (\E l \in Softs[k] : IsTrue(Reading(semantics, Helper, Present, X), l))
              <=> k \in SoftOf(X)
         /\ Agrees(Reading(semantics, Helper, Present, X), Neg(Softs[k])) <=> k \notin SoftOf(X)
<1> DEFINE A == Reading(semantics, Helper, Present, X)
<1>1. Softs[k] \subseteq 1..Helper.base /\ Helper.base \in Nat
  BY SoftsBased, ArgumentLiteralsReadable
<1>2. k \in SoftOf(X) <=> \E l \in Softs[k] : l \in A
  BY DEF SoftOf
<1> HIDE DEF A
<1>3. \A l \in Softs[k] : /\ l \in Nat \ {0} /\ l > 0 /\ ~(-l > 0) /\ -(-l) = l
                          /\ l \in Readable(Helper) /\ -l \in Readable(Helper)
  BY <1>1 DEF Readable, Literal
<1>4. \A l \in Softs[k] : (IsTrue(A, l) <=> l \in A) /\ (IsTrue(A, -l) <=> l \notin A)
  BY <1>3 DEF IsTrue
<1>5. Agrees(A, Neg(Softs[k])) <=> k \notin SoftOf(X)
  BY <1>2, <1>4 DEF Agrees, Neg
<1>6. Neg(Softs[k]) \in SUBSET Readable(Helper)
  BY <1>3 DEF Neg
<1> QED BY <1>2, <1>3, <1>4, <1>5, <1>6 DEF A

\* When the soft clauses are about ranges, the blocking clauses of a set are false of
\* that set and true of every other set with the same range.
LEMMA OtherReads ==
  ASSUME SetupInv, StepFramework(Present), RangeBased,
         NEW S \in StepSets, NEW X \in StepSets, SoftOf(X) = SoftOf(S)
  PROVE  LET A == Reading(semantics, Helper, Present, X)
         IN  /\ BlockingClause(Coded(S)) = Neg(Coded(S))
             /\ (\E l \in Neg(Coded(S)) : IsTrue(A, l)) <=> X # S
             /\ (\E l \in (1..nArgs) \ Coded(S) : IsTrue(A, l)) <=> X # S
<1> DEFINE reads(l) == IsTrue(Reading(semantics, Helper, Present, X), l)
<1>1. /\ Coded(S) \subseteq 1..nArgs /\ Coded(X) \subseteq 1..nArgs
      /\ \A v \in 1..nArgs : (reads(v) <=> v \in Coded(X)) /\ (reads(-v) <=> v \notin Coded(X))
      /\ S \subseteq Arg /\ X \subseteq Arg
      /\ \A x \in Arg : (varOf[x] \in Coded(S) <=> x \in S) /\ (varOf[x] \in Coded(X) <=> x \in X)
  BY CodedExact DEF StepSets, Present
<1>2. (\E v \in Coded(S) : v \notin Coded(X)) <=> ~(S \subseteq X)
  BY <1>1 DEF Coded
<1>3. (\E v \in (1..nArgs) \ Coded(S) : v \in Coded(X)) <=> ~(X \subseteq S)
  BY <1>1 DEF Coded
<1>4. (S \subseteq X => X = S) /\ (X \subseteq S => X = S)
  <2>1. Compared(X) = Compared(S)
    BY SoftOrder
  <2> QED BY <2>1, SameRange
<1> HIDE DEF reads
<1>5. (\E l \in Neg(Coded(S)) : reads(l)) <=> ~(S \subseteq X)
  BY <1>1, <1>2 DEF Neg
<1>6. (\E l \in (1..nArgs) \ Coded(S) : reads(l)) <=> ~(X \subseteq S)
  BY <1>1, <1>3
<1>7. BlockingClause(Coded(S)) = Neg(Coded(S))
  BY DEF BlockingClause, RangeBased
<1> QED BY <1>4, <1>5, <1>6, <1>7 DEF reads

----------------------------------------------------------------------------
(* Invariants *)

\* A variable of the back end that the encoding does not use.
Beyond(v) == v \in Nat /\ NbVarsOf(Helper) < v /\ v <= nVars

\* A clause of a selector that is not among those in use.
Off(c, on) == \E l \in c : -l > NbVarsOf(Helper) /\ -l <= nVars /\ -l \notin on

RangeClauses == {Selected(Softs[k], selectors[k]) : k \in DOMAIN Order}

BlockingClauses ==
  {Selected(BlockingClause(models[j]), blockingSelectors[j]) : j \in DOMAIN models}

\* The selectors of the search, and the clauses they switch.
SelectorsInv ==
  /\ doing \in {"ranges", "models"} =>
       /\ selectors \in [DOMAIN Order -> Nat]
       /\ \A j, k \in DOMAIN Order : selectors[j] = selectors[k] => j = k
       /\ \A k \in DOMAIN Order : Beyond(selectors[k])
       /\ RangeClauses \subseteq Given
  /\ doing = "ranges" =>
       \A c \in Given \ ClausesOf(semantics, Helper) :
         c \in RangeClauses \/ Off(c, Range(selectors))
  /\ doing = "models" =>
       /\ msses # << >>
       /\ Beyond(blockingSel) /\ \A k \in DOMAIN Order : selectors[k] < blockingSel
       /\ models \in Seq({Coded(S) : S \in {X \in Maximal : SoftOf(X) = Head(msses).soft}})
       /\ blockingSelectors \in [DOMAIN models -> Nat]
       /\ \A j \in DOMAIN models :
            Beyond(blockingSelectors[j]) /\ blockingSel < blockingSelectors[j]
       /\ Another(Head(msses), blockingSel) \cup BlockingClauses \subseteq Given
       /\ \A c \in Given \ ClausesOf(semantics, Helper) :
            \/ c \in RangeClauses \cup Another(Head(msses), blockingSel) \cup BlockingClauses
            \/ Off(c, Range(selectors) \cup {blockingSel} \cup Range(blockingSelectors))

SetOf(m) == Decode(m.ext)

\* What an enumeration has found: maximal sets, each of another range.
Found(ms) ==
  /\ ms \in Seq({Entry(S) : S \in Maximal})
  /\ \A j, k \in 1..Len(ms) : ms[j].soft = ms[k].soft => j = k

\* The answer is complete.
Answered ==
  CASE task = "EE" -> Range(written) = Maximal /\ Len(written) = Cardinality(Maximal)
    [] task = "DC" -> accepted <=> \E S \in Maximal : query \in S
    [] task = "DS" -> accepted <=> \A S \in Maximal : query \in S

\* An extension that the answer already takes into account.
Settled(S) ==
  CASE task = "EE" -> S \in Range(written)
    [] task = "DC" -> query \notin S
    [] task = "DS" -> query \in S

\* An extension that the loop over the ranges has still to come to.
Coming(S) ==
  \E k \in 1..Len(msses) :
    /\ SoftOf(S) = msses[k].soft
    /\ S # SetOf(msses[k])
    /\ doing = "models" /\ k = 1 => \A j \in DOMAIN models : S # Decode(models[j])

\* The enumeration of the maximal sets.
MssesInv ==
  doing = "msses" =>
    /\ Found(msses)
    /\ \A S \in StepSets : grExt \subseteq Coded(S)
    /\ semantics = "ID" /\ stopEnum =>
         msses # << >> /\ (InAll \subseteq grExt \/ (task \in {"DC", "DS"} /\ Refuted))
    /\ semantics # "ID" =>
         /\ task # "SE"
         /\ stopEnum => Answered
         /\ ~stopEnum => /\ accepted = StatusAtStart
                         /\ \A k \in 1..Len(msses) : Settled(SetOf(msses[k]))
         /\ task = "EE" => written = [k \in 1..Len(msses) |-> SetOf(msses[k])]

\* The loop over the ranges.
RangesInv ==
  doing \in {"ranges", "models"} =>
    /\ RangeBased /\ task # "SE"
    /\ Found(msses)
    /\ stopEnum => Answered
    /\ ~stopEnum => /\ accepted = StatusAtStart
                    /\ \A S \in Maximal : ~Coming(S) => Settled(S)
    /\ task = "EE" => /\ written \in Seq(Maximal)
                      /\ \A j, k \in 1..Len(written) : written[j] = written[k] => j = k
                      /\ \A S \in Range(written) : ~Coming(S)

SolverInv ==
  /\ SetupInv /\ ScanInv /\ BackEndInv
  /\ doing \in {"nothing", "msses", "ranges", "models"} /\ stopEnum \in BOOLEAN
  /\ doing # "nothing" => pc = "scan" /\ i = Len(dynAttacks)
  /\ SelectorsInv /\ MssesInv /\ RangesInv
  /\ AnswersCorrect

----------------------------------------------------------------------------
(* The other extensions of a range *)

\* Those that are not kept out by the clauses: not the one of the enumeration, nor
\* the models so far.
LEMMA OthersExact ==
  ASSUME SolverInv, doing = "models"
  PROVE  OthersOfRange =
           {Coded(X) : X \in {Y \in StepSets : /\ SoftOf(Y) = Head(msses).soft
                                               /\ Y # SetOf(Head(msses))
                                               /\ \A j \in DOMAIN models : Y # Decode(models[j])}}
<1>0. /\ SetupInv /\ ScanInv /\ BackEndInv /\ RangeBased
      /\ pc = "scan" /\ i = Len(dynAttacks)
      /\ Found(msses) /\ msses # << >>
      /\ selectors \in [DOMAIN Order -> Nat]
      /\ \A j, k \in DOMAIN Order : selectors[j] = selectors[k] => j = k
      /\ \A k \in DOMAIN Order : Beyond(selectors[k])
      /\ RangeClauses \subseteq Given
      /\ Beyond(blockingSel) /\ \A k \in DOMAIN Order : selectors[k] < blockingSel
      /\ models \in Seq({Coded(S) : S \in {X \in Maximal : SoftOf(X) = Head(msses).soft}})
      /\ blockingSelectors \in [DOMAIN models -> Nat]
      /\ \A j \in DOMAIN models :
           Beyond(blockingSelectors[j]) /\ blockingSel < blockingSelectors[j]
      /\ Another(Head(msses), blockingSel) \cup BlockingClauses \subseteq Given
      /\ \A c \in Given \ ClausesOf(semantics, Helper) :
           \/ c \in RangeClauses \cup Another(Head(msses), blockingSel) \cup BlockingClauses
           \/ Off(c, Range(selectors) \cup {blockingSel} \cup Range(blockingSelectors))
  BY DEF SolverInv, SelectorsInv, RangesInv
<1> DEFINE m == Head(msses)
           on == {selectors[k] : k \in m.soft}
           off == {-selectors[k] : k \in DOMAIN Softs \ m.soft}
           live == {blockingSel} \cup Range(blockingSelectors)
           Z == on \cup live
           E == Z \cup off
           K == {Softs[k] : k \in m.soft} \cup {(1..nArgs) \ m.ext, Neg(m.ext)}
                \cup {BlockingClause(models[j]) : j \in DOMAIN models}
           Q == UNION {Neg(Softs[k]) : k \in DOMAIN Softs \ m.soft}
           N == NbVarsOf(Helper)
<1>1. StepFramework(Present)
  BY <1>0, AssumptionsExact DEF Present
<1>2. PICK M \in Maximal : m = Entry(M)
  <2>1. m \in {Entry(S) : S \in Maximal}
    BY <1>0, HeadTailProperties DEF Found
  <2> QED BY <2>1
<1>3. /\ M \in StepSets /\ m.ext = Coded(M) /\ m.soft = SoftOf(M) /\ SetOf(m) = M
      /\ m.ext \in SUBSET (1..nArgs)
  <2>1. M \in StepSets
    BY <1>0, StepSetsNonEmpty
  <2>2. Decode(Coded(M)) = M /\ Coded(M) \in SUBSET (1..nArgs)
    BY <1>0, <1>1, <2>1, CodedExact DEF StepSets, Present
  <2> QED BY <1>2, <2>1, <2>2 DEF Entry, SetOf
<1>4. DOMAIN Softs = DOMAIN Order /\ m.soft \subseteq DOMAIN Order
  BY <1>0, <1>1, <1>3, SoftRange DEF SoftOf
<1>5. ASSUME NEW j \in DOMAIN models
      PROVE  \E S \in StepSets : /\ models[j] = Coded(S) /\ SoftOf(S) = m.soft
                                 /\ Decode(models[j]) = S
  <2>1. models[j] \in {Coded(S) : S \in {X \in Maximal : SoftOf(X) = m.soft}}
    BY <1>0, <1>5, LenProperties, ElementOfSeq
  <2>2. PICK S \in Maximal : models[j] = Coded(S) /\ SoftOf(S) = m.soft
    BY <2>1
  <2>3. S \in StepSets
    BY <1>0, <2>2, StepSetsNonEmpty
  <2>4. Decode(Coded(S)) = S
    BY <1>0, <1>1, <2>3, CodedExact DEF StepSets, Present
  <2> QED BY <2>2, <2>3, <2>4
<1>6. N \in Nat /\ nVars \in Nat
  BY <1>0, ArgumentLiteralsReadable DEF BackEndInv
<1>7. Range(blockingSelectors) = {blockingSelectors[j] : j \in DOMAIN models}
  BY <1>0 DEF Range
<1>8. /\ Z \in SUBSET Nat /\ \A v \in Z : v > N
      /\ \A k \in DOMAIN Softs \ m.soft : selectors[k] \notin Z
  <2>1. \A v \in on : v \in Nat /\ v > N
    BY <1>0, <1>4, <1>6 DEF Beyond
  <2>2. \A v \in live : v \in Nat /\ v > N
    BY <1>0, <1>6, <1>7 DEF Beyond
  <2>3. ASSUME NEW k \in DOMAIN Softs \ m.soft PROVE selectors[k] \notin Z
    <3>1. selectors[k] \notin on
      BY <1>0, <1>4
    <3>2. selectors[k] < blockingSel /\ selectors[k] \in Nat /\ blockingSel \in Nat
      BY <1>0, <1>4 DEF Beyond
    <3>3. \A j \in DOMAIN models : blockingSelectors[j] # selectors[k]
      <4>1. \A j \in DOMAIN models : blockingSelectors[j] \in Nat /\ blockingSel < blockingSelectors[j]
        BY <1>0
      <4> QED BY <3>2, <4>1
    <3>4. selectors[k] \notin live
      BY <1>7, <3>2, <3>3
    <3> QED BY <3>1, <3>4
  <2> QED BY <2>1, <2>2, <2>3
<1>9. /\ \A v \in Z : v \in Literal /\ v > 0 /\ IsTrue(Z, v)
      /\ \A k \in DOMAIN Softs \ m.soft :
           LET l == -selectors[k]
           IN  l \in Literal /\ -l > N /\ IsTrue(Z, l) /\ selectors[k] \in Nat
  <2>1. \A v \in Z : v \in Literal /\ v > 0 /\ IsTrue(Z, v)
    <3> HIDE DEF Z
    <3> QED BY <1>6, <1>8 DEF Literal, IsTrue
  <2>2. ASSUME NEW k \in DOMAIN Softs \ m.soft
        PROVE  LET l == -selectors[k]
               IN  l \in Literal /\ -l > N /\ IsTrue(Z, l) /\ selectors[k] \in Nat
    <3>1. selectors[k] \in Nat /\ selectors[k] > N
      BY <1>0, <1>4, <1>6 DEF Beyond
    <3>2. selectors[k] \notin Z
      BY <1>8
    <3> HIDE DEF Z
    <3>3. -(-selectors[k]) = selectors[k] /\ ~(-selectors[k] > 0) /\ -selectors[k] # 0
      BY <1>6, <3>1
    <3> QED BY <3>1, <3>2, <3>3 DEF Literal, IsTrue
  <2> QED BY <2>1, <2>2
<1>10. K \subseteq SUBSET Readable(Helper) /\ Q \subseteq Readable(Helper)
  <2>1. \A k \in DOMAIN Softs : /\ Softs[k] \in SUBSET Readable(Helper)
                                /\ Neg(Softs[k]) \in SUBSET Readable(Helper)
    BY <1>0, SoftReads
  <2>2. ((1..nArgs) \ m.ext) \in SUBSET Readable(Helper) /\ Neg(m.ext) \in SUBSET Readable(Helper)
    <3>1. (1..nArgs) \cup Neg(1..nArgs) \subseteq Readable(Helper)
      BY <1>0, ArgumentLiteralsReadable DEF ArgumentLiterals
    <3>2. Neg(m.ext) \subseteq Neg(1..nArgs)
      BY <1>3 DEF Neg
    <3> QED BY <3>1, <3>2
  <2>3. ASSUME NEW j \in DOMAIN models PROVE BlockingClause(models[j]) \in SUBSET Readable(Helper)
    <3>1. models[j] \in SUBSET (1..nArgs)
      BY <1>0, <1>1, <1>5, CodedExact DEF StepSets, Present
    <3> QED BY <1>0, <3>1, BlockingClauseReadable
  <2>4. \A d \in K : d \in SUBSET Readable(Helper)
    BY <1>4, <2>1, <2>2, <2>3
  <2> QED BY <2>1, <2>4
<1>11. Question(semantics, Helper, Given, Z, K, E, Q)
  <2>1. Clausal(Given) /\ ClausesOf(semantics, Helper) \subseteq Given
    BY <1>0, GivenKnows, ClausalSubset DEF BackEndInv
  <2>2. ASSUME NEW c \in Given \ ClausesOf(semantics, Helper)
        PROVE  \/ \E l \in c : (l > N \/ -l > N) /\ IsTrue(Z, l)
               \/ \E d \in K : d \subseteq c
    <3>1. CASE c \in RangeClauses
      <4>1. PICK k \in DOMAIN Order : c = Softs[k] \cup {-selectors[k]}
        BY <3>1 DEF RangeClauses, Selected
      <4>2. CASE k \in m.soft
        <5>1. Softs[k] \in K
          BY <4>2
        <5> HIDE DEF K
        <5> QED BY <4>1, <5>1
      <4>3. CASE k \notin m.soft
        <5>1. -selectors[k] \in c /\ -(-selectors[k]) > N /\ IsTrue(Z, -selectors[k])
          BY <1>4, <1>9, <4>1, <4>3
        <5> HIDE DEF Z, K, N
        <5> QED BY <5>1
      <4> QED BY <4>2, <4>3
    <3>2. CASE c \in Another(m, blockingSel)
      <4>1. (1..nArgs) \ m.ext \in K /\ Neg(m.ext) \in K
        OBVIOUS
      <4>2. (1..nArgs) \ m.ext \subseteq c \/ Neg(m.ext) \subseteq c
        BY <3>2 DEF Another, Selected
      <4> HIDE DEF K
      <4> QED BY <4>1, <4>2
    <3>3. CASE c \in BlockingClauses
      <4>1. PICK j \in DOMAIN models : BlockingClause(models[j]) \subseteq c
        BY <3>3 DEF BlockingClauses, Selected
      <4>2. BlockingClause(models[j]) \in K
        OBVIOUS
      <4> HIDE DEF K
      <4> QED BY <4>1, <4>2
    <3>4. CASE Off(c, Range(selectors) \cup {blockingSel} \cup Range(blockingSelectors))
      <4>1. PICK l \in c : -l > N /\ -l \notin Range(selectors) \cup live
        BY <3>4 DEF Off
      <4>2. Z \subseteq Range(selectors) \cup live
        BY <1>0, <1>4 DEF Range
      <4>3. l \in Int
        BY <2>1, <2>2, <4>1 DEF Clausal, Literal
      <4> HIDE DEF Z
      <4>4. IsTrue(Z, l)
        BY <1>6, <4>1, <4>2, <4>3 DEF IsTrue
      <4> HIDE DEF N
      <4> QED BY <4>1, <4>4
    <3> QED BY <1>0, <2>2, <3>1, <3>2, <3>3, <3>4
  <2>3. \A l \in E : l \in Literal /\ (l > N \/ -l > N) /\ IsTrue(Z, l)
    <3>1. \A l \in Z : l \in Literal /\ l > N /\ IsTrue(Z, l)
      BY <1>8, <1>9
    <3>2. \A l \in off : l \in Literal /\ -l > N /\ IsTrue(Z, l)
      BY <1>9
    <3> HIDE DEF Z, off, N
    <3> QED BY <3>1, <3>2
  <2>4. ASSUME NEW d \in K PROVE \E c \in Given : c \subseteq d \cup Neg(E)
    <3>1. \A v \in Z : -v \in Neg(E)
      BY DEF Neg
    <3>2. CASE d \in {Softs[k] : k \in m.soft}
      <4>1. PICK k \in m.soft : d = Softs[k]
        BY <3>2
      <4>2. Selected(Softs[k], selectors[k]) \in Given
        BY <1>0, <1>4 DEF RangeClauses
      <4>3. selectors[k] \in Z
        OBVIOUS
      <4> HIDE DEF Z, E
      <4> QED BY <3>1, <4>1, <4>2, <4>3 DEF Selected
    <3>3. CASE d \in {(1..nArgs) \ m.ext, Neg(m.ext)}
      <4>1. Selected(d, blockingSel) \in Given
        BY <1>0, <3>3 DEF Another
      <4>2. blockingSel \in Z
        OBVIOUS
      <4> HIDE DEF Z, E
      <4> QED BY <3>1, <4>1, <4>2 DEF Selected
    <3>4. CASE d \in {BlockingClause(models[j]) : j \in DOMAIN models}
      <4>1. PICK j \in DOMAIN models : d = BlockingClause(models[j])
        BY <3>4
      <4>2. Selected(d, blockingSelectors[j]) \in Given
        BY <1>0, <4>1 DEF BlockingClauses
      <4>3. blockingSelectors[j] \in Z
        BY <1>7
      <4> HIDE DEF Z, E
      <4> QED BY <3>1, <4>2, <4>3 DEF Selected
    <3> QED BY <2>4, <3>2, <3>3, <3>4
  <2> HIDE DEF Z, E, K, Q
  <2> QED BY <1>8, <1>10, <2>1, <2>2, <2>3, <2>4 DEF Question, N
<1>12. OthersOfRange = Readings(semantics, Helper, Present, K, Q, nArgs)
  <2>1. nArgs \in 0..Helper.base
    BY <1>0, ArgumentLiteralsReadable
  <2>2. RangeAssumptions(m) = on \cup off \cup Q
    BY DEF RangeAssumptions
  <2>3. RangeAssumptions(m) \cup {blockingSel} \cup Assumptions \cup Range(blockingSelectors) =
          Assumptions \cup E \cup Q
    BY <2>2
  <2> HIDE DEF Z, E, K, Q
  <2> QED BY <1>0, <1>11, <2>1, <2>3, StepModels DEF ModelsOf, OthersOfRange, Present
<1>13. ASSUME NEW X \in StepSets
       PROVE  Satisfies(Reading(semantics, Helper, Present, X), K)
                /\ Agrees(Reading(semantics, Helper, Present, X), Q) <=>
              /\ SoftOf(X) = m.soft /\ X # M
              /\ \A j \in DOMAIN models : X # Decode(models[j])
  <2> DEFINE A == Reading(semantics, Helper, Present, X)
             sat(d) == \E l \in d : IsTrue(A, l)
  <2>1. SoftOf(X) \subseteq DOMAIN Softs
    BY DEF SoftOf
  <2>2. Agrees(A, Q) <=> SoftOf(X) \subseteq m.soft
    <3>1. Agrees(A, Q) <=> \A k \in DOMAIN Softs \ m.soft : Agrees(A, Neg(Softs[k]))
      BY DEF Agrees
    <3>2. \A k \in DOMAIN Softs : Agrees(A, Neg(Softs[k])) <=> k \notin SoftOf(X)
      BY <1>0, SoftReads
    <3> HIDE DEF A, Q
    <3> QED BY <2>1, <3>1, <3>2
  <2>3. (\A k \in m.soft : sat(Softs[k])) <=> m.soft \subseteq SoftOf(X)
    <3>1. \A k \in DOMAIN Softs : sat(Softs[k]) <=> k \in SoftOf(X)
      BY <1>0, SoftReads
    <3> HIDE DEF sat
    <3> QED BY <1>4, <3>1
  <2>4. Satisfies(A, K) <=> /\ \A k \in m.soft : sat(Softs[k])
                            /\ sat((1..nArgs) \ m.ext) /\ sat(Neg(m.ext))
                            /\ \A j \in DOMAIN models : sat(BlockingClause(models[j]))
    <3>1. Satisfies(A, K) <=> \A d \in K : sat(d)
      BY DEF Satisfies
    <3> HIDE DEF A, sat
    <3> QED BY <3>1
  <2>5. ASSUME SoftOf(X) = m.soft
        PROVE  /\ sat((1..nArgs) \ m.ext) /\ sat(Neg(m.ext)) <=> X # M
               /\ \A j \in DOMAIN models : sat(BlockingClause(models[j])) <=> X # Decode(models[j])
    <3>1. sat((1..nArgs) \ m.ext) /\ sat(Neg(m.ext)) <=> X # M
      BY <1>0, <1>1, <1>3, <2>5, OtherReads
    <3>2. ASSUME NEW j \in DOMAIN models
          PROVE  sat(BlockingClause(models[j])) <=> X # Decode(models[j])
      <4>1. PICK S \in StepSets : /\ models[j] = Coded(S) /\ SoftOf(S) = m.soft
                                  /\ Decode(models[j]) = S
        BY <1>5
      <4> QED BY <1>0, <1>1, <2>5, <4>1, OtherReads
    <3> QED BY <3>1, <3>2
  <2> HIDE DEF A, sat, K, Q, m
  <2> QED BY <2>2, <2>3, <2>4, <2>5 DEF A
<1>14. Readings(semantics, Helper, Present, K, Q, nArgs) =
         {Coded(X) : X \in {Y \in StepSets : /\ SoftOf(Y) = m.soft /\ Y # M
                                             /\ \A j \in DOMAIN models : Y # Decode(models[j])}}
  <2> DEFINE allowed == {X \in StepSets : /\ Satisfies(Reading(semantics, Helper, Present, X), K)
                                          /\ Agrees(Reading(semantics, Helper, Present, X), Q)}
             others == {Y \in StepSets : /\ SoftOf(Y) = m.soft /\ Y # M
                                         /\ \A j \in DOMAIN models : Y # Decode(models[j])}
  <2>1. allowed = others
    BY <1>13
  <2>2. Readings(semantics, Helper, Present, K, Q, nArgs) =
          {Reading(semantics, Helper, Present, S) \cap (1..nArgs) : S \in allowed}
    BY DEF Readings, StepSets, Present
  <2>3. \A X \in StepSets : Reading(semantics, Helper, Present, X) \cap (1..nArgs) = Coded(X)
    BY <1>0, <1>1, CodedExact DEF StepSets, Present
  <2>4. \A X \in others : Reading(semantics, Helper, Present, X) \cap (1..nArgs) = Coded(X)
    BY <2>3
  <2> HIDE DEF allowed, others
  <2> QED BY <2>1, <2>2, <2>4 DEF others
<1> HIDE DEF K, Q
<1> QED BY <1>3, <1>12, <1>14

----------------------------------------------------------------------------
(* The steps, as steps of the task *)

\* Every step is one of the decorator and dynAssumps, or leaves them alone; the
\* problem and its encoding stay.
LEMMA TaskStep ==
  ASSUME [SolverNext]_allVars
  PROVE  [Next]_vars /\ UNCHANGED <<problem, setup>>
<1>1. CASE Between
  BY <1>1 DEF Between, solverVars, Next, ScanApplied, ScanPending, NextStep, Advance, Finish
<1>2. CASE \/ OneMaximal \/ GroundedDecides \/ CredulousPreferred \/ EndPreferred
           \/ EndIdeal \/ EndRangesStopped \/ EndRanges
  <2>1. Call /\ UNCHANGED setup
    BY <1>2 DEF OneMaximal, GroundedDecides, CredulousPreferred, EndPreferred,
                EndIdeal, EndRangesStopped, EndRanges, Returns
  <2> QED BY <2>1 DEF Next, Call
<1>3. CASE StartMsses \/ NextMss \/ SelectRanges \/ StartModels \/ NextModel \/ EndModels
  BY <1>3 DEF StartMsses, NextMss, SelectRanges, StartModels, NextModel, EndModels, vars
<1>4. CASE UNCHANGED allVars
  BY <1>4 DEF allVars, solverVars, vars
<1> QED BY <1>1, <1>2, <1>3, <1>4 DEF SolverNext

\* The solvers change neither the problem nor the map, and the decorator scans as it does alone.
LEMMA SetupStep ==
  ASSUME SetupInv, ScanInv, [SolverNext]_allVars
  PROVE  SetupInv' /\ ScanInv'
<1>1. [Next]_vars /\ UNCHANGED <<problem, setup>>
  BY TaskStep
<1>2. Base /\ Base'
  BY <1>1, BasePreserved DEF SetupInv
<1>3. SetupInv'
  BY <1>1, <1>2, SetupPreserved
<1>4. ScanInv'
  BY <1>1, <1>2, ScanInvPreserved
<1> QED BY <1>3, <1>4

\* What depends on the problem and the step only.
LEMMA Steady ==
  ASSUME UNCHANGED <<problem, setup>>, dynStep' = dynStep
  PROVE  /\ Present' = Present /\ StepSets' = StepSets /\ Softs' = Softs
         /\ Maximal' = Maximal
         /\ (RangeBased' <=> RangeBased)
         /\ ClausesOf(semantics, Helper)' = ClausesOf(semantics, Helper)
         /\ NbVarsOf(Helper)' = NbVarsOf(Helper)
         /\ \A S : Coded(S)' = Coded(S) /\ SoftOf(S)' = SoftOf(S) /\ Entry(S)' = Entry(S)
         /\ \A T : Decode(T)' = Decode(T) /\ BlockingClause(T)' = BlockingClause(T)
         /\ \A m, s : Another(m, s)' = Another(m, s)
<1>1. Helper' = Helper /\ UNCHANGED <<semantics, task, query, varOf, nArgs>>
  BY DEF setup, Helper
<1>2. Present' = Present
  BY ExtensionsFixed DEF Present
<1>3. StepSets' = StepSets
  BY <1>1, <1>2 DEF StepSets, Present
<1>4. Softs' = Softs
  BY <1>1 DEF Softs
<1>5. \A S : Coded(S)' = Coded(S) /\ SoftOf(S)' = SoftOf(S) /\ Entry(S)' = Entry(S)
  <2>1. \A S : Coded(S)' = Coded(S)
    BY <1>1 DEF Coded
  <2>2. \A S : SoftOf(S)' = SoftOf(S)
    BY <1>1, <1>2, <1>4 DEF SoftOf
  <2> QED BY <2>1, <2>2 DEF Entry
<1>6. Maximal' = Maximal
  <2>1. \A S : Compared(S)' = Compared(S)
    BY <1>1, <1>2 DEF Compared, RangeBased
  <2> QED BY <1>3, <2>1 DEF Maximal, MaximalIn
<1>7. /\ ClausesOf(semantics, Helper)' = ClausesOf(semantics, Helper)
      /\ NbVarsOf(Helper)' = NbVarsOf(Helper)
  BY <1>1, ClausesFixed
<1>8. /\ (RangeBased' <=> RangeBased)
      /\ \A T : Decode(T)' = Decode(T) /\ BlockingClause(T)' = BlockingClause(T)
  BY <1>1 DEF RangeBased, Decode, BlockingClause
<1>9. \A m, s : Another(m, s)' = Another(m, s)
  BY <1>1 DEF Another
<1> QED BY <1>2, <1>3, <1>4, <1>5, <1>6, <1>7, <1>8, <1>9

----------------------------------------------------------------------------
(* The answers that need no enumeration *)

\* Without another question: the extensions, as the enumerator reports them.
LEMMA MssesAll ==
  ASSUME SetupInv, ScanInv, BackEndInv, pc = "scan", i = Len(dynAttacks)
  PROVE  Msses(Assumptions) = {Entry(S) : S \in Maximal}
<1> DEFINE none == {}
<1>1. Msses(Assumptions \cup none) =
        {Entry(S) : S \in MaximalIn({X \in StepSets :
                            Agrees(Reading(semantics, Helper, Present, X), none)})}
  BY MssesExact
<1>2. {X \in StepSets : Agrees(Reading(semantics, Helper, Present, X), none)} = StepSets
  BY DEF Agrees
<1>3. Assumptions \cup none = Assumptions
  OBVIOUS
<1> HIDE DEF none
<1> QED BY <1>1, <1>2, <1>3 DEF Maximal

\* buildEnumerator moves the clauses that wait.
LEMMA BuildEnumeratorStep ==
  ASSUME SetupInv, BackEndInv, UNCHANGED <<problem, setup>>, BuildEnumerator
  PROVE  BackEndInv'
<1>1. /\ formula' = Collected /\ newFormula' = {}
      /\ UNCHANGED <<hasSolver, engine, nVars>>
  BY DEF BuildEnumerator
<1>2. nVars \in Nat /\ nVars <= nVars /\ hasSolver \in BOOLEAN
  BY DEF BackEndInv
<1>3. Knowledge' \subseteq Knowledge \cup {} /\ Collected' = Collected
  BY <1>1 DEF Knowledge, Collected
<1>4. hasSolver' => IF hasSolver THEN engine \subseteq engine' ELSE Collected \subseteq engine'
  BY <1>1
<1> QED BY <1>1, <1>2, <1>3, <1>4, NoClauses, BackEndStep

\* SE: the first maximal set.
LEMMA OneMaximalRight ==
  ASSUME SolverInv, OneMaximal
  PROVE  BackEndInv' /\ AnswersCorrect'
<1>0. SetupInv /\ ScanInv /\ BackEndInv
  BY DEF SolverInv
<1> DEFINE E == ExtensionsAt(dynStep + 1)
<1>1. /\ pc = "scan" /\ i = Len(dynAttacks) /\ BuildEnumerator
      /\ dynStep' = dynStep /\ UNCHANGED <<problem, setup>>
      /\ task = "SE" /\ semantics # "ID"
      /\ \E m \in Msses(Assumptions) : written' = <<Decode(m.ext)>>
  BY DEF OneMaximal, Returns, Call, Ready, Write
<1>2. BackEndInv'
  BY <1>0, <1>1, BuildEnumeratorStep
<1>3. PICK S \in Maximal : written' = <<Decode(Coded(S))>>
  <2>1. Msses(Assumptions) = {Entry(S) : S \in Maximal}
    BY <1>0, <1>1, MssesAll
  <2> QED BY <1>1, <2>1 DEF Entry
<1>4. Decode(Coded(S)) = S
  BY <1>0, <1>1, AssumptionsExact, CodedExact, StepSetsNonEmpty DEF StepSets
<1>5. E = Maximal
  BY <1>0, <1>1, ExtensionsMaximal
<1> HIDE DEF E
<1>6. E # {} /\ Len(written') = 1 /\ written'[1] \in E
  BY <1>3, <1>4, <1>5
<1>7. AnswersCorrect'
  BY <1>0, <1>1, <1>6, AnswerStep DEF E
<1> QED BY <1>2, <1>7

\* An argument that propagation accepts is in every extension, and there is one.
LEMMA GroundedDecidesRight ==
  ASSUME SolverInv, GroundedDecides
  PROVE  BackEndInv' /\ AnswersCorrect'
<1>0. SetupInv /\ ScanInv /\ BackEndInv
  BY DEF SolverInv
<1> DEFINE E == ExtensionsAt(dynStep + 1)
<1>1. /\ pc = "scan" /\ i = Len(dynAttacks) /\ PropagatedAtDecisionLvlZero
      /\ dynStep' = dynStep /\ UNCHANGED <<problem, setup>>
      /\ task \in {"DC", "DS"} /\ accepted' = TRUE
      /\ \E P \in Propagations(PropagationAssumptions) : varOf[query] \in P
  BY DEF GroundedDecides, Returns, Call, Ready, Accept, AcceptedByPropagation
<1>2. BackEndInv'
  BY <1>0, <1>1, PropagatedStep
<1>3. ASSUME NEW S \in StepSets PROVE query \in S
  <2>1. varOf[query] \in Coded(S)
    BY <1>0, <1>1, PropagationSound
  <2>2. query \in Arg
    BY <1>0 DEF SetupInv
  <2> QED BY <1>0, <1>1, <2>1, <2>2, AssumptionsExact, CodedExact DEF StepSets
<1>4. E # {} /\ E \subseteq StepSets
  <2>1. E \subseteq StepSets
    BY <1>0, ExtensionsEncoded DEF SetupInv, StepSets
  <2>2. E # {}
    BY <1>0, ExtensionsMaximal, StepSetsNonEmpty
  <2> QED BY <2>1, <2>2
<1> HIDE DEF E
<1>5. AnswersCorrect'
  BY <1>0, <1>1, <1>3, <1>4, AnswerStep DEF E
<1> QED BY <1>2, <1>5

\* The models with the argument of the question.
LEMMA QueryModels ==
  ASSUME SetupInv, ScanInv, BackEndInv, pc = "scan", i = Len(dynAttacks)
  PROVE  ModelsOf(Assumptions \cup {varOf[query]}) =
           {Coded(S) : S \in {X \in StepSets : query \in X}}
<1>1. query \in Arg /\ semantics \in Semantics
  BY DEF SetupInv
<1>2. /\ Models(Given, Assumptions, nArgs) = {Coded(S) : S \in StepSets}
      /\ Models(Given, Assumptions \cup {varOf[query]}, nArgs) =
           {Coded(S) : S \in {X \in StepSets : query \in X}}
  BY <1>1, GivenKnows, ArgumentModels, ZenonT(30) DEF StepSets
<1> QED BY <1>2 DEF ModelsOf

\* A complete extension with the argument shows a preferred one with it.
LEMMA CredulousPreferredRight ==
  ASSUME SolverInv, CredulousPreferred
  PROVE  BackEndInv' /\ AnswersCorrect'
<1>0. SetupInv /\ ScanInv /\ BackEndInv
  BY DEF SolverInv
<1> DEFINE E == ExtensionsAt(dynStep + 1)
           credulous == Assumptions \cup {varOf[query]}
<1>1. /\ pc = "scan" /\ i = Len(dynAttacks) /\ ComputeModel(credulous)
      /\ dynStep' = dynStep /\ UNCHANGED <<problem, setup>>
      /\ task = "DC" /\ semantics = "PR" /\ accepted' = (models' # << >>)
  BY DEF CredulousPreferred, Returns, Call, Ready, Accept
<1>2. ModelsOf(credulous) = {Coded(S) : S \in {X \in StepSets : query \in X}}
  BY <1>0, <1>1, QueryModels
<1>3. E = Maximal
  BY <1>0, <1>1, ExtensionsMaximal
<1>4. (\E S \in StepSets : query \in S) <=> \E S \in Maximal : query \in S
  <2>1. \A S : Compared(S) = S
    BY <1>1 DEF Compared, RangeBased
  <2>2. \A S \in StepSets : \E T \in Maximal : S \subseteq T
    BY <1>0, <2>1, MaximalAbove DEF Maximal
  <2> QED BY <1>0, <2>2, StepSetsNonEmpty
<1> HIDE DEF E, credulous
<1>5. BackEndInv' /\ (accepted' <=> ModelsOf(credulous) # {})
  BY <1>0, <1>1, ComputeModelStep
<1>6. accepted' <=> \E S \in E : query \in S
  BY <1>2, <1>3, <1>4, <1>5
<1>7. AnswersCorrect'
  BY <1>0, <1>1, <1>6, AnswerStep DEF E
<1> QED BY <1>5, <1>7

----------------------------------------------------------------------------
(* computeAllMss *)

\* What is known of an entry of the list.
LEMMA FoundEntry ==
  ASSUME SetupInv, StepFramework(Present), NEW ms, Found(ms)
  PROVE  /\ Len(ms) \in Nat /\ DOMAIN ms = 1..Len(ms)
         /\ \A k \in 1..Len(ms) :
              /\ SetOf(ms[k]) \in Maximal /\ SetOf(ms[k]) \in StepSets
              /\ ms[k] = Entry(SetOf(ms[k]))
              /\ ms[k].ext = Coded(SetOf(ms[k])) /\ ms[k].soft = SoftOf(SetOf(ms[k]))
<1>1. Len(ms) \in Nat /\ DOMAIN ms = 1..Len(ms)
  BY LenProperties DEF Found
<1>2. ASSUME NEW k \in 1..Len(ms)
      PROVE  /\ SetOf(ms[k]) \in Maximal /\ SetOf(ms[k]) \in StepSets
             /\ ms[k] = Entry(SetOf(ms[k]))
             /\ ms[k].ext = Coded(SetOf(ms[k])) /\ ms[k].soft = SoftOf(SetOf(ms[k]))
  <2>1. ms[k] \in {Entry(S) : S \in Maximal}
    BY ElementOfSeq DEF Found
  <2>2. PICK S \in Maximal : ms[k] = Entry(S)
    BY <2>1
  <2>3. S \in StepSets
    BY StepSetsNonEmpty
  <2>4. Decode(Coded(S)) = S
    BY <2>3, CodedExact DEF StepSets, Present
  <2>5. Entry(S).ext = Coded(S) /\ Entry(S).soft = SoftOf(S)
    BY DEF Entry
  <2> QED BY <2>2, <2>3, <2>4, <2>5 DEF SetOf
<1> QED BY <1>1, <1>2

\* An enumeration of maximal sets starts with none.
LEMMA StartMssesRight ==
  ASSUME SolverInv, StartMsses
  PROVE  BackEndInv' /\ MssesInv'
<1>0. SetupInv /\ ScanInv /\ BackEndInv
  BY DEF SolverInv
<1>1. /\ pc = "scan" /\ i = Len(dynAttacks) /\ PropagatedAtDecisionLvlZero
      /\ task = "SE" => semantics = "ID"
      /\ \E P \in Propagations(PropagationAssumptions) : grExt' = P
      /\ msses' = << >> /\ stopEnum' = FALSE /\ written' = << >>
      /\ accepted' = StatusAtStart
      /\ UNCHANGED <<vars, setup>>
  BY DEF StartMsses, Ready
<1>2. UNCHANGED <<problem, setup>> /\ dynStep' = dynStep /\ task' = task /\ semantics' = semantics
  BY <1>1 DEF vars, setup
<1>3. BackEndInv'
  BY <1>0, <1>1, <1>2, PropagatedStep
<1>4. /\ StepSets' = StepSets /\ Maximal' = Maximal
      /\ \A S : Coded(S)' = Coded(S) /\ Entry(S)' = Entry(S)
  BY <1>2, Steady
<1>5. \A S \in StepSets' : grExt' \subseteq Coded(S)'
  BY <1>0, <1>1, <1>4, PropagationSound
<1>6. Found(msses)'
  <2>1. msses' \in Seq({Entry(S)' : S \in Maximal'}) /\ Len(msses') = 0 /\ 1..Len(msses') = {}
    BY <1>1
  <2> QED BY <2>1 DEF Found
<1>7. accepted' = StatusAtStart'
  BY <1>1, <1>2 DEF StatusAtStart
<1>8. 1..Len(msses') = {} /\ written' = [k \in 1..Len(msses') |-> SetOf(msses[k])']
  BY <1>1
<1> QED BY <1>1, <1>2, <1>3, <1>5, <1>6, <1>7, <1>8 DEF MssesInv

\* The callback of the extension S, in an enumeration that has not been stopped.
LEMMA ReportsRight ==
  ASSUME SetupInv, StepFramework(Present), NEW S \in Maximal, Reports(Coded(S)),
         semantics # "ID", task # "SE", accepted = StatusAtStart
  PROVE  /\ task \in {"EE", "DC", "DS"}
         /\ task = "EE" => written' = Append(written, S) /\ accepted' = accepted
         /\ task # "EE" => written' = written
         /\ task \in {"DC", "DS"} => (accepted' <=> query \in S)
         /\ accepted' \in BOOLEAN
         /\ varOf[query] \in Coded(S) <=> query \in S
<1>1. task \in {"EE", "DC", "DS"} /\ query \in Arg
  BY ProblemAssumption DEF SetupInv
<1>2. S \in StepSets
  BY StepSetsNonEmpty
<1>3. Decode(Coded(S)) = S /\ (varOf[query] \in Coded(S) <=> query \in S)
  BY <1>1, <1>2, CodedExact DEF StepSets, Present
<1>4. written' = IF task = "EE" THEN Append(written, S) ELSE written
  BY <1>3 DEF Reports
<1>5. accepted' = IF task = "EE" THEN accepted
                  ELSE IF task = "DC" THEN accepted \/ varOf[query] \in Coded(S)
                  ELSE accepted /\ varOf[query] \in Coded(S)
  BY DEF Reports
<1>6. (task = "DC" => accepted = FALSE) /\ (task = "DS" => accepted = TRUE) /\ accepted \in BOOLEAN
  BY DEF StatusAtStart
<1>7. CASE task = "EE"
  BY <1>3, <1>4, <1>5, <1>6, <1>7
<1>8. CASE task = "DC"
  BY <1>3, <1>4, <1>5, <1>6, <1>8
<1>9. CASE task = "DS"
  BY <1>3, <1>4, <1>5, <1>6, <1>9
<1> QED BY <1>1, <1>7, <1>8, <1>9

\* An extension that decides the question.
LEMMA VerdictRight ==
  ASSUME UNCHANGED <<problem, setup>>, dynStep' = dynStep, NEW S \in Maximal,
         \/ task = "DC" /\ query \in S /\ accepted' = TRUE
         \/ task = "DS" /\ query \notin S /\ accepted' = FALSE
  PROVE  Answered'
<1>1. Maximal' = Maximal
  BY Steady
<1>2. task' = task /\ query' = query
  BY DEF setup
<1> HIDE DEF Maximal
<1> QED BY <1>1, <1>2 DEF Answered

\* The clauses stay as they are.
LEMMA BackEndKept ==
  ASSUME SetupInv, BackEndInv, UNCHANGED <<problem, setup>>, UNCHANGED backEnd
  PROVE  BackEndInv' /\ Given' = Given
<1>1. UNCHANGED <<formula, newFormula, hasSolver, engine, nVars, models, blockingSelectors>>
  BY DEF backEnd
<1>2. Knowledge' = Knowledge /\ Collected' = Collected /\ Given' = Given
  BY <1>1 DEF Knowledge, Collected, Given
<1>3. nVars \in Nat /\ nVars <= nVars /\ hasSolver \in BOOLEAN
  BY DEF BackEndInv
<1>4. hasSolver' => IF hasSolver THEN engine \subseteq engine' ELSE Collected \subseteq engine'
  BY <1>1
<1>5. Knowledge' \subseteq Knowledge \cup {} /\ Collected \subseteq Collected'
  BY <1>2
<1> QED BY <1>1, <1>2, <1>3, <1>4, <1>5, NoClauses, BackEndStep

\* Another maximal set, of another range.
LEMMA FoundGrows ==
  ASSUME SetupInv, StepFramework(Present), NEW ms, Found(ms), NEW S \in Maximal,
         \A k \in 1..Len(ms) : ms[k].soft # SoftOf(S)
  PROVE  Found(Append(ms, Entry(S)))
<1> DEFINE n == Len(ms)
           more == Append(ms, Entry(S))
<1>1. n \in Nat /\ ms \in Seq({Entry(X) : X \in Maximal})
  BY FoundEntry DEF Found
<1>2. more \in Seq({Entry(X) : X \in Maximal}) /\ Len(more) = n + 1
  BY <1>1
<1>3. /\ \A k \in 1..n : more[k] = ms[k]
      /\ more[n + 1] = Entry(S) /\ Entry(S).soft = SoftOf(S)
  BY <1>1 DEF Entry
<1>4. ASSUME NEW j \in 1..(n + 1), NEW k \in 1..(n + 1), more[j].soft = more[k].soft
      PROVE  j = k
  <2>1. CASE j \in 1..n /\ k \in 1..n
    BY <1>3, <1>4, <2>1 DEF Found
  <2>2. CASE j \in 1..n /\ k = n + 1
    BY <1>3, <1>4, <2>2
  <2>3. CASE j = n + 1 /\ k \in 1..n
    BY <1>3, <1>4, <2>3
  <2>4. (j \in 1..n \/ j = n + 1) /\ (k \in 1..n \/ k = n + 1)
    BY <1>1
  <2> QED BY <2>1, <2>2, <2>3, <2>4
<1> HIDE DEF more
<1> QED BY <1>2, <1>4 DEF Found, more

\* What the enumerator may still report.
LEMMA NewMssesExact ==
  ASSUME SolverInv, doing = "msses"
  PROVE  NewMsses = {Entry(S) : S \in {X \in Maximal :
                                         \A k \in 1..Len(msses) : msses[k].soft # SoftOf(X)}}
<1>1. /\ SetupInv /\ ScanInv /\ BackEndInv /\ pc = "scan" /\ i = Len(dynAttacks)
      /\ Found(msses)
  BY DEF SolverInv, MssesInv
<1>2. Msses(Assumptions) = {Entry(S) : S \in Maximal}
  BY <1>1, MssesAll
<1>3. DOMAIN msses = 1..Len(msses)
  BY <1>1, AssumptionsExact, FoundEntry DEF Present
<1>4. \A S : Entry(S).soft = SoftOf(S)
  BY DEF Entry
<1> HIDE DEF Entry
<1> QED BY <1>2, <1>3, <1>4 DEF NewMsses

\* A maximal set that is part of every set is found first, and alone.
LEMMA LeastFirst ==
  ASSUME SetupInv, StepFramework(Present), Found(msses), NEW S \in Maximal,
         \A k \in 1..Len(msses) : msses[k].soft # SoftOf(S),
         \A T \in StepSets : Coded(S) \subseteq Coded(T)
  PROVE  Maximal = {S} /\ Len(msses) = 0
<1>1. ASSUME NEW T \in StepSets PROVE S \subseteq T
  <2>1. /\ \A x \in Arg : varOf[x] \in Coded(T) <=> x \in T
        /\ S \subseteq Arg
    BY CodedExact, StepSetsNonEmpty, StepSetsAre DEF StepSets, Present
  <2> QED BY <2>1 DEF Coded
<1>2. Maximal = {S}
  BY <1>1, LeastAlone
<1>3. ASSUME Len(msses) # 0 PROVE FALSE
  <2>1. 1 \in 1..Len(msses)
    BY <1>3, FoundEntry
  <2> QED BY <1>2, <2>1, FoundEntry
<1> QED BY <1>2, <1>3

\* A round of the enumeration.
LEMMA NextMssRight ==
  ASSUME SolverInv, NextMss
  PROVE  BackEndInv' /\ MssesInv'
<1>0. /\ SetupInv /\ ScanInv /\ BackEndInv /\ doing = "msses"
      /\ pc = "scan" /\ i = Len(dynAttacks)
      /\ Found(msses) /\ \A S \in StepSets : grExt \subseteq Coded(S)
      /\ ~stopEnum
      /\ semantics # "ID" =>
           /\ task # "SE" /\ accepted = StatusAtStart
           /\ \A k \in 1..Len(msses) : Settled(SetOf(msses[k]))
           /\ task = "EE" => written = [k \in 1..Len(msses) |-> SetOf(msses[k])]
  BY DEF SolverInv, MssesInv, NextMss
<1>1. StepFramework(Present)
  BY <1>0, AssumptionsExact DEF Present
<1>2. /\ UNCHANGED <<problem, setup>> /\ UNCHANGED backEnd
      /\ UNCHANGED <<dynStep, doing, grExt, task, query, semantics, nArgs, varOf>>
  BY DEF NextMss, vars, setup
<1>3. BackEndInv'
  BY <1>0, <1>2, BackEndKept
<1>4. PICK m \in NewMsses : /\ msses' = Append(msses, m)
                            /\ Reports(m.ext)
                            /\ stopEnum' = (Stops(m.ext) \/ (RangeBased /\ m.ext = {}))
  BY DEF NextMss
<1>5. PICK S \in Maximal : m = Entry(S) /\ \A k \in 1..Len(msses) : msses[k].soft # SoftOf(S)
  BY <1>0, NewMssesExact
<1>6. m.ext = Coded(S) /\ m.soft = SoftOf(S) /\ S \in StepSets /\ SetOf(m) = S
  BY <1>0, <1>1, <1>5, StepSetsNonEmpty, CodedExact DEF Entry, SetOf, StepSets, Present
<1> DEFINE n == Len(msses)
<1>7. /\ n \in Nat /\ Len(msses') = n + 1 /\ DOMAIN msses' = 1..(n + 1)
      /\ DOMAIN msses = 1..n
      /\ \A k \in 1..n : msses'[k] = msses[k]
      /\ msses'[n + 1] = m
  BY <1>0, <1>1, <1>4, FoundEntry DEF Found
<1>8. /\ StepSets' = StepSets /\ Maximal' = Maximal
      /\ \A X : Coded(X)' = Coded(X) /\ Entry(X)' = Entry(X)
      /\ \A T : Decode(T)' = Decode(T)
      /\ \A e : SetOf(e)' = SetOf(e)
  BY <1>2, Steady DEF SetOf
<1>9. Found(msses)'
  <2>1. Found(Append(msses, m))
    BY <1>0, <1>1, <1>5, FoundGrows
  <2> QED BY <1>4, <1>8, <2>1 DEF Found
<1>10. \A X \in StepSets' : grExt' \subseteq Coded(X)'
  BY <1>0, <1>2, <1>8
<1>11. ASSUME semantics = "ID", stopEnum'
       PROVE  msses' # << >> /\ (InAll' \subseteq grExt' \/ (task' \in {"DC", "DS"} /\ Refuted'))
  <2>1. \/ Allowed(m.ext) \subseteq grExt
        \/ task \in {"DC", "DS"} /\ varOf[query] \notin m.ext
    BY <1>4, <1>11 DEF Stops, RangeBased
  <2>2. InAll' \subseteq Allowed(m.ext)
    BY <1>2, <1>7 DEF InAll, Allowed
  <2>3. varOf[query] \notin m.ext => Refuted'
    BY <1>2, <1>7 DEF Refuted
  <2>4. msses' # << >>
    BY <1>7
  <2> QED BY <1>2, <2>1, <2>2, <2>3, <2>4
<1>12. ASSUME semantics # "ID"
       PROVE  /\ task' # "SE"
              /\ stopEnum' => Answered'
              /\ ~stopEnum' => /\ accepted' = StatusAtStart'
                               /\ \A k \in 1..Len(msses') : Settled(SetOf(msses[k]))'
              /\ task' = "EE" => written' = [k \in 1..Len(msses') |-> SetOf(msses[k])']
  <2>1. /\ task \in {"EE", "DC", "DS"}
        /\ task = "EE" => written' = Append(written, S) /\ accepted' = accepted
        /\ task # "EE" => written' = written
        /\ task \in {"DC", "DS"} => (accepted' <=> query \in S)
        /\ accepted' \in BOOLEAN
        /\ varOf[query] \in Coded(S) <=> query \in S
    BY <1>0, <1>1, <1>4, <1>6, <1>12, ReportsRight
  <2>2. task = "EE" => written' = [k \in 1..(n + 1) |-> SetOf(msses[k])']
    <3>1. \A k \in 1..n : SetOf(msses[k])' = SetOf(msses[k])
      BY <1>7, <1>8
    <3>2. \A k \in {n + 1} : SetOf(msses[k])' = S
      BY <1>6, <1>7, <1>8
    <3>3. task = "EE" => written = [k \in 1..n |-> SetOf(msses[k])]
      BY <1>0, <1>12
    <3> HIDE DEF SetOf, n
    <3>4. Append([k \in 1..n |-> SetOf(msses[k])], S) =
            [k \in 1..(n + 1) |-> IF k \in 1..n THEN SetOf(msses[k]) ELSE S]
      BY <1>7
    <3>5. [k \in 1..(n + 1) |-> IF k \in 1..n THEN SetOf(msses[k]) ELSE S] =
            [k \in 1..(n + 1) |-> SetOf(msses[k])']
      BY <1>7, <3>1, <3>2
    <3> QED BY <2>1, <3>3, <3>4, <3>5
  <2>3. ASSUME \A T \in StepSets : Coded(S) \subseteq Coded(T) PROVE Answered'
    <3>1. Maximal' = {S} /\ n = 0
      BY <1>0, <1>1, <1>5, <1>8, <2>3, LeastFirst
    <3>2. CASE task = "EE"
      <4>1. written' = <<S>>
        <5>1. written = << >>
          BY <1>0, <1>12, <3>1, <3>2
        <5> QED BY <2>1, <3>2, <5>1
      <4>2. Range(written') = {S} /\ Len(written') = 1
        BY <4>1 DEF Range
      <4>3. Cardinality({S}) = 1
        BY FS_Singleton
      <4> QED BY <1>2, <3>1, <3>2, <4>2, <4>3 DEF Answered
    <3>3. CASE task \in {"DC", "DS"}
      BY <1>2, <2>1, <3>1, <3>3 DEF Answered
    <3> QED BY <2>1, <3>2, <3>3
  <2>4. stopEnum' => Answered'
    <3>1. SUFFICES ASSUME stopEnum' PROVE Answered'
      OBVIOUS
    <3>2. CASE Coded(S) \in {grExt, {}}
      <4>1. \A T \in StepSets : Coded(S) \subseteq Coded(T)
        BY <1>0, <3>2
      <4> QED BY <2>3, <4>1
    <3>3. CASE Coded(S) \notin {grExt, {}}
      <4>1. \/ task = "DC" /\ query \in S
            \/ task = "DS" /\ query \notin S
        BY <1>4, <1>6, <1>12, <2>1, <3>1, <3>3 DEF Stops
      <4> QED BY <1>2, <2>1, <4>1, VerdictRight
    <3> QED BY <3>2, <3>3
  <2>5. ASSUME ~stopEnum'
        PROVE  /\ accepted' = StatusAtStart'
               /\ \A k \in 1..Len(msses') : Settled(SetOf(msses[k]))'
    <3>1. (task = "DC" => query \notin S) /\ (task = "DS" => query \in S)
      <4>1. ~Stops(m.ext)
        BY <1>4, <2>5
      <4> QED BY <1>6, <1>12, <2>1, <4>1 DEF Stops
    <3>2. accepted' = StatusAtStart'
      <4>1. StatusAtStart' = (task = "DS") /\ StatusAtStart = (task = "DS")
        BY <1>2, <1>12 DEF StatusAtStart
      <4>2. CASE task = "EE"
        BY <1>0, <1>12, <2>1, <4>1, <4>2
      <4>3. CASE task = "DC"
        BY <2>1, <3>1, <4>1, <4>3
      <4>4. CASE task = "DS"
        BY <2>1, <3>1, <4>1, <4>4
      <4> QED BY <2>1, <4>2, <4>3, <4>4
    <3>3. ASSUME NEW k \in 1..(n + 1) PROVE Settled(SetOf(msses[k]))'
      <4>1. CASE task = "EE"
        <5>1. SetOf(msses[k])' \in Range(written')
          BY <2>2, <4>1 DEF Range
        <5> HIDE DEF SetOf
        <5> QED BY <1>2, <4>1, <5>1 DEF Settled
      <4>2. CASE task # "EE" /\ k \in 1..n
        <5>1. SetOf(msses[k])' = SetOf(msses[k]) /\ Settled(SetOf(msses[k]))
          BY <1>0, <1>7, <1>8, <1>12, <4>2
        <5> HIDE DEF SetOf
        <5> QED BY <1>2, <2>1, <4>2, <5>1 DEF Settled
      <4>3. CASE task # "EE" /\ k = n + 1
        <5>1. SetOf(msses[k])' = S
          BY <1>6, <1>7, <1>8, <4>3
        <5> HIDE DEF SetOf
        <5> QED BY <1>2, <2>1, <3>1, <4>3, <5>1 DEF Settled
      <4> QED BY <1>7, <4>1, <4>2, <4>3
    <3> QED BY <1>7, <3>2, <3>3
  <2> QED BY <1>2, <1>7, <2>1, <2>2, <2>4, <2>5
<1> QED BY <1>2, <1>3, <1>9, <1>10, <1>11, <1>12 DEF MssesInv

\* A list without repetition of a whole set has its length.
LEMMA ListCounts ==
  ASSUME NEW E, NEW w \in Seq(E), Range(w) = E,
         \A j, k \in 1..Len(w) : w[j] = w[k] => j = k
  PROVE  Len(w) = Cardinality(E)
<1> DEFINE n == Len(w)
<1>1. n \in Nat /\ w \in [1..n -> E] /\ Range(w) = {w[k] : k \in 1..n}
  BY LenProperties DEF Range
<1>2. w \in Injection(1..n, E)
  BY <1>1 DEF Injection, IsInjective
<1>3. w \in Surjection(1..n, E)
  BY <1>1 DEF Surjection
<1>4. ExistsBijection(1..n, E)
  BY <1>2, <1>3 DEF Bijection, ExistsBijection
<1> QED BY <1>1, <1>4, FS_CountingElements

\* When every extension is taken into account the answer is complete.
LEMMA AllSettled ==
  ASSUME task \in {"EE", "DC", "DS"}, semantics # "ID", accepted = StatusAtStart,
         \A S \in Maximal : Settled(S),
         task = "EE" => /\ written \in Seq(Maximal)
                        /\ \A j, k \in 1..Len(written) : written[j] = written[k] => j = k
  PROVE  Answered
<1>1. CASE task = "EE"
  <2>1. Maximal \subseteq Range(written)
    BY <1>1 DEF Settled
  <2>2. Range(written) \subseteq Maximal
    BY <1>1, LenProperties, ElementOfSeq DEF Range
  <2> HIDE DEF Maximal
  <2>3. Range(written) = Maximal
    BY <2>1, <2>2
  <2>4. Len(written) = Cardinality(Maximal)
    BY <1>1, <2>3, ListCounts
  <2> QED BY <1>1, <2>3, <2>4 DEF Answered
<1>2. CASE task = "DC"
  BY <1>2 DEF Answered, Settled, StatusAtStart
<1>3. CASE task = "DS"
  BY <1>3 DEF Answered, Settled, StatusAtStart
<1> QED BY <1>1, <1>2, <1>3

\* A complete answer is right.
LEMMA AnsweredRight ==
  ASSUME SetupInv, task # "SE", semantics # "ID", Answered,
         UNCHANGED <<problem, setup>>, UNCHANGED <<dynStep, written, accepted>>
  PROVE  AnswersCorrect'
<1>1. ExtensionsAt(dynStep + 1) = Maximal
  BY ExtensionsMaximal
<1>2. /\ task = "EE" => Range(written') = Maximal /\ Len(written') = Cardinality(Maximal)
      /\ task = "DC" => (accepted' <=> \E S \in Maximal : query \in S)
      /\ task = "DS" => (accepted' <=> \A S \in Maximal : query \in S)
  <2> HIDE DEF Maximal
  <2> QED BY DEF Answered
<1> HIDE DEF Maximal, ExtensionsAt
<1> QED BY <1>1, <1>2, AnswerStep

\* At the end of an enumeration that nothing stopped, one that compares the sets
\* themselves, all the maximal ones have been found.
LEMMA AllFound ==
  ASSUME SolverInv, MssesOver, ~stopEnum, ~RangeBased, NEW S \in Maximal
  PROVE  \E k \in 1..Len(msses) : SetOf(msses[k]) = S
<1>0. /\ SetupInv /\ doing = "msses" /\ Found(msses) /\ NewMsses = {} /\ StepFramework(Present)
  BY AssumptionsExact DEF SolverInv, MssesInv, MssesOver, Present
<1>1. PICK k \in 1..Len(msses) : msses[k].soft = SoftOf(S)
  BY <1>0, NewMssesExact
<1>2. \A T \in StepSets : SoftOf(T) = Coded(T) /\ Decode(Coded(T)) = T
  BY <1>0, SoftRange, CodedExact DEF StepSets, Present
<1>3. S \in StepSets /\ SetOf(msses[k]) \in StepSets /\ msses[k].soft = SoftOf(SetOf(msses[k]))
  BY <1>0, StepSetsNonEmpty, FoundEntry
<1>4. SoftOf(SetOf(msses[k])) = SoftOf(S)
  BY <1>1, <1>3
<1> QED BY <1>2, <1>3, <1>4

\* The preferred extensions have all been found, each once.
LEMMA PreferredComplete ==
  ASSUME SolverInv, MssesOver, semantics = "PR"
  PROVE  Answered
<1>0. /\ SetupInv /\ ScanInv /\ BackEndInv /\ doing = "msses"
      /\ pc = "scan" /\ i = Len(dynAttacks)
      /\ Found(msses) /\ task # "SE" /\ (stopEnum => Answered)
      /\ ~stopEnum =>
           /\ accepted = StatusAtStart
           /\ \A k \in 1..Len(msses) : Settled(SetOf(msses[k]))
      /\ task = "EE" => written = [k \in 1..Len(msses) |-> SetOf(msses[k])]
  BY DEF SolverInv, MssesInv, MssesOver
<1>1. StepFramework(Present)
  BY <1>0, AssumptionsExact DEF Present
<1>2. SUFFICES ASSUME ~stopEnum PROVE Answered
  BY <1>0
<1> DEFINE n == Len(msses)
<1>3. /\ n \in Nat
      /\ \A k \in 1..n : /\ SetOf(msses[k]) \in Maximal
                         /\ msses[k].soft = SoftOf(SetOf(msses[k]))
  BY <1>0, <1>1, FoundEntry
<1>4. \A S \in Maximal : Settled(S)
  BY <1>0, <1>2, AllFound DEF RangeBased
<1>5. ASSUME task = "EE"
      PROVE  /\ written \in Seq(Maximal)
             /\ \A j, k \in 1..Len(written) : written[j] = written[k] => j = k
  <2> HIDE DEF SetOf, Maximal
  <2>1. written \in [1..n -> Maximal] /\ \A k \in 1..n : written[k] = SetOf(msses[k])
    BY <1>0, <1>3, <1>5
  <2>2. written \in Seq(Maximal) /\ Len(written) = n
    BY <1>3, <2>1
  <2>3. ASSUME NEW j \in 1..n, NEW k \in 1..n, written[j] = written[k] PROVE j = k
    <3>1. msses[j].soft = msses[k].soft
      BY <1>3, <2>1, <2>3
    <3> QED BY <1>0, <3>1 DEF Found
  <2> QED BY <2>2, <2>3
<1>6. task \in {"EE", "DC", "DS"}
  BY <1>0, ProblemAssumption DEF SetupInv
<1> QED BY <1>0, <1>2, <1>4, <1>5, <1>6, AllSettled

\* What the preferred solvers answer at the end of an enumeration is right.
LEMMA EndPreferredRight ==
  ASSUME SolverInv, EndPreferred \/ EndRangesStopped
  PROVE  BackEndInv' /\ AnswersCorrect'
<1>1. /\ MssesOver /\ UNCHANGED <<problem, setup>> /\ UNCHANGED backEnd
      /\ UNCHANGED <<dynStep, written, accepted>>
      /\ semantics = "PR" \/ (RangeBased /\ stopEnum)
  BY DEF EndPreferred, EndRangesStopped, Returns, Call
<1>2. semantics # "ID"
  BY <1>1 DEF RangeBased
<1>3. SetupInv /\ BackEndInv /\ task # "SE" /\ (stopEnum => Answered)
  BY <1>1, <1>2 DEF SolverInv, MssesOver, MssesInv
<1>4. Answered
  BY <1>1, <1>3, PreferredComplete
<1>5. BackEndInv'
  BY <1>1, <1>3, BackEndKept
<1>6. AnswersCorrect'
  BY <1>1, <1>2, <1>3, <1>4, AnsweredRight
<1> QED BY <1>5, <1>6

----------------------------------------------------------------------------
(* The ideal extension *)

IdealSet == Ideal(Arg, Present)

\* The largest complete extension inside all the preferred ones.
LEMMA IdealLargest ==
  ASSUME SetupInv, semantics = "ID"
  PROVE  /\ IdealSet \in StepSets
         /\ \A P \in Maximal : IdealSet \subseteq P
         /\ \A S \in StepSets : (\A P \in Maximal : S \subseteq P) => S \subseteq IdealSet
         /\ ExtensionsAt(dynStep + 1) = {IdealSet}
<1>1. StepSets = Complete(Arg, Present) /\ Maximal = Preferred(Arg, Present)
      /\ ExtensionsAt(dynStep + 1) = {IdealSet}
  BY StepSetsAre, ExtensionsMaximal DEF IdealSet
<1>2. Complete(Arg, Present) \subseteq Admissible(Arg, Present)
  BY DEF Complete, Admissible
<1>3. /\ IdealSet \in Complete(Arg, Present)
      /\ \A P \in Preferred(Arg, Present) : IdealSet \subseteq P
      /\ \A S \in Admissible(Arg, Present) :
           (\A P \in Preferred(Arg, Present) : S \subseteq P) => S \subseteq IdealSet
  BY ArgFinite, IdealExists DEF IdealSet
<1> QED BY <1>1, <1>2, <1>3

\* What the callback writes is right when its set is the ideal one, or the
\* argument of the question is already refuted.
LEMMA IdealAnswered ==
  ASSUME SolverInv, MssesOver, semantics = "ID",
         UNCHANGED <<problem, setup>>, dynStep' = dynStep,
         NEW T, AnswerIdeal(T), T = Coded(IdealSet) \/ (task \in {"DC", "DS"} /\ Refuted)
  PROVE  AnswersCorrect'
<1>0. /\ SetupInv /\ Found(msses) /\ StepFramework(Present) /\ query \in Arg
      /\ task \in {"SE", "EE", "DC", "DS"}
  BY AssumptionsExact, ProblemAssumption DEF SolverInv, MssesInv, MssesOver, Present, SetupInv
<1> DEFINE E == ExtensionsAt(dynStep + 1)
<1>1. /\ IdealSet \in StepSets /\ \A P \in Maximal : IdealSet \subseteq P
      /\ E = {IdealSet}
  BY <1>0, IdealLargest
<1>2. /\ Decode(Coded(IdealSet)) = IdealSet
      /\ varOf[query] \in Coded(IdealSet) <=> query \in IdealSet
  BY <1>0, <1>1, CodedExact DEF StepSets, Present
<1>3. Refuted => query \notin IdealSet
  <2>1. SUFFICES ASSUME Refuted PROVE query \notin IdealSet
    OBVIOUS
  <2>2. PICK k \in 1..Len(msses) : varOf[query] \notin msses[k].ext
    BY <1>0, <2>1, FoundEntry DEF Refuted
  <2>3. /\ SetOf(msses[k]) \in Maximal /\ SetOf(msses[k]) \in StepSets
        /\ msses[k].ext = Coded(SetOf(msses[k]))
    BY <1>0, FoundEntry
  <2>4. query \notin SetOf(msses[k])
    BY <1>0, <2>2, <2>3, CodedExact DEF StepSets, Present
  <2> QED BY <1>1, <2>3, <2>4
<1> HIDE DEF E
<1>4. CASE task \in {"DC", "DS"}
  <2>1. accepted' = (~Refuted /\ varOf[query] \in T)
    BY <1>4 DEF AnswerIdeal, Accept
  <2>2. accepted' <=> query \in IdealSet
    BY <1>2, <1>3, <2>1
  <2> QED BY <1>0, <1>1, <1>4, <2>2, AnswerStep DEF E
<1>5. CASE task \in {"SE", "EE"}
  <2>1. T = Coded(IdealSet)
    BY <1>5
  <2>2. written' = <<IdealSet>>
    BY <1>2, <1>5, <2>1 DEF AnswerIdeal, Write
  <2>3. /\ E # {} /\ Len(written') = 1 /\ written'[1] \in E
        /\ Range(written') = E /\ Len(written') = Cardinality(E)
    <3>1. Len(written') = 1 /\ written'[1] = IdealSet /\ Range(written') = {IdealSet}
      BY <2>2 DEF Range
    <3>2. Cardinality({IdealSet}) = 1
      BY FS_Singleton
    <3> QED BY <1>1, <3>1, <3>2
  <2> QED BY <1>0, <1>5, <2>3, AnswerStep DEF E
<1> QED BY <1>0, <1>4, <1>5

\* The three ways to end: the grounded extension, the only preferred one, or the
\* largest set inside the intersection.
LEMMA EndIdealRight ==
  ASSUME SolverInv, EndIdeal
  PROVE  BackEndInv' /\ AnswersCorrect'
<1>0. /\ SetupInv /\ ScanInv /\ BackEndInv /\ MssesOver /\ semantics = "ID"
      /\ pc = "scan" /\ i = Len(dynAttacks) /\ ~RangeBased
      /\ Found(msses) /\ \A S \in StepSets : grExt \subseteq Coded(S)
      /\ stopEnum =>
           msses # << >> /\ (InAll \subseteq grExt \/ (task \in {"DC", "DS"} /\ Refuted))
      /\ UNCHANGED <<problem, setup>> /\ dynStep' = dynStep
  BY DEF SolverInv, EndIdeal, MssesOver, MssesInv, RangeBased, Returns, Call
<1>1. StepFramework(Present)
  BY <1>0, AssumptionsExact DEF Present
<1>2. /\ IdealSet \in StepSets /\ \A P \in Maximal : IdealSet \subseteq P
      /\ \A S \in StepSets : (\A P \in Maximal : S \subseteq P) => S \subseteq IdealSet
  BY <1>0, IdealLargest
<1> DEFINE n == Len(msses)
<1>3. /\ n \in Nat /\ DOMAIN msses = 1..n
      /\ \A k \in 1..n : /\ SetOf(msses[k]) \in Maximal /\ SetOf(msses[k]) \in StepSets
                         /\ msses[k].ext = Coded(SetOf(msses[k]))
  BY <1>0, <1>1, FoundEntry
<1>4. \A S \in StepSets : /\ S \subseteq Arg /\ Coded(S) \subseteq 1..nArgs
                          /\ \A x \in Arg : varOf[x] \in Coded(S) <=> x \in S
  BY <1>0, <1>1, CodedExact DEF StepSets, Present
<1>5. ASSUME NEW S \in StepSets
      PROVE  Coded(S) \subseteq InAll <=> \A k \in 1..n : S \subseteq SetOf(msses[k])
  <2>1. Coded(S) \subseteq InAll <=> \A k \in 1..n : Coded(S) \subseteq Coded(SetOf(msses[k]))
    BY <1>3, <1>4 DEF InAll
  <2>2. \A k \in 1..n : Coded(S) \subseteq Coded(SetOf(msses[k])) <=> S \subseteq SetOf(msses[k])
    <3>1. ASSUME NEW P \in StepSets PROVE Coded(S) \subseteq Coded(P) <=> S \subseteq P
      BY <1>4 DEF Coded
    <3> HIDE DEF SetOf
    <3> QED BY <1>3, <3>1
  <2> QED BY <2>1, <2>2
<1>6. Coded(IdealSet) \subseteq InAll
  BY <1>2, <1>3, <1>5
<1>7. ASSUME ~stopEnum, NEW S \in StepSets, \A k \in 1..n : S \subseteq SetOf(msses[k])
      PROVE  S \subseteq IdealSet
  <2>1. \A P \in Maximal : \E k \in 1..n : SetOf(msses[k]) = P
    BY <1>0, <1>7, AllFound
  <2> QED BY <1>2, <1>7, <2>1
<1>8. CASE InAll \subseteq grExt /\ AnswerIdeal(grExt) /\ UNCHANGED backEnd
  <2>1. grExt = Coded(IdealSet)
    BY <1>0, <1>2, <1>6, <1>8
  <2> QED BY <1>0, <1>8, <2>1, IdealAnswered, BackEndKept
<1>9. CASE /\ ~(InAll \subseteq grExt)
           /\ stopEnum \/ n = 1
           /\ AnswerIdeal(msses[1].ext)
           /\ UNCHANGED backEnd
  <2>1. ASSUME ~stopEnum PROVE msses[1].ext = Coded(IdealSet)
    <3>1. n = 1 /\ 1 \in 1..n /\ \A k \in 1..n : k = 1
      BY <1>9, <2>1
    <3>2. SetOf(msses[1]) \subseteq IdealSet
      BY <1>3, <1>7, <2>1, <3>1
    <3>3. IdealSet \subseteq SetOf(msses[1])
      BY <1>2, <1>3, <3>1
    <3>4. SetOf(msses[1]) = IdealSet /\ msses[1].ext = Coded(SetOf(msses[1]))
      BY <1>3, <3>1, <3>2, <3>3
    <3> HIDE DEF SetOf
    <3> QED BY <3>4
  <2>2. stopEnum => task \in {"DC", "DS"} /\ Refuted
    BY <1>0, <1>9
  <2>3. AnswersCorrect'
    BY <1>0, <1>9, <2>1, <2>2, IdealAnswered
  <2> QED BY <1>0, <1>9, <2>3, BackEndKept
<1>10. CASE /\ ~stopEnum
            /\ \E m \in Msses(Assumptions \cup Neg((1..nArgs) \ InAll)) : AnswerIdeal(m.ext)
            /\ BuildEnumerator
  <2> DEFINE Q == Neg((1..nArgs) \ InAll)
             allowed == {X \in StepSets : Agrees(Reading(semantics, Helper, Present, X), Q)}
  <2>1. Q \in SUBSET ArgumentLiterals
    BY DEF ArgumentLiterals, Neg
  <2>2. Msses(Assumptions \cup Q) = {Entry(S) : S \in MaximalIn(allowed)}
    BY <1>0, <2>1, MssesExact
  <2>3. ASSUME NEW X \in StepSets PROVE X \in allowed <=> Coded(X) \subseteq InAll
    <3>1. \A v \in 1..nArgs :
            IsTrue(Reading(semantics, Helper, Present, X), -v) <=> v \notin Coded(X)
      BY <1>0, <1>1, CodedExact DEF StepSets, Present
    <3>2. Agrees(Reading(semantics, Helper, Present, X), Q) <=>
            \A v \in (1..nArgs) \ InAll : v \notin Coded(X)
      BY <3>1 DEF Agrees, Neg
    <3> QED BY <1>4, <3>2
  <2>4. PICK S \in MaximalIn(allowed) : AnswerIdeal(Entry(S).ext)
    <3> HIDE DEF allowed
    <3> QED BY <1>10, <2>2
  <2>5. S \in allowed /\ IdealSet \in allowed
    BY <1>2, <1>6, <2>3 DEF MaximalIn
  <2>6. S \subseteq IdealSet
    <3>1. S \in StepSets /\ Coded(S) \subseteq InAll
      BY <2>3, <2>5
    <3> QED BY <1>5, <1>7, <1>10, <3>1
  <2>7. S = IdealSet
    <3>1. Compared(S) \subseteq Compared(IdealSet)
      BY <2>6, ComparedMonotone
    <3>2. Compared(S) = Compared(IdealSet)
      BY <2>5, <3>1 DEF MaximalIn
    <3> QED BY <1>0, <3>2 DEF Compared
  <2>8. Entry(S).ext = Coded(IdealSet)
    BY <2>7 DEF Entry
  <2>9. AnswersCorrect'
    BY <1>0, <2>4, <2>8, IdealAnswered
  <2> QED BY <1>0, <1>10, <2>9, BuildEnumeratorStep
<1> QED BY <1>8, <1>9, <1>10 DEF EndIdeal

----------------------------------------------------------------------------
(* Semi-stable and stage: the loop over the ranges *)

\* Clauses over finitely many variables.
LEMMA ClausalWithin ==
  ASSUME NEW m \in Nat, NEW X, \A c \in X : c \subseteq Literal /\ c \subseteq (-m)..m
  PROVE  Clausal(X)
<1>1. UNION X \in SUBSET ((-m)..m)
  OBVIOUS
<1>2. IsFiniteSet((-m)..m)
  BY FS_Interval
<1>3. IsFiniteSet(UNION X)
  BY <1>1, <1>2, FS_Subset
<1> QED BY <1>3 DEF Clausal

\* A clause about the arguments and the ranges with a selector.
LEMMA SelectedWithin ==
  ASSUME SetupInv, BackEndInv, NEW d \in SUBSET Readable(Helper),
         NEW v \in Nat, NbVarsOf(Helper) < v, NEW m \in Nat, v <= m
  PROVE  /\ Selected(d, v) \subseteq Literal /\ Selected(d, v) \subseteq (-m)..m
         /\ -v \in Selected(d, v) /\ -(-v) > NbVarsOf(Helper) /\ -(-v) <= m
<1>1. /\ Helper.base \in Nat /\ NbVarsOf(Helper) \in Nat /\ Helper.base <= NbVarsOf(Helper)
  BY ArgumentLiteralsReadable
<1>2. d \subseteq Literal /\ d \subseteq (-m)..m
  BY <1>1 DEF Readable, Literal
<1>3. -v \in Literal /\ -v \in (-m)..m /\ -(-v) = v
  BY <1>1 DEF Literal
<1> QED BY <1>1, <1>2, <1>3 DEF Selected

\* Each clause of a range gets a selector of its own; what was there before keeps
\* older ones.
LEMMA SelectRangesRight ==
  ASSUME SolverInv, SelectRanges
  PROVE  BackEndInv' /\ SelectorsInv' /\ RangesInv'
<1>0. /\ SetupInv /\ ScanInv /\ BackEndInv /\ MssesOver /\ RangeBased
      /\ doing = "msses" /\ ~stopEnum /\ NewMsses = {}
      /\ pc = "scan" /\ i = Len(dynAttacks)
      /\ Found(msses) /\ task # "SE" /\ accepted = StatusAtStart
      /\ \A k \in 1..Len(msses) : Settled(SetOf(msses[k]))
      /\ task = "EE" => written = [k \in 1..Len(msses) |-> SetOf(msses[k])]
  BY DEF SolverInv, SelectRanges, MssesOver, MssesInv, RangeBased
<1>1. /\ selectors' = [k \in DOMAIN Order |-> nVars + k]
      /\ newFormula' = newFormula \cup {Selected(Softs[k], nVars + k) : k \in DOMAIN Order}
      /\ nVars' = nVars + Len(Order)
      /\ doing' = "ranges"
      /\ UNCHANGED <<problem, setup, dynStep, formula, hasSolver, engine, msses, stopEnum,
                     written, accepted>>
  BY DEF SelectRanges, vars
<1>2. UNCHANGED <<problem, setup>> /\ UNCHANGED <<task, query, semantics>>
  BY <1>1 DEF setup
<1>3. /\ StepSets' = StepSets /\ Maximal' = Maximal /\ Softs' = Softs
      /\ (RangeBased' <=> RangeBased)
      /\ ClausesOf(semantics, Helper)' = ClausesOf(semantics, Helper)
      /\ NbVarsOf(Helper)' = NbVarsOf(Helper)
      /\ \A X : SoftOf(X)' = SoftOf(X) /\ Entry(X)' = Entry(X)
      /\ \A e : SetOf(e)' = SetOf(e)
  BY <1>1, <1>2, Steady DEF SetOf
<1>4. StepFramework(Present)
  BY <1>0, AssumptionsExact DEF Present
<1> DEFINE N == NbVarsOf(Helper)
           X == {Selected(Softs[k], nVars + k) : k \in DOMAIN Order}
<1>5. /\ nVars \in Nat /\ N \in Nat /\ N <= nVars /\ Len(Order) \in Nat
      /\ DOMAIN Order = 1..Len(Order) /\ nVars' \in Nat /\ nVars <= nVars'
  BY <1>0, <1>1, ArgumentLiteralsReadable, OrderAssumption DEF BackEndInv
<1>6. \A k \in DOMAIN Order : /\ nVars + k \in Nat /\ nVars < nVars + k /\ N < nVars + k
                              /\ nVars + k <= nVars'
  BY <1>1, <1>5
<1>7. \A k \in DOMAIN Order : Softs[k] \in SUBSET Readable(Helper)
  <2>1. DOMAIN Softs = DOMAIN Order
    BY <1>0 DEF Softs, SoftClauses, RangeBased
  <2> QED BY <1>0, <2>1, SoftReads
<1>8. ASSUME NEW c \in X
      PROVE  /\ c \subseteq Literal /\ c \subseteq (-nVars')..nVars'
             /\ \E l \in c : -l > N /\ -l <= nVars'
  <2>1. PICK k \in DOMAIN Order : c = Selected(Softs[k], nVars + k)
    BY <1>8
  <2> QED BY <1>0, <1>5, <1>6, <1>7, <2>1, SelectedWithin
<1>9. Clausal(X)
  <2> HIDE DEF X
  <2> QED BY <1>5, <1>8, ClausalWithin
<1> HIDE DEF N, X
<1>10. BackEndInv'
  <2>1. Knowledge' \subseteq Knowledge \cup X /\ Collected \subseteq Collected'
    BY <1>1 DEF Knowledge, Collected, X
  <2>2. hasSolver' \in BOOLEAN
    BY <1>0, <1>1 DEF BackEndInv
  <2>3. hasSolver' => IF hasSolver THEN engine \subseteq engine' ELSE Collected \subseteq engine'
    BY <1>1
  <2> QED BY <1>0, <1>2, <1>5, <1>8, <1>9, <2>1, <2>2, <2>3, BackEndStep DEF N
<1>11. Given' = Given \cup X /\ RangeClauses' = X
  <2>1. Given' = Given \cup X
    BY <1>1 DEF Given, X
  <2>2. \A k \in DOMAIN Order : selectors'[k] = nVars + k
    BY <1>1
  <2> QED BY <1>3, <2>1, <2>2 DEF RangeClauses, X, Selected
<1>12. SelectorsInv'
  <2>1. /\ selectors' \in [DOMAIN Order -> Nat]
        /\ \A j, k \in DOMAIN Order : selectors'[j] = selectors'[k] => j = k
        /\ \A k \in DOMAIN Order : Beyond(selectors[k])'
    BY <1>1, <1>3, <1>5, <1>6 DEF Beyond, N
  <2>2. \A v \in Range(selectors') : nVars < v
    BY <1>1, <1>6 DEF Range
  <2>3. ASSUME NEW c \in Given' \ ClausesOf(semantics, Helper)'
        PROVE  c \in RangeClauses' \/ Off(c, Range(selectors))'
    <3>1. CASE c \in X
      BY <1>11, <3>1
    <3>2. CASE c \in Given
      <4>1. c \in Knowledge \ ClausesOf(semantics, Helper)
        BY <1>0, <1>3, <2>3, <3>2, GivenKnows
      <4>2. PICK l \in c : -l > N /\ -l <= nVars
        BY <1>0, <4>1 DEF BackEndInv, Selective, N
      <4>3. l \in Int
        BY <1>0, <4>1, <4>2 DEF BackEndInv, Clausal, Literal
      <4>4. -l <= nVars' /\ -l \notin Range(selectors')
        BY <1>1, <1>5, <2>2, <4>2, <4>3
      <4> QED BY <1>3, <4>2, <4>4 DEF Off, N
    <3> QED BY <1>11, <2>3, <3>1, <3>2
  <2>4. RangeClauses' \subseteq Given'
    BY <1>11
  <2> QED BY <1>1, <2>1, <2>3, <2>4 DEF SelectorsInv
<1>13. RangesInv'
  <2>1. \A S : Coming(S)' <=> \E k \in 1..Len(msses) : SoftOf(S) = msses[k].soft /\ S # SetOf(msses[k])
    BY <1>1, <1>3 DEF Coming
  <2>2. \A S : Settled(S)' <=> Settled(S)
    BY <1>1, <1>2 DEF Settled
  <2>3. Found(msses)'
    BY <1>0, <1>1, <1>3 DEF Found
  <2>4. /\ Len(msses) \in Nat
        /\ \A k \in 1..Len(msses) : /\ SetOf(msses[k]) \in Maximal
                                    /\ msses[k].soft = SoftOf(SetOf(msses[k]))
    BY <1>0, <1>4, FoundEntry
  <2>5. ASSUME NEW S \in Maximal, ~Coming(S)' PROVE Settled(S)'
    <3>1. PICK k \in 1..Len(msses) : msses[k].soft = SoftOf(S)
      BY <1>0, NewMssesExact
    <3>2. S = SetOf(msses[k])
      BY <2>1, <2>5, <3>1
    <3> QED BY <1>0, <2>2, <3>2
  <2>6. accepted' = StatusAtStart'
    BY <1>0, <1>1, <1>2 DEF StatusAtStart
  <2>7. ASSUME task = "EE"
        PROVE  /\ written' \in Seq(Maximal)
               /\ \A j, k \in 1..Len(written') : written'[j] = written'[k] => j = k
               /\ \A S \in Range(written') : ~Coming(S)'
    <3> HIDE DEF SetOf, Maximal
    <3>1. /\ written' \in [1..Len(msses) -> Maximal]
          /\ \A k \in 1..Len(msses) : written'[k] = SetOf(msses[k])
      BY <1>0, <1>1, <2>4, <2>7
    <3>2. written' \in Seq(Maximal) /\ Len(written') = Len(msses)
      BY <2>4, <3>1
    <3>3. ASSUME NEW j \in 1..Len(msses), NEW k \in 1..Len(msses), SoftOf(written'[j]) = msses[k].soft
          PROVE  j = k
      <4>1. msses[j].soft = msses[k].soft
        BY <2>4, <3>1, <3>3
      <4> QED BY <1>0, <4>1 DEF Found
    <3>4. \A j, k \in 1..Len(msses) : written'[j] = written'[k] => j = k
      BY <2>4, <3>1, <3>3
    <3>5. ASSUME NEW S \in Range(written'), Coming(S)' PROVE FALSE
      <4>1. PICK j \in 1..Len(msses) : S = written'[j]
        BY <3>1, <3>5 DEF Range
      <4>2. PICK k \in 1..Len(msses) : SoftOf(S) = msses[k].soft /\ S # SetOf(msses[k])
        BY <2>1, <3>5
      <4> QED BY <3>1, <3>3, <4>1, <4>2
    <3> QED BY <3>2, <3>4, <3>5
  <2> QED BY <1>0, <1>1, <1>2, <1>3, <2>3, <2>5, <2>6, <2>7 DEF RangesInv
<1> QED BY <1>10, <1>12, <1>13

\* What the loop over the ranges relies on.
LEMMA InRanges ==
  ASSUME SolverInv, doing \in {"ranges", "models"}
  PROVE  /\ SetupInv /\ ScanInv /\ BackEndInv /\ RangeBased
         /\ pc = "scan" /\ i = Len(dynAttacks)
         /\ task \in {"EE", "DC", "DS"} /\ semantics # "ID" /\ StepFramework(Present)
         /\ nVars \in Nat /\ NbVarsOf(Helper) \in Nat /\ NbVarsOf(Helper) <= nVars
         /\ selectors \in [DOMAIN Order -> Nat]
         /\ \A k \in DOMAIN Order : Beyond(selectors[k])
         /\ RangeClauses \subseteq Given
         /\ Found(msses) /\ Len(msses) \in Nat /\ DOMAIN msses = 1..Len(msses)
         /\ \A k \in 1..Len(msses) : /\ SetOf(msses[k]) \in Maximal
                                     /\ SetOf(msses[k]) \in StepSets
                                     /\ msses[k] = Entry(SetOf(msses[k]))
                                     /\ msses[k].ext = Coded(SetOf(msses[k]))
                                     /\ msses[k].soft = SoftOf(SetOf(msses[k]))
<1>1. /\ SetupInv /\ ScanInv /\ BackEndInv /\ RangeBased
      /\ pc = "scan" /\ i = Len(dynAttacks) /\ task # "SE"
      /\ selectors \in [DOMAIN Order -> Nat]
      /\ \A k \in DOMAIN Order : Beyond(selectors[k])
      /\ RangeClauses \subseteq Given
      /\ Found(msses)
  BY DEF SolverInv, SelectorsInv, RangesInv
<1>2. task \in {"EE", "DC", "DS"} /\ semantics # "ID"
  BY <1>1, ProblemAssumption DEF SetupInv, RangeBased
<1>3. StepFramework(Present)
  BY <1>1, AssumptionsExact DEF Present
<1>4. nVars \in Nat /\ NbVarsOf(Helper) \in Nat /\ NbVarsOf(Helper) <= nVars
  BY <1>1, ArgumentLiteralsReadable DEF BackEndInv
<1> QED BY <1>1, <1>2, <1>3, <1>4, FoundEntry

\* What it knows of its own clauses, and of those it leaves alone.
LEMMA RangesSteady ==
  ASSUME UNCHANGED <<problem, setup>>, UNCHANGED <<dynStep, selectors>>
  PROVE  /\ RangeClauses' = RangeClauses
         /\ Maximal' = Maximal /\ StepSets' = StepSets
         /\ (RangeBased' <=> RangeBased)
         /\ ClausesOf(semantics, Helper)' = ClausesOf(semantics, Helper)
         /\ NbVarsOf(Helper)' = NbVarsOf(Helper)
         /\ StatusAtStart' = StatusAtStart /\ task' = task
         /\ \A X : SoftOf(X)' = SoftOf(X) /\ Entry(X)' = Entry(X) /\ Coded(X)' = Coded(X)
         /\ \A e : SetOf(e)' = SetOf(e)
         /\ \A T : Decode(T)' = Decode(T) /\ BlockingClause(T)' = BlockingClause(T)
         /\ \A m, s : Another(m, s)' = Another(m, s)
         /\ UNCHANGED <<written, accepted>> =>
              (Answered' <=> Answered) /\ \A S : Settled(S)' <=> Settled(S)
<1>1. UNCHANGED <<semantics, task, query>>
  BY DEF setup
<1>2. /\ Maximal' = Maximal /\ StepSets' = StepSets /\ Softs' = Softs
      /\ (RangeBased' <=> RangeBased)
      /\ ClausesOf(semantics, Helper)' = ClausesOf(semantics, Helper)
      /\ NbVarsOf(Helper)' = NbVarsOf(Helper)
      /\ \A X : SoftOf(X)' = SoftOf(X) /\ Entry(X)' = Entry(X) /\ Coded(X)' = Coded(X)
      /\ \A T : Decode(T)' = Decode(T) /\ BlockingClause(T)' = BlockingClause(T)
      /\ \A m, s : Another(m, s)' = Another(m, s)
  BY Steady
<1>3. RangeClauses' = RangeClauses
  BY <1>2 DEF RangeClauses, Selected
<1>4. StatusAtStart' = StatusAtStart
  BY <1>1 DEF StatusAtStart
<1>5. \A e : SetOf(e)' = SetOf(e)
  BY <1>2 DEF SetOf
<1>6. UNCHANGED <<written, accepted>> =>
        (Answered' <=> Answered) /\ \A S : Settled(S)' <=> Settled(S)
  <2> HIDE DEF Maximal
  <2> QED BY <1>1, <1>2 DEF Answered, Settled
<1> QED BY <1>1, <1>2, <1>3, <1>4, <1>5, <1>6

\* The start of the loop over the extensions of the first range.
LEMMA StartModelsRight ==
  ASSUME SolverInv, StartModels
  PROVE  BackEndInv' /\ SelectorsInv' /\ RangesInv'
<1> DEFINE N == NbVarsOf(Helper)
           m == Head(msses)
           X == Another(m, nVars + 1)
<1>1. /\ doing = "ranges" /\ msses # << >>
      /\ blockingSel' = nVars + 1 /\ nVars' = nVars + 1
      /\ engine' = Given \cup X /\ hasSolver' = TRUE /\ formula' = Collected \cup X
      /\ newFormula' = {} /\ models' = << >> /\ blockingSelectors' = << >>
      /\ doing' = "models"
      /\ UNCHANGED <<problem, setup>>
      /\ UNCHANGED <<dynStep, msses, stopEnum, selectors, written, accepted>>
  BY DEF StartModels, vars
<1>2. /\ SetupInv /\ ScanInv /\ BackEndInv /\ RangeBased /\ task # "SE"
      /\ StepFramework(Present)
      /\ nVars \in Nat /\ N \in Nat /\ N <= nVars
      /\ selectors \in [DOMAIN Order -> Nat]
      /\ \A k \in DOMAIN Order : Beyond(selectors[k])
      /\ RangeClauses \subseteq Given
      /\ Found(msses) /\ Len(msses) \in Nat
      /\ \A k \in 1..Len(msses) : /\ SetOf(msses[k]) \in StepSets
                                  /\ msses[k].ext = Coded(SetOf(msses[k]))
  BY <1>1, InRanges
<1>3. /\ RangeClauses' = RangeClauses /\ Maximal' = Maximal
      /\ (RangeBased' <=> RangeBased)
      /\ ClausesOf(semantics, Helper)' = ClausesOf(semantics, Helper)
      /\ NbVarsOf(Helper)' = N
      /\ StatusAtStart' = StatusAtStart /\ task' = task
      /\ \A Y : SoftOf(Y)' = SoftOf(Y) /\ Entry(Y)' = Entry(Y)
      /\ \A e : SetOf(e)' = SetOf(e)
      /\ \A e, s : Another(e, s)' = Another(e, s)
      /\ (Answered' <=> Answered) /\ \A S : Settled(S)' <=> Settled(S)
  BY <1>1, RangesSteady
<1>4. nVars + 1 \in Nat /\ N < nVars + 1 /\ nVars' \in Nat /\ nVars <= nVars' /\ nVars + 1 <= nVars'
  BY <1>1, <1>2
<1>5. m.ext \subseteq 1..nArgs
  <2>1. m = msses[1] /\ 1 \in 1..Len(msses)
    BY <1>1, <1>2, HeadTailProperties DEF Found
  <2> QED BY <1>2, <2>1, CodedExact DEF StepSets, Present
<1>6. (1..nArgs) \ m.ext \in SUBSET Readable(Helper) /\ Neg(m.ext) \in SUBSET Readable(Helper)
  <2>1. (1..nArgs) \cup Neg(1..nArgs) \subseteq Readable(Helper)
    BY <1>2, ArgumentLiteralsReadable DEF ArgumentLiterals
  <2>2. Neg(m.ext) \subseteq Neg(1..nArgs)
    BY <1>5 DEF Neg
  <2> QED BY <2>1, <2>2
<1>7. ASSUME NEW c \in X
      PROVE  /\ c \subseteq Literal /\ c \subseteq (-nVars')..nVars'
             /\ \E l \in c : -l > N /\ -l <= nVars'
  <2>1. \/ c = Selected((1..nArgs) \ m.ext, nVars + 1)
        \/ c = Selected(Neg(m.ext), nVars + 1)
    BY <1>7 DEF Another
  <2> HIDE DEF m
  <2>2. CASE c = Selected((1..nArgs) \ m.ext, nVars + 1)
    BY <1>2, <1>4, <1>6, <2>2, SelectedWithin
  <2>3. CASE c = Selected(Neg(m.ext), nVars + 1)
    BY <1>2, <1>4, <1>6, <2>3, SelectedWithin
  <2> QED BY <2>1, <2>2, <2>3
<1> HIDE DEF N, X, m
<1>8. BackEndInv'
  <2>1. Clausal(X)
    BY <1>4, <1>7, ClausalWithin
  <2>2. Knowledge' \subseteq Knowledge \cup X /\ Collected \subseteq Collected'
    BY <1>1, <1>2, GivenKnows DEF Knowledge, Collected
  <2>3. hasSolver' => IF hasSolver THEN engine \subseteq engine' ELSE Collected \subseteq engine'
    BY <1>1 DEF Given, Collected
  <2> QED BY <1>1, <1>2, <1>4, <1>7, <2>1, <2>2, <2>3, BackEndStep DEF N
<1>9. Given' = Given \cup X
  BY <1>1 DEF Given
<1>10. SelectorsInv'
  <2>1. Another(Head(msses), blockingSel)' = X
    BY <1>1, <1>3 DEF X, m
  <2>2. BlockingClauses' = {} /\ DOMAIN models' = {} /\ Range(blockingSelectors') = {}
    BY <1>1 DEF BlockingClauses, Range
  <2>3. \A k \in DOMAIN Order : /\ selectors'[k] = selectors[k] /\ selectors[k] \in Nat
                                /\ N < selectors[k] /\ selectors[k] <= nVars
    BY <1>1, <1>2 DEF Beyond, N
  <2>4. \A k \in DOMAIN Order : Beyond(selectors[k])' /\ selectors'[k] < blockingSel'
    BY <1>1, <1>2, <1>3, <2>3 DEF Beyond
  <2>5. Beyond(blockingSel)'
    BY <1>1, <1>3, <1>4 DEF Beyond
  <2>6. ASSUME NEW c \in Given' \ ClausesOf(semantics, Helper)'
        PROVE  \/ c \in RangeClauses' \cup X
               \/ Off(c, Range(selectors) \cup {blockingSel} \cup Range(blockingSelectors))'
    <3>1. CASE c \in Given /\ c \notin RangeClauses
      <4>1. Off(c, Range(selectors))
        BY <1>1, <1>3, <2>6, <3>1 DEF SolverInv, SelectorsInv
      <4>2. PICK l \in c : -l > N /\ -l <= nVars /\ -l \notin Range(selectors)
        BY <4>1 DEF Off, N
      <4>3. l \in Int
        BY <1>2, <3>1, <4>2, GivenKnows DEF BackEndInv, Clausal, Literal
      <4>4. -l <= nVars' /\ -l \notin Range(selectors') \cup {blockingSel'} \cup Range(blockingSelectors')
        BY <1>1, <1>2, <2>2, <4>2, <4>3
      <4> QED BY <1>3, <4>2, <4>4 DEF Off
    <3> QED BY <1>3, <1>9, <2>6, <3>1
  <2>7. models' \in Seq({Coded(S)' : S \in {Y \in Maximal' : SoftOf(Y)' = Head(msses').soft}})
        /\ blockingSelectors' \in [DOMAIN models' -> Nat]
    BY <1>1, <2>2
  <2>8. \A j, k \in DOMAIN Order : selectors[j] = selectors[k] => j = k
    BY <1>1 DEF SolverInv, SelectorsInv
  <2>9. RangeClauses' \subseteq Given'
    BY <1>2, <1>3, <1>9
  <2> QED BY <1>1, <1>2, <1>9, <2>1, <2>2, <2>4, <2>5, <2>6, <2>7, <2>8, <2>9 DEF SelectorsInv
<1>11. RangesInv'
  <2>1. \A S : Coming(S)' <=> Coming(S)
    <3>1. DOMAIN models' = {}
      BY <1>1
    <3> QED BY <1>1, <1>3, <3>1 DEF Coming
  <2>2. RangesInv
    BY DEF SolverInv
  <2>3. Found(msses)'
    BY <1>1, <1>2, <1>3 DEF Found
  <2> HIDE DEF Maximal, Settled, Answered, Coming, Found
  <2> QED BY <1>1, <1>2, <1>3, <2>1, <2>2, <2>3 DEF RangesInv
<1> QED BY <1>8, <1>10, <1>11

\* A set with the range of a maximal one is maximal.
LEMMA SameSoftMaximal ==
  ASSUME SetupInv, StepFramework(Present), NEW M \in Maximal, NEW X \in StepSets,
         SoftOf(X) = SoftOf(M)
  PROVE  X \in Maximal
<1>1. M \in StepSets
  BY StepSetsNonEmpty
<1>2. Compared(X) = Compared(M)
  BY <1>1, SoftOrder
<1> QED BY <1>2 DEF Maximal, MaximalIn

\* A round of the loop: the clauses keep out what has been found, and no more.
LEMMA ModelClauses ==
  ASSUME SolverInv, doing = "models", doing' = "models",
         UNCHANGED <<problem, setup>>, UNCHANGED <<dynStep, msses, selectors, blockingSel>>,
         NEW X \in Maximal, SoftOf(X) = Head(msses).soft,
         BlockedModel(Coded(X), models, blockingSelectors)
  PROVE  SelectorsInv'
<1> DEFINE N == NbVarsOf(Helper)
           n == Len(models)
           T == Coded(X)
           new == Selected(BlockingClause(T), nVars + 1)
<1>1. /\ engine' = Given /\ hasSolver' = TRUE /\ formula' = Collected /\ newFormula' = {new}
      /\ models' = Append(models, T)
      /\ blockingSelectors' = Append(blockingSelectors, nVars + 1)
      /\ nVars' = nVars + 1
  BY DEF BlockedModel, BuildSolver
<1>2. /\ SetupInv /\ BackEndInv
      /\ nVars \in Nat /\ N \in Nat /\ N <= nVars
      /\ selectors \in [DOMAIN Order -> Nat]
      /\ \A k \in DOMAIN Order : Beyond(selectors[k])
      /\ RangeClauses \subseteq Given
  BY InRanges
<1> DEFINE ofRange == {Coded(S) : S \in {Y \in Maximal : SoftOf(Y) = Head(msses).soft}}
<1>3. /\ \A j, k \in DOMAIN Order : selectors[j] = selectors[k] => j = k
      /\ msses # << >>
      /\ Beyond(blockingSel) /\ \A k \in DOMAIN Order : selectors[k] < blockingSel
      /\ models \in Seq(ofRange)
      /\ blockingSelectors \in [DOMAIN models -> Nat]
      /\ \A j \in DOMAIN models :
           Beyond(blockingSelectors[j]) /\ blockingSel < blockingSelectors[j]
      /\ Another(Head(msses), blockingSel) \cup BlockingClauses \subseteq Given
      /\ \A c \in Given \ ClausesOf(semantics, Helper) :
           \/ c \in RangeClauses \cup Another(Head(msses), blockingSel) \cup BlockingClauses
           \/ Off(c, Range(selectors) \cup {blockingSel} \cup Range(blockingSelectors))
  BY DEF SolverInv, SelectorsInv
<1>4. /\ RangeClauses' = RangeClauses /\ Maximal' = Maximal
      /\ ClausesOf(semantics, Helper)' = ClausesOf(semantics, Helper)
      /\ NbVarsOf(Helper)' = N
      /\ \A Y : SoftOf(Y)' = SoftOf(Y) /\ Coded(Y)' = Coded(Y)
      /\ \A t : BlockingClause(t)' = BlockingClause(t)
      /\ \A e, s : Another(e, s)' = Another(e, s)
  BY RangesSteady
<1>5. T \in ofRange
  OBVIOUS
<1> HIDE DEF ofRange, T
<1>6. /\ n \in Nat /\ DOMAIN models = 1..n
      /\ models' \in Seq(ofRange) /\ DOMAIN models' = 1..(n + 1)
      /\ \A j \in 1..n : models'[j] = models[j]
      /\ models'[n + 1] = T
  BY <1>1, <1>3, <1>5
<1>7. blockingSelectors \in Seq(Nat) /\ Len(blockingSelectors) = n
  BY <1>3, <1>6
<1>8. /\ blockingSelectors' \in [1..(n + 1) -> Nat]
      /\ \A j \in 1..n : blockingSelectors'[j] = blockingSelectors[j]
      /\ blockingSelectors'[n + 1] = nVars + 1
  <2> DEFINE more == Append(blockingSelectors, nVars + 1)
  <2>1. nVars + 1 \in Nat
    BY <1>2
  <2>2. more \in Seq(Nat) /\ Len(more) = n + 1
    BY <1>7, <2>1
  <2>3. (\A j \in 1..n : more[j] = blockingSelectors[j]) /\ more[n + 1] = nVars + 1
    BY <1>6, <1>7
  <2> HIDE DEF more
  <2>4. more \in [1..(n + 1) -> Nat]
    BY <2>2
  <2> QED BY <1>1, <2>3, <2>4 DEF more
<1>9. Given' = Given \cup {new}
  BY <1>1 DEF Given
<1>10. BlockingClauses' = BlockingClauses \cup {new}
  <2>1. BlockingClauses' =
          {Selected(BlockingClause(models'[j]), blockingSelectors'[j]) : j \in 1..(n + 1)}
    BY <1>4, <1>6 DEF BlockingClauses, Selected
  <2>2. BlockingClauses =
          {Selected(BlockingClause(models[j]), blockingSelectors[j]) : j \in 1..n}
    BY <1>6 DEF BlockingClauses
  <2>3. 1..(n + 1) = (1..n) \cup {n + 1}
    BY <1>6
  <2>4. \A j \in 1..n : Selected(BlockingClause(models'[j]), blockingSelectors'[j]) =
                        Selected(BlockingClause(models[j]), blockingSelectors[j])
    BY <1>6, <1>8
  <2>5. Selected(BlockingClause(models'[n + 1]), blockingSelectors'[n + 1]) = new
    BY <1>6, <1>8
  <2> HIDE DEF Selected, BlockingClause, new, n
  <2> QED BY <2>1, <2>2, <2>3, <2>4, <2>5
<1>11. Range(blockingSelectors') = Range(blockingSelectors) \cup {nVars + 1}
  <2>1. Range(blockingSelectors) = {blockingSelectors[j] : j \in 1..n}
    BY <1>3, <1>6 DEF Range
  <2>2. Range(blockingSelectors') = {blockingSelectors'[j] : j \in 1..(n + 1)}
    BY <1>8 DEF Range
  <2>3. 1..(n + 1) = (1..n) \cup {n + 1}
    BY <1>6
  <2> HIDE DEF n
  <2> QED BY <1>8, <2>1, <2>2, <2>3
<1> HIDE DEF N, n, new
<1>12. /\ Beyond(blockingSel)'
       /\ \A k \in DOMAIN Order : Beyond(selectors[k])' /\ selectors'[k] < blockingSel'
  BY <1>1, <1>2, <1>3, <1>4 DEF Beyond, N
<1>13. \A j \in DOMAIN models' : Beyond(blockingSelectors[j])' /\ blockingSel' < blockingSelectors'[j]
  <2>1. ASSUME NEW j \in 1..n PROVE Beyond(blockingSelectors[j])' /\ blockingSel' < blockingSelectors'[j]
    <3>1. blockingSelectors'[j] = blockingSelectors[j] /\ blockingSelectors[j] \in Nat
      BY <1>3, <1>6, <1>8
    <3>2. /\ N < blockingSelectors[j] /\ blockingSelectors[j] <= nVars
          /\ blockingSel < blockingSelectors[j]
      BY <1>3, <1>6 DEF Beyond, N
    <3>3. blockingSel' = blockingSel /\ nVars' \in Nat /\ nVars < nVars'
      BY <1>1, <1>2
    <3>4. blockingSelectors[j] <= nVars'
      BY <1>2, <3>1, <3>2, <3>3
    <3> QED BY <1>4, <3>1, <3>2, <3>3, <3>4 DEF Beyond
  <2>2. ASSUME NEW j, j = n + 1 PROVE Beyond(blockingSelectors[j])' /\ blockingSel' < blockingSelectors'[j]
    BY <1>1, <1>2, <1>3, <1>4, <1>8, <2>2 DEF Beyond, N
  <2> QED BY <1>6, <2>1, <2>2
<1>14. ASSUME NEW c \in Given' \ ClausesOf(semantics, Helper)'
       PROVE  \/ c \in RangeClauses' \cup Another(Head(msses), blockingSel)' \cup BlockingClauses'
              \/ Off(c, Range(selectors) \cup {blockingSel} \cup Range(blockingSelectors))'
  <2>1. CASE c = new
    BY <1>10, <2>1
  <2>2. CASE c # new
    <3>1. c \in Given \ ClausesOf(semantics, Helper)
      BY <1>4, <1>9, <1>14, <2>2
    <3>2. CASE c \in RangeClauses \cup Another(Head(msses), blockingSel) \cup BlockingClauses
      BY <1>4, <1>10, <3>2
    <3>3. CASE Off(c, Range(selectors) \cup {blockingSel} \cup Range(blockingSelectors))
      <4>1. PICK l \in c : /\ -l > N /\ -l <= nVars
                           /\ -l \notin Range(selectors) \cup {blockingSel} \cup Range(blockingSelectors)
        BY <3>3 DEF Off, N
      <4>2. l \in Int
        BY <1>2, <3>1, <4>1, GivenKnows DEF BackEndInv, Clausal, Literal
      <4>3. /\ -l <= nVars'
            /\ -l \notin Range(selectors') \cup {blockingSel'} \cup Range(blockingSelectors')
        BY <1>1, <1>2, <1>11, <4>1, <4>2
      <4> QED BY <1>4, <4>1, <4>3 DEF Off
    <3> QED BY <1>3, <3>1, <3>2, <3>3
  <2> QED BY <2>1, <2>2
<1>15. Another(Head(msses), blockingSel)' \cup BlockingClauses' \cup RangeClauses' \subseteq Given'
  BY <1>2, <1>3, <1>4, <1>9, <1>10
<1>16. models' \in Seq({Coded(S)' : S \in {Y \in Maximal' : SoftOf(Y)' = Head(msses').soft}})
  <2>1. {Coded(S)' : S \in {Y \in Maximal' : SoftOf(Y)' = Head(msses').soft}} = ofRange
    BY <1>4 DEF ofRange
  <2> QED BY <1>6, <2>1
<1>17. selectors' = selectors /\ msses' = msses /\ blockingSelectors' \in [DOMAIN models' -> Nat]
  BY <1>6, <1>8
<1> QED BY <1>2, <1>3, <1>12, <1>13, <1>14, <1>15, <1>16, <1>17 DEF SelectorsInv

\* A list with one more element.
LEMMA AppendRange ==
  ASSUME NEW E, NEW w \in Seq(E), NEW e
  PROVE  /\ Range(Append(w, e)) = Range(w) \cup {e}
         /\ e \in E => Append(w, e) \in Seq(E)
<1> DEFINE n == Len(w)
           more == Append(w, e)
<1>1. n \in Nat /\ DOMAIN w = 1..n /\ DOMAIN more = 1..(n + 1)
  OBVIOUS
<1>2. (\A k \in 1..n : more[k] = w[k]) /\ more[n + 1] = e
  OBVIOUS
<1>3. 1..(n + 1) = (1..n) \cup {n + 1}
  BY <1>1
<1>4. e \in E => more \in Seq(E)
  OBVIOUS
<1> HIDE DEF n, more
<1>5. Range(more) = Range(w) \cup {e}
  BY <1>1, <1>2, <1>3 DEF Range
<1> QED BY <1>4, <1>5 DEF more

\* A list without repetition and an element it lacks.
LEMMA AppendDistinct ==
  ASSUME NEW E, NEW w \in Seq(E), NEW e, e \notin Range(w),
         \A j, k \in 1..Len(w) : w[j] = w[k] => j = k
  PROVE  LET more == Append(w, e)
         IN  \A j, k \in 1..Len(more) : more[j] = more[k] => j = k
<1> DEFINE n == Len(w)
           more == Append(w, e)
<1>1. /\ n \in Nat /\ DOMAIN w = 1..n /\ Len(more) = n + 1
      /\ \A k \in 1..n : more[k] = w[k]
      /\ more[n + 1] = e
  OBVIOUS
<1> HIDE DEF more
<1>2. ASSUME NEW j \in 1..(n + 1), NEW k \in 1..(n + 1), more[j] = more[k] PROVE j = k
  <2>1. (j \in 1..n \/ j = n + 1) /\ (k \in 1..n \/ k = n + 1)
    BY <1>1
  <2>2. \A q \in 1..n : w[q] # e
    BY <1>1 DEF Range
  <2> QED BY <1>1, <1>2, <2>1, <2>2
<1> QED BY <1>1, <1>2 DEF more

\* A round of the loop: another extension of the first range is reported.
LEMMA NextModelRight ==
  ASSUME SolverInv, NextModel
  PROVE  BackEndInv' /\ SelectorsInv' /\ RangesInv'
<1>0. /\ doing = "models" /\ ~stopEnum /\ doing' = "models"
      /\ UNCHANGED <<problem, setup>>
      /\ UNCHANGED <<dynStep, msses, selectors, blockingSel>>
  BY DEF NextModel, vars
<1>1. /\ SetupInv /\ ScanInv /\ BackEndInv /\ RangeBased /\ StepFramework(Present)
      /\ task \in {"EE", "DC", "DS"} /\ semantics # "ID"
      /\ Found(msses) /\ Len(msses) \in Nat
      /\ \A k \in 1..Len(msses) : /\ SetOf(msses[k]) \in Maximal
                                  /\ msses[k].soft = SoftOf(SetOf(msses[k]))
  BY <1>0, InRanges
<1>2. /\ msses # << >>
      /\ accepted = StatusAtStart
      /\ \A S \in Maximal : ~Coming(S) => Settled(S)
      /\ task = "EE" => /\ written \in Seq(Maximal)
                        /\ \A j, k \in 1..Len(written) : written[j] = written[k] => j = k
                        /\ \A S \in Range(written) : ~Coming(S)
      /\ models \in Seq({Coded(S) : S \in {X \in Maximal : SoftOf(X) = Head(msses).soft}})
  BY <1>0 DEF SolverInv, SelectorsInv, RangesInv
<1>3. PICK T \in OthersOfRange : /\ BlockedModel(T, models, blockingSelectors)
                                 /\ Reports(T)
                                 /\ stopEnum' = Stops(T)
  BY DEF NextModel
<1>4. PICK X \in StepSets : /\ T = Coded(X) /\ SoftOf(X) = Head(msses).soft
                            /\ X # SetOf(Head(msses))
                            /\ \A j \in DOMAIN models : X # Decode(models[j])
  BY <1>0, OthersExact
<1>5. 1 \in 1..Len(msses) /\ Head(msses) = msses[1]
  BY <1>1, <1>2, HeadTailProperties DEF Found
<1>6. X \in Maximal
  BY <1>1, <1>4, <1>5, SameSoftMaximal
<1>7. Coded(X) \in SUBSET (1..nArgs) /\ Decode(Coded(X)) = X
  BY <1>1, CodedExact DEF StepSets, Present
<1>8. BackEndInv' /\ SelectorsInv'
  BY <1>0, <1>1, <1>3, <1>4, <1>6, <1>7, BlockedModelStep, ModelClauses
<1> DEFINE n == Len(models)
<1>9. /\ n \in Nat /\ DOMAIN models = 1..n /\ DOMAIN models' = 1..(n + 1)
      /\ \A j \in 1..n : models'[j] = models[j]
      /\ models'[n + 1] = Coded(X)
  <2>1. models' = Append(models, Coded(X))
    BY <1>3, <1>4 DEF BlockedModel
  <2> QED BY <1>2, <2>1
<1>10. /\ Maximal' = Maximal /\ (RangeBased' <=> RangeBased)
       /\ StatusAtStart' = StatusAtStart /\ task' = task /\ query' = query
       /\ \A S : SoftOf(S)' = SoftOf(S) /\ Entry(S)' = Entry(S)
       /\ \A e : SetOf(e)' = SetOf(e)
       /\ \A t : Decode(t)' = Decode(t)
  BY <1>0, RangesSteady DEF setup
<1>11. \A S : Coming(S)' <=> Coming(S) /\ S # X
  <2>1. ASSUME NEW S, Coming(S)' PROVE Coming(S) /\ S # X
    <3>1. PICK k \in 1..Len(msses) :
            /\ SoftOf(S) = msses[k].soft
            /\ S # SetOf(msses[k])
            /\ k = 1 => \A j \in DOMAIN models' : S # Decode(models'[j])
      BY <1>0, <1>10, <2>1 DEF Coming
    <3>2. k = 1 => \A j \in DOMAIN models : S # Decode(models[j])
      BY <1>9, <3>1
    <3>3. S # X
      <4>1. CASE k = 1
        <5>1. n + 1 \in DOMAIN models' /\ Decode(models'[n + 1]) = X
          BY <1>7, <1>9
        <5> QED BY <3>1, <4>1, <5>1
      <4>2. CASE k # 1
        BY <1>1, <1>4, <1>5, <3>1, <4>2 DEF Found
      <4> QED BY <4>1, <4>2
    <3> QED BY <3>1, <3>2, <3>3 DEF Coming
  <2>2. ASSUME NEW S, Coming(S), S # X PROVE Coming(S)'
    <3>1. PICK k \in 1..Len(msses) :
            /\ SoftOf(S) = msses[k].soft
            /\ S # SetOf(msses[k])
            /\ k = 1 => \A j \in DOMAIN models : S # Decode(models[j])
      BY <1>0, <2>2 DEF Coming
    <3>2. k = 1 => \A j \in DOMAIN models' : S # Decode(models'[j])
      BY <1>7, <1>9, <2>2, <3>1
    <3> QED BY <1>0, <1>10, <3>1, <3>2 DEF Coming
  <2> QED BY <2>1, <2>2
<1>12. Coming(X)
  BY <1>4, <1>5 DEF Coming
<1>13. /\ task = "EE" => written' = Append(written, X) /\ accepted' = accepted
       /\ task # "EE" => written' = written
       /\ task \in {"DC", "DS"} => (accepted' <=> query \in X)
       /\ accepted' \in BOOLEAN
       /\ varOf[query] \in Coded(X) <=> query \in X
  BY <1>1, <1>2, <1>3, <1>4, <1>6, ReportsRight
<1>14. stopEnum' => Answered'
  <2>1. SUFFICES ASSUME stopEnum' PROVE Answered'
    OBVIOUS
  <2>2. \/ task = "DC" /\ query \in X
        \/ task = "DS" /\ query \notin X
    BY <1>1, <1>2, <1>3, <1>4, <1>13, <2>1 DEF Stops
  <2> QED BY <1>0, <1>6, <1>13, <2>2, VerdictRight
<1>15. ASSUME ~stopEnum'
       PROVE  /\ accepted' = StatusAtStart'
              /\ \A S \in Maximal : ~Coming(S)' => Settled(S)'
  <2>1. ~Stops(T)
    BY <1>3, <1>15
  <2>2. (task = "DC" => query \notin X) /\ (task = "DS" => query \in X)
    BY <1>1, <1>4, <1>13, <2>1 DEF Stops
  <2>3. StatusAtStart = (task = "DS")
    BY <1>1 DEF StatusAtStart
  <2>4. accepted' = StatusAtStart'
    <3>1. CASE task = "EE"
      BY <1>2, <1>10, <1>13, <3>1
    <3>2. CASE task = "DC"
      BY <1>10, <1>13, <2>2, <2>3, <3>2
    <3>3. CASE task = "DS"
      BY <1>10, <1>13, <2>2, <2>3, <3>3
    <3> QED BY <1>1, <3>1, <3>2, <3>3
  <2>5. ASSUME NEW S \in Maximal, ~Coming(S)' PROVE Settled(S)'
    <3>1. S = X \/ Settled(S)
      BY <1>2, <1>11, <2>5
    <3>2. CASE task = "EE"
      <4>1. written \in Seq(Maximal) /\ written' = Append(written, X)
        BY <1>2, <1>13, <3>2
      <4>2. Range(written') = Range(written) \cup {X}
        BY <4>1, AppendRange
      <4>3. S \in Range(written')
        BY <3>1, <3>2, <4>2 DEF Settled
      <4> QED BY <1>10, <3>2, <4>3 DEF Settled
    <3>3. CASE task # "EE"
      BY <1>1, <1>10, <2>2, <3>1, <3>3 DEF Settled
    <3> QED BY <3>2, <3>3
  <2> QED BY <2>4, <2>5
<1>16. ASSUME task = "EE"
       PROVE  /\ written' \in Seq(Maximal)
              /\ \A j, k \in 1..Len(written') : written'[j] = written'[k] => j = k
              /\ \A S \in Range(written') : ~Coming(S)'
  <2> HIDE DEF Maximal, Coming
  <2>1. written \in Seq(Maximal) /\ written' = Append(written, X) /\ X \notin Range(written)
    BY <1>2, <1>12, <1>13, <1>16
  <2>2. Range(written') = Range(written) \cup {X} /\ written' \in Seq(Maximal)
    BY <1>6, <2>1, AppendRange
  <2>3. \A j, k \in 1..Len(written') : written'[j] = written'[k] => j = k
    BY <1>2, <1>16, <2>1, AppendDistinct
  <2> QED BY <1>2, <1>11, <1>16, <2>2, <2>3
<1>17. Found(msses)'
  BY <1>0, <1>1, <1>10 DEF Found
<1>18. RangesInv'
  <2> HIDE DEF Maximal, Settled, Answered, Coming, Found
  <2> QED BY <1>0, <1>1, <1>10, <1>14, <1>15, <1>16, <1>17 DEF RangesInv
<1> QED BY <1>8, <1>18

\* A clause of a selector that is not in use stays one when fewer are.
LEMMA OffFewer ==
  ASSUME NEW c, NEW on, NEW fewer, Off(c, on), fewer \subseteq on
  PROVE  Off(c, fewer)
BY DEF Off

\* At the end of the loop its selectors are retired and the clauses of the ranges
\* are left.
LEMMA ModelsRetired ==
  ASSUME SolverInv, EndModels
  PROVE  BackEndInv' /\ SelectorsInv'
<1> DEFINE N == NbVarsOf(Helper)
           V == {blockingSel} \cup {blockingSelectors[j] : j \in DOMAIN models}
           X == {{-v} : v \in V}
           own == Another(Head(msses), blockingSel) \cup BlockingClauses
           on == Range(selectors) \cup {blockingSel} \cup Range(blockingSelectors)
<1>1. /\ doing = "models" /\ doing' = "ranges"
      /\ UNCHANGED <<problem, setup>> /\ UNCHANGED <<dynStep, selectors, nVars>>
      /\ \/ newFormula' = newFormula \cup Retired \cup {{-blockingSel}}
            /\ UNCHANGED <<formula, hasSolver, engine>>
         \/ BuildSolver /\ newFormula' = Retired \cup {{-blockingSel}}
  BY DEF EndModels, vars
<1>2. /\ SetupInv /\ BackEndInv
      /\ nVars \in Nat /\ N \in Nat /\ N <= nVars
      /\ selectors \in [DOMAIN Order -> Nat]
      /\ \A k \in DOMAIN Order : Beyond(selectors[k])
      /\ RangeClauses \subseteq Given
  BY <1>1, InRanges
<1>3. /\ \A j, k \in DOMAIN Order : selectors[j] = selectors[k] => j = k
      /\ Beyond(blockingSel) /\ \A k \in DOMAIN Order : selectors[k] < blockingSel
      /\ blockingSelectors \in [DOMAIN models -> Nat]
      /\ \A j \in DOMAIN models :
           Beyond(blockingSelectors[j]) /\ blockingSel < blockingSelectors[j]
      /\ \A c \in Given \ ClausesOf(semantics, Helper) :
           c \in RangeClauses \cup own \/ Off(c, on)
      /\ \E Y : models \in Seq(Y)
  BY <1>1 DEF SolverInv, SelectorsInv
<1>4. /\ RangeClauses' = RangeClauses
      /\ ClausesOf(semantics, Helper)' = ClausesOf(semantics, Helper)
      /\ NbVarsOf(Helper)' = N
  BY <1>1, RangesSteady
<1>5. X = Retired \cup {{-blockingSel}}
  BY DEF Retired
<1>6. /\ V \in SUBSET Nat
      /\ \A v \in V : N < v /\ v <= nVars /\ v \notin Range(selectors)
  <2>1. ASSUME NEW v \in V PROVE v \in Nat /\ N < v /\ v <= nVars /\ blockingSel <= v
    <3>1. CASE v = blockingSel
      BY <1>3, <3>1 DEF Beyond
    <3>2. CASE v \in {blockingSelectors[j] : j \in DOMAIN models}
      <4>1. PICK j \in DOMAIN models : v = blockingSelectors[j]
        BY <3>2
      <4> QED BY <1>3, <4>1 DEF Beyond
    <3> QED BY <3>1, <3>2
  <2>2. \A k \in DOMAIN Order : selectors[k] \in Nat /\ selectors[k] < blockingSel /\ blockingSel \in Nat
    BY <1>2, <1>3 DEF Beyond
  <2>3. ASSUME NEW v \in V PROVE v \notin Range(selectors)
    <3>1. \A k \in DOMAIN Order : selectors[k] # v
      BY <2>1, <2>2
    <3> QED BY <1>2, <3>1 DEF Range
  <2> HIDE DEF V
  <2> QED BY <2>1, <2>3
<1>7. IsFiniteSet(V)
  <2>1. IsFiniteSet(DOMAIN models)
    <3>1. Len(models) \in Nat /\ DOMAIN models = 1..Len(models)
      BY <1>3
    <3> QED BY <3>1, FS_Interval
  <2>2. IsFiniteSet({blockingSelectors[j] : j \in DOMAIN models})
    <3> DEFINE U == {blockingSelectors[j] : j \in DOMAIN models}
    <3>1. blockingSelectors \in Surjection(DOMAIN models, U)
      BY <1>3 DEF Surjection
    <3> HIDE DEF U
    <3>2. IsFiniteSet(U)
      BY <2>1, <3>1, FS_Surjection
    <3> QED BY <3>2 DEF U
  <2> QED BY <2>2, FS_Singleton, FS_Union
<1> HIDE DEF N, V
<1>8. /\ Clausal(X)
      /\ \A c \in X : \E l \in c : -l > N /\ -l <= nVars
  <2>1. \A v \in V : v > NbVarsOf(Helper) /\ v <= nVars
    BY <1>2, <1>6 DEF N
  <2> QED BY <1>2, <1>6, <1>7, <2>1, RetiredClausal DEF N
<1> HIDE DEF X
<1>9. BackEndInv'
  <2>1. CASE newFormula' = newFormula \cup X /\ UNCHANGED <<formula, hasSolver, engine>>
    <3>1. Knowledge' \subseteq Knowledge \cup X /\ Collected \subseteq Collected'
      BY <2>1 DEF Knowledge, Collected
    <3>2. hasSolver' => IF hasSolver THEN engine \subseteq engine' ELSE Collected \subseteq engine'
      BY <2>1
    <3>3. hasSolver' \in BOOLEAN /\ nVars' \in Nat /\ nVars <= nVars'
      BY <1>1, <1>2, <2>1 DEF BackEndInv
    <3> QED BY <1>1, <1>2, <1>8, <3>1, <3>2, <3>3, BackEndStep DEF N
  <2>2. CASE BuildSolver /\ newFormula' = X
    <3>1. nVars' \in Nat /\ nVars <= nVars' /\ nVars' = nVars
      BY <1>1, <1>2
    <3> QED BY <1>1, <1>2, <1>8, <2>2, <3>1, BuildSolverStep DEF N
  <2> QED BY <1>1, <1>5, <2>1, <2>2
<1>10. Given' = Given \cup X
  BY <1>1, <1>5 DEF Given, BuildSolver
<1>11. ASSUME NEW c, NEW v \in V, -v \in c PROVE Off(c, Range(selectors))'
  <2>1. -(-v) = v /\ v > N /\ v <= nVars /\ v \notin Range(selectors)
    BY <1>2, <1>6
  <2> QED BY <1>1, <1>4, <1>11, <2>1 DEF Off
<1>12. ASSUME NEW c \in Given' \ ClausesOf(semantics, Helper)'
       PROVE  c \in RangeClauses' \/ Off(c, Range(selectors))'
  <2>1. CASE c \in X
    <3>1. PICK v \in V : c = {-v}
      BY <2>1 DEF X
    <3> QED BY <1>11, <3>1
  <2>2. CASE c \in Another(Head(msses), blockingSel)
    <3>1. -blockingSel \in c /\ blockingSel \in V
      BY <2>2 DEF Another, Selected, V
    <3> QED BY <1>11, <3>1
  <2>3. CASE c \in BlockingClauses
    <3>1. PICK j \in DOMAIN models : -blockingSelectors[j] \in c /\ blockingSelectors[j] \in V
      BY <2>3 DEF BlockingClauses, Selected, V
    <3> QED BY <1>11, <3>1
  <2>4. CASE Off(c, on)
    <3>1. Off(c, Range(selectors))
      BY <2>4, OffFewer
    <3> QED BY <1>1, <1>4, <3>1 DEF Off, N
  <2> HIDE DEF on
  <2> QED BY <1>3, <1>4, <1>10, <1>12, <2>1, <2>2, <2>3, <2>4
<1>13. \A k \in DOMAIN Order : Beyond(selectors[k])'
  BY <1>1, <1>2, <1>4 DEF Beyond, N
<1>14. RangeClauses' \subseteq Given'
  BY <1>2, <1>4, <1>10
<1>15. SelectorsInv'
  BY <1>1, <1>2, <1>3, <1>12, <1>13, <1>14 DEF SelectorsInv
<1> QED BY <1>9, <1>15

\* The loop goes on with the next range, or the question is decided.
LEMMA EndModelsRight ==
  ASSUME SolverInv, EndModels
  PROVE  BackEndInv' /\ SelectorsInv' /\ RangesInv'
<1>1. /\ doing = "models" /\ doing' = "ranges"
      /\ stopEnum \/ OthersOfRange = {}
      /\ msses' = IF stopEnum THEN << >> ELSE Tail(msses)
      /\ UNCHANGED <<problem, setup>>
      /\ UNCHANGED <<dynStep, selectors, stopEnum, written, accepted>>
  BY DEF EndModels, vars
<1>2. /\ SetupInv /\ RangeBased /\ StepFramework(Present) /\ task # "SE"
      /\ Found(msses) /\ Len(msses) \in Nat
  BY <1>1, InRanges
<1>3. /\ msses # << >>
      /\ stopEnum => Answered
      /\ ~stopEnum => /\ accepted = StatusAtStart
                      /\ \A S \in Maximal : ~Coming(S) => Settled(S)
      /\ task = "EE" => /\ written \in Seq(Maximal)
                        /\ \A j, k \in 1..Len(written) : written[j] = written[k] => j = k
                        /\ \A S \in Range(written) : ~Coming(S)
  BY <1>1 DEF SolverInv, SelectorsInv, RangesInv
<1>4. /\ Maximal' = Maximal /\ (RangeBased' <=> RangeBased)
      /\ StatusAtStart' = StatusAtStart /\ task' = task
      /\ \A S : SoftOf(S)' = SoftOf(S) /\ Entry(S)' = Entry(S)
      /\ \A e : SetOf(e)' = SetOf(e)
      /\ (Answered' <=> Answered) /\ \A S : Settled(S)' <=> Settled(S)
  BY <1>1, RangesSteady
<1> DEFINE n == Len(msses)
<1>5. /\ n \in Nat \ {0} /\ msses \in Seq({Entry(S) : S \in Maximal})
      /\ \A j, k \in 1..n : msses[j].soft = msses[k].soft => j = k
      /\ Head(msses) = msses[1]
  BY <1>2, <1>3, HeadTailProperties DEF Found
<1>6. CASE stopEnum
  <2>1. msses' = << >> /\ 1..Len(msses') = {}
    BY <1>1, <1>6
  <2>2. Found(msses)' /\ \A S : ~Coming(S)'
    BY <2>1 DEF Found, Coming
  <2>3. RangesInv'
    <3> HIDE DEF Maximal, Settled, Answered, Coming, Found
    <3> QED BY <1>1, <1>2, <1>3, <1>4, <1>6, <2>2 DEF RangesInv
  <2> QED BY <2>3, ModelsRetired
<1>7. CASE ~stopEnum
  <2>1. /\ msses' = Tail(msses) /\ Len(msses') = n - 1
        /\ msses' \in Seq({Entry(S) : S \in Maximal})
        /\ \A k \in 1..(n - 1) : k + 1 \in 1..n /\ msses'[k] = msses[k + 1]
    BY <1>1, <1>5, <1>7
  <2>2. Found(msses)'
    <3>1. \A j, k \in 1..Len(msses') : msses'[j].soft = msses'[k].soft => j = k
      BY <1>5, <2>1
    <3> QED BY <1>4, <2>1, <3>1 DEF Found
  <2>3. ASSUME NEW S, Coming(S)' PROVE Coming(S)
    <3>1. PICK k \in 1..(n - 1) : SoftOf(S) = msses'[k].soft /\ S # SetOf(msses'[k])
      <4>1. \A k \in 1..Len(msses') : SetOf(msses[k])' = SetOf(msses'[k])
        BY <1>4
      <4> HIDE DEF SetOf
      <4> QED BY <1>4, <2>1, <2>3, <4>1 DEF Coming
    <3>2. k + 1 \in 1..n /\ k + 1 # 1 /\ SoftOf(S) = msses[k + 1].soft /\ S # SetOf(msses[k + 1])
      BY <1>5, <2>1, <3>1
    <3> HIDE DEF SetOf
    <3> QED BY <3>2 DEF Coming
  <2>4. ASSUME NEW S \in Maximal, Coming(S) PROVE Coming(S)'
    <3>1. PICK k \in 1..n :
            /\ SoftOf(S) = msses[k].soft
            /\ S # SetOf(msses[k])
            /\ k = 1 => \A j \in DOMAIN models : S # Decode(models[j])
      BY <1>1, <2>4 DEF Coming
    <3>2. S \in StepSets
      BY <1>2, StepSetsNonEmpty
    <3>3. k # 1
      <4>1. SUFFICES ASSUME k = 1 PROVE FALSE
        OBVIOUS
      <4>2. Coded(S) \in OthersOfRange
        BY <1>1, <1>5, <3>1, <3>2, <4>1, OthersExact
      <4> QED BY <1>1, <1>7, <4>2
    <3>4. k - 1 \in 1..(n - 1) /\ msses'[k - 1] = msses[k]
      BY <1>5, <2>1, <3>3
    <3>5. \A q \in 1..Len(msses') : SetOf(msses[q])' = SetOf(msses'[q])
      BY <1>4
    <3> HIDE DEF SetOf
    <3> QED BY <1>1, <1>4, <2>1, <3>1, <3>4, <3>5 DEF Coming
  <2>5. RangesInv'
    <3> HIDE DEF Maximal, Settled, Answered, Coming, Found
    <3> QED BY <1>1, <1>2, <1>3, <1>4, <1>7, <2>2, <2>3, <2>4 DEF RangesInv
  <2> QED BY <2>5, ModelsRetired
<1> QED BY <1>6, <1>7

\* When no range is left every extension has been taken into account.
LEMMA EndRangesRight ==
  ASSUME SolverInv, EndRanges
  PROVE  BackEndInv' /\ AnswersCorrect'
<1>1. /\ doing = "ranges" /\ msses = << >>
      /\ newFormula' = newFormula \cup {{-selectors[k]} : k \in DOMAIN selectors}
      /\ UNCHANGED <<problem, setup>>
      /\ UNCHANGED <<dynStep, formula, hasSolver, engine, nVars, written, accepted>>
  BY DEF EndRanges, Returns, Call
<1>2. /\ SetupInv /\ BackEndInv /\ task \in {"EE", "DC", "DS"} /\ semantics # "ID"
      /\ nVars \in Nat /\ NbVarsOf(Helper) \in Nat
      /\ selectors \in [DOMAIN Order -> Nat]
      /\ \A k \in DOMAIN Order : Beyond(selectors[k])
  BY <1>1, InRanges
<1>3. \A S : ~Coming(S)
  <2>1. 1..Len(msses) = {}
    BY <1>1
  <2> QED BY <2>1 DEF Coming
<1>4. Answered
  <2>1. /\ stopEnum => Answered
        /\ ~stopEnum => /\ accepted = StatusAtStart
                        /\ \A S \in Maximal : Settled(S)
        /\ task = "EE" => /\ written \in Seq(Maximal)
                          /\ \A j, k \in 1..Len(written) : written[j] = written[k] => j = k
    BY <1>1, <1>3 DEF SolverInv, RangesInv
  <2> QED BY <1>2, <2>1, AllSettled
<1>5. AnswersCorrect'
  BY <1>1, <1>2, <1>4, AnsweredRight
<1>6. BackEndInv'
  <2> DEFINE V == {selectors[k] : k \in DOMAIN Order}
             X == {{-v} : v \in V}
  <2>1. X = {{-selectors[k]} : k \in DOMAIN selectors}
    BY <1>2
  <2>2. V \in SUBSET Nat /\ \A v \in V : v > NbVarsOf(Helper) /\ v <= nVars
    BY <1>2 DEF Beyond
  <2>3. IsFiniteSet(V)
    <3>1. selectors \in Surjection(DOMAIN Order, V)
      BY <1>2 DEF Surjection
    <3>2. IsFiniteSet(DOMAIN Order)
      <4>1. Len(Order) \in Nat /\ DOMAIN Order = 1..Len(Order)
        BY OrderAssumption
      <4> QED BY <4>1, FS_Interval
    <3> HIDE DEF V
    <3> QED BY <3>1, <3>2, FS_Surjection
  <2> HIDE DEF V
  <2>4. Clausal(X) /\ \A c \in X : \E l \in c : -l > NbVarsOf(Helper) /\ -l <= nVars
    BY <1>2, <2>2, <2>3, RetiredClausal
  <2>5. Knowledge' \subseteq Knowledge \cup X /\ Collected \subseteq Collected'
    BY <1>1, <2>1 DEF Knowledge, Collected
  <2>6. hasSolver' => IF hasSolver THEN engine \subseteq engine' ELSE Collected \subseteq engine'
    BY <1>1
  <2>7. hasSolver' \in BOOLEAN /\ nVars' \in Nat /\ nVars <= nVars' /\ nVars' = nVars
    BY <1>1, <1>2 DEF BackEndInv
  <2> HIDE DEF X
  <2> QED BY <1>1, <1>2, <2>4, <2>5, <2>6, <2>7, BackEndStep
<1> QED BY <1>5, <1>6

----------------------------------------------------------------------------
(* The theorems *)

\* What init leaves.
LEMMA StartSolverInv ==
  ASSUME SolverInit
  PROVE  SolverInv
<1>1. BackEndInit /\ doing = "nothing" /\ stopEnum = FALSE
  BY DEF SolverInit
<1>2. SetupInv /\ ScanInv /\ BackEndInv
  BY <1>1, StartSetup, StartBackEnd
<1>3. pc = "scan"
  BY <1>1 DEF BackEndInit, BeforeFirstCall
<1> QED BY <1>1, <1>2, <1>3 DEF SolverInv, SelectorsInv, MssesInv, RangesInv, AnswersCorrect

\* The state is all that these invariants speak of.
LEMMA StutterRight ==
  ASSUME SolverInv, UNCHANGED <<problem, setup>>, UNCHANGED <<dynStep, backEnd, search>>,
         UNCHANGED <<written, accepted>>
  PROVE  BackEndInv' /\ SelectorsInv' /\ MssesInv' /\ RangesInv'
<1>1. /\ UNCHANGED <<formula, newFormula, hasSolver, engine, nVars, models, blockingSelectors>>
      /\ UNCHANGED <<doing, msses, grExt, stopEnum, selectors, blockingSel>>
      /\ UNCHANGED <<semantics, task, query, varOf, nArgs>>
  BY DEF backEnd, search, setup
<1>2. BackEndInv' /\ Given' = Given
  BY BackEndKept DEF SolverInv
<1>3. /\ RangeClauses' = RangeClauses
      /\ Maximal' = Maximal /\ StepSets' = StepSets
      /\ (RangeBased' <=> RangeBased)
      /\ ClausesOf(semantics, Helper)' = ClausesOf(semantics, Helper)
      /\ NbVarsOf(Helper)' = NbVarsOf(Helper)
      /\ StatusAtStart' = StatusAtStart /\ task' = task
      /\ \A X : SoftOf(X)' = SoftOf(X) /\ Entry(X)' = Entry(X) /\ Coded(X)' = Coded(X)
      /\ \A e : SetOf(e)' = SetOf(e)
      /\ \A T : Decode(T)' = Decode(T) /\ BlockingClause(T)' = BlockingClause(T)
      /\ \A m, s : Another(m, s)' = Another(m, s)
      /\ (Answered' <=> Answered) /\ \A S : Settled(S)' <=> Settled(S)
  BY <1>1, RangesSteady
<1>4. SelectorsInv'
  <2>1. BlockingClauses' = BlockingClauses
    BY <1>1, <1>3 DEF BlockingClauses, Selected
  <2>2. \A v : Beyond(v)' <=> Beyond(v)
    BY <1>1, <1>3 DEF Beyond
  <2>3. \A c, on : Off(c, on)' <=> Off(c, on)
    BY <1>1, <1>3 DEF Off
  <2>4. SelectorsInv
    BY DEF SolverInv
  <2>5. Another(Head(msses), blockingSel)' = Another(Head(msses), blockingSel)
    BY <1>1, <1>3
  <2>6. /\ \A k \in DOMAIN Order : Beyond(selectors[k])' <=> Beyond(selectors[k])
        /\ \A j \in DOMAIN models : Beyond(blockingSelectors[j])' <=> Beyond(blockingSelectors[j])
        /\ Beyond(blockingSel)' <=> Beyond(blockingSel)
        /\ \A c : Off(c, Range(selectors))' <=> Off(c, Range(selectors))
        /\ \A c : Off(c, Range(selectors) \cup {blockingSel} \cup Range(blockingSelectors))'
                    <=> Off(c, Range(selectors) \cup {blockingSel} \cup Range(blockingSelectors))
    BY <1>1, <2>2, <2>3
  <2> HIDE DEF Beyond, Off, RangeClauses, BlockingClauses, Another, Maximal, Coded
  <2> QED BY <1>1, <1>2, <1>3, <2>1, <2>4, <2>5, <2>6 DEF SelectorsInv
<1>5. Found(msses)' <=> Found(msses)
  BY <1>1, <1>3 DEF Found
<1>6. MssesInv'
  <2>1. (InAll' = InAll) /\ (Refuted' <=> Refuted)
    BY <1>1 DEF InAll, Refuted
  <2>2. \A k : SetOf(msses[k])' = SetOf(msses[k]) /\ (Settled(SetOf(msses[k]))' <=> Settled(SetOf(msses[k])))
    BY <1>1, <1>3
  <2>3. MssesInv
    BY DEF SolverInv
  <2> HIDE DEF Maximal, Settled, Answered, Found, SetOf, InAll, Refuted, Coded
  <2> QED BY <1>1, <1>3, <1>5, <2>1, <2>2, <2>3 DEF MssesInv
<1>7. RangesInv'
  <2>1. \A S : Coming(S)' <=> Coming(S)
    BY <1>1, <1>3 DEF Coming
  <2>2. RangesInv
    BY DEF SolverInv
  <2> HIDE DEF Maximal, Settled, Answered, Found, Coming
  <2> QED BY <1>1, <1>3, <1>5, <2>1, <2>2 DEF RangesInv
<1> QED BY <1>2, <1>4, <1>6, <1>7

\* Between the calls the decorator touches nothing of the back end.
LEMMA BetweenRight ==
  ASSUME SolverInv, Between
  PROVE  BackEndInv' /\ doing = "nothing" /\ doing' = "nothing" /\ AnswersCorrect'
<1>1. /\ SetupInv /\ ScanInv /\ BackEndInv
      /\ UNCHANGED <<problem, setup>> /\ UNCHANGED backEnd /\ doing' = doing
      /\ ScanApplied \/ ScanPending \/ NextStep \/ Finish
  BY DEF SolverInv, Between, solverVars, search, ScanApplied, ScanPending, NextStep, Advance, Finish
<1>2. BackEndInv'
  BY <1>1, BackEndKept
<1>3. doing = "nothing"
  <2>1. doing # "nothing" => pc = "scan" /\ i = Len(dynAttacks)
    BY DEF SolverInv
  <2>2. Base
    BY <1>1 DEF SetupInv
  <2>3. dynStep < Len(dynAttacks) /\ dynStep \in Int /\ Len(dynAttacks) \in Nat
    BY <1>1, <2>2 DEF ScanInv, Base, TypeOK
  <2> QED BY <1>1, <2>1, <2>3 DEF ScanApplied, ScanPending, NextStep, Finish
<1>4. pc' # "returned"
  BY <1>1 DEF ScanApplied, ScanPending, NextStep, Advance, Finish
<1>5. AnswersCorrect'
  BY <1>4 DEF AnswersCorrect
<1> QED BY <1>1, <1>2, <1>3, <1>5

\* Every step keeps the invariant.
LEMMA SolverInvPreserved ==
  ASSUME SolverInv, [SolverNext]_allVars
  PROVE  SolverInv'
<1>1. SetupInv' /\ ScanInv'
  BY SetupStep DEF SolverInv
<1>2. ASSUME BackEndInv', AnswersCorrect', doing' = "nothing", stopEnum' \in BOOLEAN
      PROVE  SolverInv'
  BY <1>1, <1>2 DEF SolverInv, SelectorsInv, MssesInv, RangesInv
<1>3. stopEnum \in BOOLEAN
  BY DEF SolverInv
<1>4. CASE Between
  <2>1. stopEnum' = stopEnum
    BY <1>4 DEF Between, solverVars, search
  <2> QED BY <1>2, <1>3, <1>4, <2>1, BetweenRight
<1>5. CASE \/ OneMaximal \/ GroundedDecides \/ CredulousPreferred \/ EndPreferred
           \/ EndIdeal \/ EndRangesStopped \/ EndRanges
  <2>1. doing' = "nothing" /\ stopEnum' = stopEnum
    BY <1>5 DEF OneMaximal, GroundedDecides, CredulousPreferred, EndPreferred, EndIdeal,
                EndRangesStopped, EndRanges, Returns
  <2>2. BackEndInv' /\ AnswersCorrect'
    BY <1>5, OneMaximalRight, GroundedDecidesRight, CredulousPreferredRight,
       EndPreferredRight, EndIdealRight, EndRangesRight
  <2> QED BY <1>2, <1>3, <2>1, <2>2
<1>6. ASSUME BackEndInv', SelectorsInv', MssesInv', RangesInv', stopEnum' \in BOOLEAN,
             doing' \in {"msses", "ranges", "models"}, pc' = "scan", i' = Len(dynAttacks')
      PROVE  SolverInv'
  <2>1. AnswersCorrect'
    BY <1>6 DEF AnswersCorrect
  <2> QED BY <1>1, <1>6, <2>1 DEF SolverInv
<1>7. CASE StartMsses \/ NextMss
  <2>1. /\ UNCHANGED vars /\ doing' = "msses" /\ stopEnum' \in BOOLEAN
        /\ pc = "scan" /\ i = Len(dynAttacks)
    BY <1>7 DEF StartMsses, NextMss, Ready, SolverInv
  <2>2. BackEndInv' /\ MssesInv'
    BY <1>7, StartMssesRight, NextMssRight
  <2>3. SelectorsInv' /\ RangesInv'
    BY <2>1 DEF SelectorsInv, RangesInv
  <2>4. pc' = "scan" /\ i' = Len(dynAttacks')
    BY <2>1 DEF vars, problem
  <2> QED BY <1>6, <2>1, <2>2, <2>3, <2>4
<1>8. CASE SelectRanges \/ StartModels \/ NextModel \/ EndModels
  <2>1. UNCHANGED vars /\ doing' \in {"ranges", "models"} /\ pc = "scan" /\ i = Len(dynAttacks)
    BY <1>8 DEF SelectRanges, MssesOver, StartModels, NextModel, EndModels, SolverInv
  <2>2. BackEndInv' /\ SelectorsInv' /\ RangesInv'
    BY <1>8, SelectRangesRight, StartModelsRight, NextModelRight, EndModelsRight
  <2>3. stopEnum' \in BOOLEAN
    BY <1>3, <1>8 DEF SelectRanges, StartModels, NextModel, EndModels, Stops
  <2>4. MssesInv' /\ pc' = "scan" /\ i' = Len(dynAttacks')
    BY <2>1 DEF MssesInv, vars, problem
  <2> QED BY <1>6, <2>1, <2>2, <2>3, <2>4
<1>9. CASE UNCHANGED allVars
  <2>1. /\ UNCHANGED <<problem, setup>> /\ UNCHANGED <<dynStep, backEnd, search>>
        /\ UNCHANGED <<written, accepted>> /\ pc' = pc /\ i' = i /\ UNCHANGED dynAttacks
        /\ doing' = doing /\ stopEnum' = stopEnum
    BY <1>9 DEF allVars, vars, solverVars, problem, search
  <2>2. AnswersCorrect'
    BY <2>1, AnswersKept DEF SolverInv
  <2>3. BackEndInv' /\ SelectorsInv' /\ MssesInv' /\ RangesInv'
    BY <2>1, StutterRight
  <2> QED BY <1>1, <2>1, <2>2, <2>3 DEF SolverInv
<1> QED BY <1>4, <1>5, <1>7, <1>8, <1>9 DEF SolverNext

\* What the preferred, ideal, semi-stable and stage solvers write for every step is
\* right, for the framework of that step, in every run.
THEOREM AnswersAlwaysCorrect == SolverSpec => []AnswersCorrect
<1>1. SolverInit => SolverInv
  BY StartSolverInv
<1>2. SolverInv /\ [SolverNext]_allVars => SolverInv'
  BY SolverInvPreserved
<1>3. SolverInv => AnswersCorrect
  BY DEF SolverInv
<1> QED BY <1>1, <1>2, <1>3, PTL DEF SolverSpec

\* Before each call the formula means the sets of the step and nothing else, however
\* many clauses and selectors the earlier steps have left in it.
THEOREM FormulaAlwaysExact == SolverSpec => []EncodingExact
<1>1. SolverInit => SolverInv
  BY StartSolverInv
<1>2. SolverInv /\ [SolverNext]_allVars => SolverInv'
  BY SolverInvPreserved
<1>3. SolverInv => EncodingExact
  BY FormulaAtCall DEF SolverInv, EncodingExact, Ready
<1> QED BY <1>1, <1>2, <1>3, PTL DEF SolverSpec

\* Arguments that share a variable are together in every extension of every step.
THEOREM ReductionAlwaysSound == SolverSpec => []ReductionSound
<1>1. SolverInit => SolverInv
  BY StartSolverInv
<1>2. SolverInv /\ [SolverNext]_allVars => SolverInv'
  BY SolverInvPreserved
<1>3. SolverInv => ReductionSound
  BY SharedVariables DEF SolverInv
<1> QED BY <1>1, <1>2, <1>3, PTL DEF SolverSpec
=============================================================================
