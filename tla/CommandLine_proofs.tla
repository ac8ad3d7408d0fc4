------------------------- MODULE CommandLine_proofs -------------------------
(* Proofs about the framework store, for any set of names and any bounds,  *)
(* and about the command line, for any lines.                              *)
EXTENDS CommandLine, WellFoundedInduction, SequenceTheorems, TLAPS

\* The changes are parsed after the whole instance (main).
NoChangeYet == phase = "instance" => dynAttacks = << >>

StoreTypeOK ==
  /\ varOf \in [Arg -> Nat]
  /\ nvars \in Nat
  /\ selfAttacking \subseteq Nat
  /\ nbSelfAttacking \in Nat
  /\ attacks \in [Arg -> Seq(Arg)]
  /\ nbAttacks \in Nat
  /\ nMaxAttacks \in Nat

\* The state recorded for a change is the one of the parsed instance: the
\* attackers list and the earlier records together tell it.
LEMMA WasPresentIsInstance ==
  ASSUME TypeOK, RecordsInstance, StoreComplete,
         NEW from \in Arg, NEW to \in Arg
  PROVE  WasPresent(from, to) <=> <<from, to>> \in instance
<1>1. CASE <<from, to>> \in instance
  <2>1. Listed(from, to)
    BY <1>1 DEF StoreComplete
  <2>2. \A j \in RecordsOf(from, to) : dynAttacks[j].wasPresent
    BY <1>1 DEF RecordsOf, RecordsInstance, Pair
  <2> QED BY <1>1, <2>1, <2>2 DEF WasPresent
<1>2. CASE <<from, to>> \notin instance
  <2>1. \A j \in RecordsOf(from, to) : ~dynAttacks[j].wasPresent
    BY <1>2 DEF RecordsOf, RecordsInstance, Pair
  <2>2. CASE RecordsOf(from, to) = {}
    <3>1. ~Listed(from, to)
      BY <1>2, <2>2 DEF StoreComplete, RecordsOf, Pair
    <3> QED BY <1>2, <3>1 DEF WasPresent
  <2>3. CASE RecordsOf(from, to) # {}
    <3>1. RecordsOf(from, to) \in SUBSET Nat
      BY DEF RecordsOf, TypeOK
    <3>2. PICK m \in RecordsOf(from, to) :
                 \A k \in RecordsOf(from, to) : <<k, m>> \notin OpToRel(<, Nat)
      BY <2>3, <3>1, NatLessThanWellFounded, WFMin, Zenon
    <3>3. ASSUME NEW k \in RecordsOf(from, to) PROVE m <= k
      <4>1. m \in Nat /\ k \in Nat /\ <<k, m>> \notin OpToRel(<, Nat)
        BY <3>1, <3>2
      <4> QED BY <4>1 DEF OpToRel
    <3> QED BY <1>2, <2>1, <3>3 DEF WasPresent
  <2> QED BY <2>2, <2>3
<1> QED BY <1>1, <1>2

----------------------------------------------------------------------------
\* No operation of the store leaves the domain of a variable.
LEMMA TypeStep == TypeOK /\ [Next]_vars => TypeOK'
<1> SUFFICES ASSUME TypeOK, [Next]_vars PROVE TypeOK'
  OBVIOUS
<1> USE DEF TypeOK
<1>1. ASSUME NEW from \in Arg, NEW to \in Arg, AddAttack(from, to)
      PROVE  StoreTypeOK'
  <2> USE DEF StoreTypeOK
  <2>1. attacks[to] \in Seq(Arg) /\ Append(attacks[to], from) \in Seq(Arg)
    OBVIOUS
  <2>2. attacks' \in [Arg -> Seq(Arg)]
    BY <1>1, <2>1 DEF AddAttack
  <2>3. nbAttacks' \in Nat /\ nMaxAttacks' \in Nat
    BY <1>1, <2>1, LenProperties DEF AddAttack
  <2>4. /\ varOf' \in [Arg -> Nat] /\ nvars' \in Nat
        /\ selfAttacking' \subseteq Nat /\ nbSelfAttacking' \in Nat
    <3>1. CASE from = to
      <4>1. SetSelfAttacking(varOf[from])
        BY <1>1, <3>1 DEF AddAttack
      <4>2. varOf[from] \in Nat
        OBVIOUS
      <4>3. nbSelfAttacking' \in Nat /\ varOf' = varOf /\ nvars' = nvars
        BY <4>1 DEF SetSelfAttacking
      <4>4. selfAttacking' \subseteq Nat
        BY <4>1, <4>2 DEF SetSelfAttacking
      <4> QED BY <4>3, <4>4
    <3>2. CASE from # to
      BY <1>1, <3>2 DEF AddAttack, varMap
    <3> QED BY <3>1, <3>2
  <2> QED BY <2>2, <2>3, <2>4
<1>2. ASSUME NEW name \in Arg, ParseArgument(name) PROVE TypeOK'
  BY <1>2 DEF ParseArgument, AddEntry, store
<1>3. ASSUME NEW from \in Arg, NEW to \in Arg, ParseAttack(from, to)
      PROVE  TypeOK'
  <2>1. /\ AddAttack(from, to)
        /\ instance' = instance \cup {<<from, to>>}
        /\ UNCHANGED <<dynAttacks, format, phase>>
    BY <1>3 DEF ParseAttack
  <2> HIDE DEF TypeOK
  <2>2. StoreTypeOK'
    BY <1>1, <2>1
  <2>3. instance' \subseteq Arg \X Arg
    BY <2>1 DEF TypeOK
  <2> QED BY <2>1, <2>2, <2>3 DEF TypeOK, StoreTypeOK
<1>4. CASE EndOfInstance
  BY <1>4 DEF EndOfInstance, varMap, store
<1>5. ASSUME NEW add \in BOOLEAN, NEW from \in Arg, NEW to \in Arg,
             ParseChange(add, from, to)
      PROVE  TypeOK'
  <2>1. WasPresent(from, to) \in BOOLEAN
    BY DEF WasPresent
  <2>2. dynAttacks' \in Seq(Change)
    BY <1>5, <2>1 DEF ParseChange, AddDynAttack, Change
  <2>3. CASE WasPresent(from, to)
    BY <1>5, <2>2, <2>3 DEF ParseChange, AddDynAttack, varMap, store
  <2>4. CASE ~WasPresent(from, to)
    <3>1. AddAttack(from, to) /\ UNCHANGED <<format, phase, instance>>
      BY <1>5, <2>4 DEF ParseChange, AddDynAttack
    <3>2. StoreTypeOK'
      BY <1>1, <3>1
    <3> QED BY <2>2, <3>1, <3>2 DEF StoreTypeOK
  <2> QED BY <2>3, <2>4
<1>6. CASE EndOfDynamics
  BY <1>6 DEF EndOfDynamics, varMap, store
<1>7. CASE Exit
  BY <1>7 DEF Exit, varMap, store
<1>8. CASE UNCHANGED vars
  BY <1>8 DEF vars, varMap, store
<1> QED BY <1>2, <1>3, <1>4, <1>5, <1>6, <1>7, <1>8 DEF Next

\* Every variable keeps its type: no operation of the store leaves its domain,
\* whatever the order of the lines of the two files.
THEOREM TypeCorrect == Spec => []TypeOK
<1>1. Init => TypeOK
  BY DEF Init, TypeOK
<1> QED BY <1>1, TypeStep, PTL DEF Spec

----------------------------------------------------------------------------
\* Adding an attack lists that attack and no other.
LEMMA ListedAfterAddAttack ==
  ASSUME TypeOK, NEW from \in Arg, NEW to \in Arg, AddAttack(from, to),
         NEW x \in Arg, NEW y \in Arg
  PROVE  Listed(x, y)' <=> Listed(x, y) \/ (x = from /\ y = to)
<1>1. attacks[to] \in Seq(Arg)
  BY DEF TypeOK
<1>2. CASE y # to
  <2>1. attacks'[y] = attacks[y]
    BY <1>2 DEF AddAttack, TypeOK
  <2> QED BY <1>2, <2>1 DEF Listed
<1>3. CASE y = to
  <2>1. attacks'[y] = Append(attacks[to], from)
    BY <1>3 DEF AddAttack, TypeOK
  <2>2. /\ DOMAIN Append(attacks[to], from) = 1..(Len(attacks[to]) + 1)
        /\ DOMAIN attacks[to] = 1..Len(attacks[to])
        /\ Len(attacks[to]) \in Nat
        /\ \A k \in 1..Len(attacks[to]) :
              Append(attacks[to], from)[k] = attacks[to][k]
        /\ Append(attacks[to], from)[Len(attacks[to]) + 1] = from
    BY <1>1, AppendProperties, LenProperties
  <2> QED BY <1>3, <2>1, <2>2 DEF Listed
<1> QED BY <1>2, <1>3

\* Recording a change keeps the earlier records and adds its own.
LEMMA PairsAfterAppend ==
  ASSUME TypeOK, NEW r \in Change, dynAttacks' = Append(dynAttacks, r)
  PROVE  /\ DOMAIN dynAttacks' = DOMAIN dynAttacks \cup {Len(dynAttacks) + 1}
         /\ \A j \in DOMAIN dynAttacks : dynAttacks'[j] = dynAttacks[j]
         /\ dynAttacks'[Len(dynAttacks) + 1] = r
<1>1. dynAttacks \in Seq(Change)
  BY DEF TypeOK
<1>2. /\ DOMAIN dynAttacks = 1..Len(dynAttacks) /\ Len(dynAttacks) \in Nat
      /\ DOMAIN dynAttacks' = 1..(Len(dynAttacks) + 1)
  BY <1>1, AppendProperties, LenProperties
<1>3. DOMAIN dynAttacks' = DOMAIN dynAttacks \cup {Len(dynAttacks) + 1}
  BY <1>2
<1> QED BY <1>1, <1>2, <1>3, AppendProperties

StoreInv == TypeOK /\ NoChangeYet /\ RecordsInstance /\ StoreComplete

\* The two facts are inductive only together: the recorded state of a change
\* is right because the list is complete, and the list stays complete because
\* addDynAttack adds the attack whenever the recorded state is "absent".
LEMMA StoreStep == StoreInv /\ [Next]_vars => StoreInv'
<1> SUFFICES ASSUME StoreInv, [Next]_vars
             PROVE  /\ NoChangeYet'
                    /\ RecordsInstance'
                    /\ StoreComplete'
  BY TypeStep DEF StoreInv
<1>0. TypeOK /\ NoChangeYet /\ RecordsInstance /\ StoreComplete
  BY DEF StoreInv
<1>1. ASSUME NEW name \in Arg, ParseArgument(name)
      PROVE  /\ NoChangeYet' /\ RecordsInstance' /\ StoreComplete'
  BY <1>0, <1>1 DEF ParseArgument, store, NoChangeYet, RecordsInstance,
                    StoreComplete, Listed, Pair
<1>2. ASSUME NEW from \in Arg, NEW to \in Arg, ParseAttack(from, to)
      PROVE  /\ NoChangeYet' /\ RecordsInstance' /\ StoreComplete'
  <2>1. /\ phase = "instance" /\ phase' = phase
        /\ AddAttack(from, to)
        /\ instance' = instance \cup {<<from, to>>}
        /\ dynAttacks' = dynAttacks
    BY <1>2 DEF ParseAttack
  <2>2. dynAttacks = << >>
    BY <1>0, <2>1 DEF NoChangeYet
  <2>3. NoChangeYet' /\ RecordsInstance'
    BY <2>1, <2>2 DEF NoChangeYet, RecordsInstance
  <2>4. ASSUME NEW x \in Arg, NEW y \in Arg
        PROVE  Listed(x, y)' <=> \/ <<x, y>> \in instance'
                                 \/ \E j \in DOMAIN dynAttacks' :
                                      Pair(j)' = <<x, y>>
    <3>1. Listed(x, y)' <=> Listed(x, y) \/ (x = from /\ y = to)
      BY <1>0, <2>1, ListedAfterAddAttack
    <3>2. Listed(x, y) <=> <<x, y>> \in instance
      BY <1>0, <2>2 DEF StoreComplete
    <3> QED BY <2>1, <2>2, <3>1, <3>2
  <2>5. StoreComplete'
    BY <2>4 DEF StoreComplete
  <2> QED BY <2>3, <2>5
<1>3. CASE EndOfInstance
  BY <1>0, <1>3 DEF EndOfInstance, store, NoChangeYet, RecordsInstance,
                    StoreComplete, Listed, Pair
<1>4. ASSUME NEW add \in BOOLEAN, NEW from \in Arg, NEW to \in Arg,
             ParseChange(add, from, to)
      PROVE  /\ NoChangeYet' /\ RecordsInstance' /\ StoreComplete'
  <2> DEFINE r == [add |-> add, from |-> from, to |-> to,
                   wasPresent |-> WasPresent(from, to)]
             last == Len(dynAttacks) + 1
  <2>1. /\ phase = "dynamics" /\ phase' = phase /\ instance' = instance
        /\ AddDynAttack(add, from, to)
    BY <1>4 DEF ParseChange
  <2>2. r \in Change
    BY DEF Change, WasPresent
  <2>3. dynAttacks' = Append(dynAttacks, r)
    BY <2>1 DEF AddDynAttack
  <2> HIDE DEF r
  <2>4. /\ DOMAIN dynAttacks' = DOMAIN dynAttacks \cup {last}
        /\ \A j \in DOMAIN dynAttacks : dynAttacks'[j] = dynAttacks[j]
        /\ dynAttacks'[last] = r
    BY <1>0, <2>2, <2>3, PairsAfterAppend
  <2>5. WasPresent(from, to) <=> <<from, to>> \in instance
    BY <1>0, WasPresentIsInstance
  <2>6. \A j \in DOMAIN dynAttacks : Pair(j)' = Pair(j)
    BY <2>4 DEF Pair
  <2>7. /\ dynAttacks'[last].from = from
        /\ dynAttacks'[last].to = to
        /\ dynAttacks'[last].wasPresent = WasPresent(from, to)
    BY <2>4 DEF r
  <2>8. RecordsInstance'
    <3>1. SUFFICES ASSUME NEW j \in DOMAIN dynAttacks'
                   PROVE  dynAttacks'[j].wasPresent <=>
                            <<dynAttacks'[j].from, dynAttacks'[j].to>> \in instance
      BY <2>1 DEF RecordsInstance, Pair
    <3>2. CASE j \in DOMAIN dynAttacks
      BY <1>0, <2>4, <3>2 DEF RecordsInstance, Pair
    <3>3. CASE j = last
      BY <2>5, <2>7, <3>3
    <3> QED BY <2>4, <3>2, <3>3
  <2>9. NoChangeYet'
    BY <2>1 DEF NoChangeYet
  <2>10. ASSUME NEW x \in Arg, NEW y \in Arg
         PROVE  Listed(x, y)' <=> \/ <<x, y>> \in instance'
                                  \/ \E j \in DOMAIN dynAttacks' :
                                       Pair(j)' = <<x, y>>
    <3>1. (\E j \in DOMAIN dynAttacks' : Pair(j)' = <<x, y>>)
            <=> \/ \E j \in DOMAIN dynAttacks : Pair(j) = <<x, y>>
                \/ <<x, y>> = <<from, to>>
      <4>1. ASSUME NEW j \in DOMAIN dynAttacks', Pair(j)' = <<x, y>>
            PROVE  \/ \E k \in DOMAIN dynAttacks : Pair(k) = <<x, y>>
                   \/ <<x, y>> = <<from, to>>
        BY <2>4, <2>7, <4>1 DEF Pair
      <4>2. ASSUME NEW j \in DOMAIN dynAttacks, Pair(j) = <<x, y>>
            PROVE  \E k \in DOMAIN dynAttacks' : Pair(k)' = <<x, y>>
        BY <2>4, <2>6, <4>2
      <4>3. ASSUME <<x, y>> = <<from, to>>
            PROVE  \E k \in DOMAIN dynAttacks' : Pair(k)' = <<x, y>>
        BY <2>4, <2>7, <4>3 DEF Pair
      <4> QED BY <4>1, <4>2, <4>3
    <3>2. Listed(x, y) <=> \/ <<x, y>> \in instance
                           \/ \E j \in DOMAIN dynAttacks : Pair(j) = <<x, y>>
      BY <1>0 DEF StoreComplete
    <3>3. CASE WasPresent(from, to)
      <4>1. Listed(x, y)' <=> Listed(x, y)
        BY <2>1, <3>3 DEF AddDynAttack, store, Listed
      <4> QED BY <2>1, <2>5, <3>1, <3>2, <3>3, <4>1
    <3>4. CASE ~WasPresent(from, to)
      <4>1. AddAttack(from, to)
        BY <2>1, <3>4 DEF AddDynAttack
      <4>2. Listed(x, y)' <=> Listed(x, y) \/ (x = from /\ y = to)
        BY <1>0, <4>1, ListedAfterAddAttack
      <4> QED BY <2>1, <3>1, <3>2, <4>2
    <3> QED BY <3>3, <3>4
  <2>11. StoreComplete'
    BY <2>10 DEF StoreComplete
  <2> QED BY <2>8, <2>9, <2>11
<1>5. CASE EndOfDynamics
  BY <1>0, <1>5 DEF EndOfDynamics, store, NoChangeYet, RecordsInstance,
                    StoreComplete, Listed, Pair
<1>6. CASE Exit
  BY <1>0, <1>6 DEF Exit, store, NoChangeYet, RecordsInstance,
                    StoreComplete, Listed, Pair
<1>7. CASE UNCHANGED vars
  BY <1>0, <1>7 DEF vars, store, NoChangeYet, RecordsInstance,
                    StoreComplete, Listed, Pair
<1> QED BY <1>1, <1>2, <1>3, <1>4, <1>5, <1>6, <1>7 DEF Next

\* The store starts right.
LEMMA StoreInit == Init => StoreInv
BY DEF Init, StoreInv, TypeOK, NoChangeYet, RecordsInstance, StoreComplete,
       Listed, Pair

\* The store is right whatever the order of the lines of the two files.
THEOREM StoreCorrect == Spec => []StoreExact
<1>1. StoreInv => StoreExact
  BY DEF StoreInv, StoreExact
<1> QED BY <1>1, StoreInit, StoreStep, PTL DEF Spec

----------------------------------------------------------------------------
\* Only an entry hands out a variable, the next one.
LEMMA NumberingStep == TypeOK /\ NumberingExact /\ [Next]_vars => NumberingExact'
<1> SUFFICES ASSUME TypeOK, NumberingExact, [Next]_vars
             PROVE  NumberingExact'
  OBVIOUS
<1>1. ASSUME varOf' = varOf, nvars' = nvars PROVE NumberingExact'
  BY <1>1 DEF NumberingExact
<1>2. ASSUME NEW from \in Arg, NEW to \in Arg, AddAttack(from, to)
      PROVE  varOf' = varOf /\ nvars' = nvars
  BY <1>2 DEF AddAttack, SetSelfAttacking, varMap
<1>3. ASSUME NEW name \in Arg, ParseArgument(name) PROVE NumberingExact'
  <2>1. /\ varOf[name] = 0
        /\ nvars' = nvars + 1
        /\ varOf' = [varOf EXCEPT ![name] = nvars + 1]
        /\ nvars \in Nat /\ varOf \in [Arg -> Nat]
    BY <1>3 DEF ParseArgument, AddEntry, TypeOK
  <2>2. varOf'[name] = nvars + 1
    BY <2>1
  <2>3. \A m \in Arg : m # name => varOf'[m] = varOf[m]
    BY <2>1
  <2>4. \A m \in Arg : varOf[m] \in 0..nvars
    BY DEF NumberingExact
  <2>5. \A m \in Arg : varOf'[m] \in 0..nvars'
    BY <2>1, <2>2, <2>3, <2>4
  <2>6. ASSUME NEW v \in 1..nvars' PROVE \E m \in Arg : varOf'[m] = v
    <3>1. CASE v = nvars + 1
      BY <2>2, <3>1
    <3>2. CASE v \in 1..nvars
      <4>1. PICK m \in Arg : varOf[m] = v
        BY <3>2 DEF NumberingExact
      <4>2. m # name
        BY <2>1, <3>2, <4>1
      <4> QED BY <2>3, <4>1, <4>2
    <3> QED BY <2>1, <3>1, <3>2
  <2>7. \A m, n \in Arg : varOf'[m] = varOf'[n] /\ varOf'[m] # 0 => m = n
    BY <2>1, <2>2, <2>3, <2>4 DEF NumberingExact
  <2> QED BY <2>5, <2>6, <2>7 DEF NumberingExact
<1>4. ASSUME NEW from \in Arg, NEW to \in Arg, ParseAttack(from, to)
      PROVE  NumberingExact'
  BY <1>1, <1>2, <1>4 DEF ParseAttack
<1>5. CASE EndOfInstance
  BY <1>1, <1>5 DEF EndOfInstance, varMap
<1>6. ASSUME NEW add \in BOOLEAN, NEW from \in Arg, NEW to \in Arg,
             ParseChange(add, from, to)
      PROVE  NumberingExact'
  <2>1. AddAttack(from, to) \/ UNCHANGED varMap
    BY <1>6 DEF ParseChange, AddDynAttack
  <2> QED BY <1>1, <1>2, <2>1 DEF varMap
<1>7. CASE EndOfDynamics
  BY <1>1, <1>7 DEF EndOfDynamics, varMap
<1>8. CASE Exit
  BY <1>1, <1>8 DEF Exit, varMap
<1>9. CASE UNCHANGED vars
  BY <1>1, <1>9 DEF vars, varMap
<1> QED BY <1>3, <1>4, <1>5, <1>6, <1>7, <1>8, <1>9 DEF Next

\* The variables of the arguments are 1..nvars, one each, whatever the order
\* and the repetitions of the declarations.
THEOREM NumberingCorrect == Spec => []NumberingExact
<1>1. Init => NumberingExact
  BY DEF Init, NumberingExact
<1> QED BY <1>1, NumberingStep, TypeCorrect, PTL DEF Spec
----------------------------------------------------------------------------
(* The command line *)

\* A nonempty set of naturals has a least element.
LEMMA LeastElement ==
  ASSUME NEW S \in SUBSET Nat, S # {}
  PROVE  \E n \in S : \A m \in S : n <= m
<1>1. PICK n \in S : \A m \in S : <<m, n>> \notin OpToRel(<, Nat)
  BY NatLessThanWellFounded, WFMin, Zenon
<1>2. \A m \in S : m \in Nat /\ n \in Nat /\ ~(m < n)
  BY <1>1 DEF OpToRel
<1> QED BY <1>2

\* The function that FlattenSeq is defined by, up to n.
Flattens(f, s, n) ==
  f = [i \in 1..n |-> IF i = 1 THEN s[i] ELSE f[i - 1] \o s[i]]

\* Such a function exists: it can be continued from any n to n + 1.
LEMMA FlatteningExists ==
  ASSUME NEW s, NEW N \in Nat \ {0}
  PROVE  \E f : Flattens(f, s, N)
<1> DEFINE Missing == {n \in Nat \ {0} : ~ \E f : Flattens(f, s, n)}
<1> SUFFICES ASSUME Missing # {} PROVE FALSE
  OBVIOUS
<1>1. Missing \in SUBSET Nat
  OBVIOUS
<1>2. PICK n \in Missing : \A m \in Missing : n <= m
  BY <1>1, LeastElement, Zenon
<1>3. n \in Nat \ {0} /\ ~ \E f : Flattens(f, s, n)
  OBVIOUS
<1>4. CASE n = 1
  <2> DEFINE f == [i \in 1..1 |-> s[1]]
  <2>1. f = [i \in 1..1 |-> IF i = 1 THEN s[i] ELSE f[i - 1] \o s[i]]
    OBVIOUS
  <2>2. Flattens(f, s, n)
    BY <1>4, <2>1 DEF Flattens
  <2> HIDE DEF f
  <2> QED BY <1>3, <2>2
<1>5. CASE n # 1
  <2>1. n - 1 \in Nat \ {0} /\ n - 1 \notin Missing
    BY <1>2, <1>3, <1>5
  <2>2. PICK g : Flattens(g, s, n - 1)
    BY <2>1
  <2> DEFINE f == [i \in 1..n |-> IF i = n THEN g[n - 1] \o s[n] ELSE g[i]]
  <2> HIDE DEF Missing
  <2>3. DOMAIN g = 1..(n - 1)
    BY <2>2 DEF Flattens
  <2>4. \A i \in 1..(n - 1) : g[i] = IF i = 1 THEN s[i] ELSE g[i - 1] \o s[i]
    BY <2>2 DEF Flattens
  <2>5. ASSUME NEW i \in 1..n
        PROVE  f[i] = IF i = 1 THEN s[i] ELSE f[i - 1] \o s[i]
    <3>1. CASE i = n
      <4>1. n \in 1..n /\ n - 1 \in 1..n /\ n - 1 # n
        BY <1>3, <1>5
      <4>2. f[n] = g[n - 1] \o s[n] /\ f[n - 1] = g[n - 1]
        BY <4>1
      <4> HIDE DEF f
      <4> QED BY <1>5, <3>1, <4>2
    <3>2. CASE i # n
      <4>1. i \in 1..(n - 1) /\ (i # 1 => i - 1 \in 1..n /\ i - 1 # n)
        BY <1>3, <3>2
      <4>2. f[i] = g[i] /\ (i # 1 => f[i - 1] = g[i - 1])
        BY <4>1, <3>2
      <4> HIDE DEF f
      <4> QED BY <4>1, <4>2, <2>4
    <3> QED BY <3>1, <3>2
  <2>6. Flattens(f, s, n)
    <3>1. f = [i \in 1..n |-> f[i]]
      OBVIOUS
    <3> HIDE DEF f
    <3>2. f = [i \in 1..n |-> IF i = 1 THEN s[i] ELSE f[i - 1] \o s[i]]
      BY <2>5, <3>1, Zenon
    <3> QED BY <3>2, Zenon DEF Flattens
  <2> HIDE DEF f
  <2> QED BY <1>3, <2>6
<1> QED BY <1>4, <1>5

\* So FlattenSeq is the last value of one.
LEMMA FlattenSeqUnfolds ==
  ASSUME NEW s, Len(s) \in Nat \ {0}
  PROVE  \E f : Flattens(f, s, Len(s)) /\ FlattenSeq(s) = f[Len(s)]
<1> DEFINE f == CHOOSE f : Flattens(f, s, Len(s))
<1>1. Flattens(f, s, Len(s))
  BY FlatteningExists
<1>2. f = CHOOSE g : g = [i \in 1..Len(s) |-> IF i = 1 THEN s[i] ELSE g[i - 1] \o s[i]]
  BY DEF Flattens
<1>3. FlattenSeq(s) = f[Len(s)]
  BY <1>2, Zenon DEF FlattenSeq
<1> QED BY <1>1, <1>3

\* Every beginning of the flattening is a sequence, and a beginning of the
\* later ones.
LEMMA FlattensType ==
  ASSUME NEW W, NEW s \in Seq(Seq(W)), NEW f, Flattens(f, s, Len(s)),
         NEW n \in 1..Len(s)
  PROVE  f[n] \in Seq(W)
<1> DEFINE Wrong == {m \in 1..Len(s) : f[m] \notin Seq(W)}
<1> SUFFICES ASSUME Wrong # {} PROVE FALSE
  OBVIOUS
<1>0. Len(s) \in Nat /\ \A m \in 1..Len(s) : s[m] \in Seq(W)
  BY LenProperties, ElementOfSeq
<1>1. Wrong \in SUBSET Nat
  OBVIOUS
<1>2. PICK m \in Wrong : \A k \in Wrong : m <= k
  BY <1>1, LeastElement, Zenon
<1>3. m \in 1..Len(s) /\ f[m] \notin Seq(W)
  OBVIOUS
<1>4. f[m] = IF m = 1 THEN s[m] ELSE f[m - 1] \o s[m]
  BY <1>3 DEF Flattens
<1>5. m # 1
  BY <1>0, <1>3, <1>4
<1>6. m - 1 \in 1..Len(s) /\ m - 1 \notin Wrong
  BY <1>0, <1>2, <1>3, <1>5
<1>7. f[m - 1] \in Seq(W)
  BY <1>6
<1> HIDE DEF Wrong
<1>8. f[m - 1] \o s[m] \in Seq(W)
  BY <1>0, <1>3, <1>7, ConcatProperties
<1> QED BY <1>3, <1>4, <1>5, <1>8

Grows(f, s, n) ==
  /\ Len(f[n]) = Len(f[n - 1]) + Len(s[n])
  /\ \A i \in 1..Len(f[n - 1]) : f[n][i] = f[n - 1][i]
  /\ \A j \in 1..Len(s[n]) : f[n][Len(f[n - 1]) + j] = s[n][j]

\* Each step appends one sequence to what was there.
LEMMA FlattensGrows ==
  ASSUME NEW W, NEW s \in Seq(Seq(W)), NEW f, Flattens(f, s, Len(s)),
         NEW n \in 1..Len(s), n # 1
  PROVE  Grows(f, s, n)
<1>1. Len(s) \in Nat /\ s[n] \in Seq(W) /\ n - 1 \in 1..Len(s)
  BY LenProperties, ElementOfSeq
<1>2. f[n - 1] \in Seq(W)
  BY <1>1, FlattensType
<1>3. f[n] = f[n - 1] \o s[n]
  BY DEF Flattens
<1> DEFINE g == f[n - 1]  h == s[n]
<1>4. g \in Seq(W) /\ h \in Seq(W)
  BY <1>1, <1>2
<1> HIDE DEF g, h
<1>5. /\ Len(g \o h) = Len(g) + Len(h)
      /\ \A i \in 1 .. Len(g) + Len(h) : (g \o h)[i] =
              IF i <= Len(g) THEN g[i] ELSE h[i - Len(g)]
      /\ Len(g) \in Nat /\ Len(h) \in Nat
  BY <1>4, ConcatProperties, LenProperties
<1>6. /\ \A i \in 1..Len(g) : (g \o h)[i] = g[i]
      /\ \A j \in 1..Len(h) : (g \o h)[Len(g) + j] = h[j]
  BY <1>5
<1> QED BY <1>3, <1>5, <1>6 DEF g, h, Grows

\* So the beginnings stay where they were.
LEMMA FlattensPrefix ==
  ASSUME NEW W, NEW s \in Seq(Seq(W)), NEW f, Flattens(f, s, Len(s)),
         NEW k \in 1..Len(s)
  PROVE  /\ Len(f[k]) <= Len(f[Len(s)])
         /\ \A i \in 1..Len(f[k]) : f[Len(s)][i] = f[k][i]
<1> DEFINE Prefix(n) == /\ Len(f[k]) <= Len(f[n])
                        /\ \A i \in 1..Len(f[k]) : f[n][i] = f[k][i]
           Wrong == {n \in k..Len(s) : ~Prefix(n)}
<1>0. /\ Len(s) \in Nat
      /\ \A n \in 1..Len(s) : Len(s[n]) \in Nat
      /\ \A n \in 1..Len(s) : Len(f[n]) \in Nat
  BY LenProperties, ElementOfSeq, FlattensType
<1> SUFFICES ASSUME Wrong # {} PROVE FALSE
  <2>1. Len(s) \in k..Len(s)
    BY <1>0
  <2> HIDE DEF Prefix
  <2>2. Wrong = {} => Prefix(Len(s))
    BY <2>1
  <2> QED BY <2>2 DEF Prefix
<1>1. Wrong \in SUBSET Nat
  BY <1>0
<1>2. PICK n \in Wrong : \A m \in Wrong : n <= m
  BY <1>1, LeastElement, Zenon
<1>3. n \in k..Len(s) /\ ~Prefix(n)
  OBVIOUS
<1>4. n # k
  BY <1>0, <1>3
<1>5. n - 1 \in k..Len(s) /\ n - 1 \notin Wrong
  BY <1>0, <1>2, <1>3, <1>4
<1>6. /\ Len(f[k]) <= Len(f[n - 1])
      /\ \A i \in 1..Len(f[k]) : f[n - 1][i] = f[k][i]
  BY <1>5
<1> HIDE DEF Wrong, Prefix
<1>7. n \in 1..Len(s) /\ n # 1 /\ n - 1 \in 1..Len(s)
  BY <1>0, <1>3, <1>4
<1>8. /\ Len(f[n]) = Len(f[n - 1]) + Len(s[n])
      /\ \A i \in 1..Len(f[n - 1]) : f[n][i] = f[n - 1][i]
  <2>1. Grows(f, s, n)
    BY <1>7, FlattensGrows
  <2> QED BY <2>1 DEF Grows
<1>9. Len(f[n - 1]) \in Nat /\ Len(f[n]) \in Nat /\ Len(s[n]) \in Nat
  BY <1>0, <1>7
<1>10. Len(f[k]) <= Len(f[n])
  <2>1. \A x, y, z, t \in Nat : x <= y /\ t = y + z => x <= t
    OBVIOUS
  <2>2. Len(f[k]) \in Nat
    BY <1>0
  <2> QED BY <1>6, <1>8, <1>9, <2>1, <2>2, Zenon
<1>11. ASSUME NEW i \in 1..Len(f[k]) PROVE f[n][i] = f[k][i]
  <2>1. i \in 1..Len(f[n - 1]) /\ f[n - 1][i] = f[k][i]
    BY <1>0, <1>6, <1>9
  <2> QED BY <1>8, <2>1
<1> QED BY <1>3, <1>10, <1>11 DEF Prefix

\* off[k] words come from the first k options of the line.
Layout(off) ==
  /\ off \in [0..Len(line) -> Nat]
  /\ off[0] = 0 /\ off[Len(line)] = Len(args)
  /\ \A k \in 1..Len(line) :
       /\ off[k] = off[k - 1] + Len(line[k])
       /\ off[k] <= Len(args)
       /\ \A j \in 1..Len(line[k]) : args[off[k - 1] + j] = line[k][j]

\* Every line has a layout: the arguments are its options, one after the other.
LEMMA LayoutExists ==
  ASSUME line \in Seq(Seq(Words)), args = FlattenSeq(line)
  PROVE  \E off : Layout(off)
<1>1. Len(line) \in Nat
  BY LenProperties
<1>2. CASE Len(line) = 0
  <2>1. args = line
    BY <1>2 DEF FlattenSeq
  <2>2. Layout([k \in 0..Len(line) |-> 0])
    BY <1>2, <2>1 DEF Layout
  <2> QED BY <2>2
<1>3. CASE Len(line) # 0
  <2>1. PICK f : Flattens(f, line, Len(line)) /\ args = f[Len(line)]
    BY <1>1, <1>3, FlattenSeqUnfolds
  <2> DEFINE off == [k \in 0..Len(line) |-> IF k = 0 THEN 0 ELSE Len(f[k])]
  <2>2. \A k \in 1..Len(line) : Len(f[k]) \in Nat
    BY <2>1, FlattensType, LenProperties
  <2>3. off \in [0..Len(line) -> Nat]
    BY <1>1, <2>2
  <2>4. off[0] = 0 /\ off[Len(line)] = Len(args)
    BY <1>1, <1>3, <2>1
  <2>5. ASSUME NEW k \in 1..Len(line)
        PROVE  /\ off[k] = off[k - 1] + Len(line[k])
               /\ off[k] <= Len(args)
               /\ \A j \in 1..Len(line[k]) : args[off[k - 1] + j] = line[k][j]
    <3>1. off[k] = Len(f[k])
      BY <1>1
    <3>2. /\ Len(f[k]) <= Len(args)
          /\ \A i \in 1..Len(f[k]) : args[i] = f[k][i]
      BY <2>1, FlattensPrefix
    <3>3. line[k] \in Seq(Words) /\ Len(line[k]) \in Nat /\ Len(f[k]) \in Nat
      BY <2>2, ElementOfSeq, LenProperties
    <3>4. CASE k = 1
      <4>1. off[k - 1] = 0
        BY <1>1, <3>4
      <4>2. f[k] = line[k]
        BY <2>1, <3>4 DEF Flattens
      <4> HIDE DEF off
      <4> QED BY <3>1, <3>2, <3>3, <4>1, <4>2
    <3>5. CASE k # 1
      <4>1. off[k - 1] = Len(f[k - 1]) /\ Len(f[k - 1]) \in Nat
        BY <1>1, <2>2, <3>5
      <4>2. /\ Len(f[k]) = Len(f[k - 1]) + Len(line[k])
            /\ \A j \in 1..Len(line[k]) : f[k][Len(f[k - 1]) + j] = line[k][j]
        <5>1. Grows(f, line, k)
          BY <2>1, <3>5, FlattensGrows
        <5> QED BY <5>1 DEF Grows
      <4> HIDE DEF off
      <4>3. ASSUME NEW j \in 1..Len(line[k])
            PROVE  args[off[k - 1] + j] = line[k][j]
        <5>1. Len(f[k - 1]) + j \in 1..Len(f[k])
          <6>1. Len(f[k - 1]) \in Nat /\ j \in 1..Len(line[k])
            BY <4>1
          <6>2. Len(f[k]) = Len(f[k - 1]) + Len(line[k])
            BY <4>2
          <6>3. \A x, y, z \in Nat : \A i \in 1..z : y = x + z => x + i \in 1..y
            OBVIOUS
          <6> QED BY <3>3, <6>1, <6>2, <6>3, Zenon
        <5> QED BY <3>2, <4>1, <4>2, <5>1
      <4> QED BY <3>1, <3>2, <4>1, <4>2, <4>3
    <3> QED BY <3>4, <3>5
  <2> HIDE DEF off
  <2>6. Layout(off)
    BY <2>3, <2>4, <2>5 DEF Layout
  <2> QED BY <2>6
<1> QED BY <1>2, <1>3

\* What the arguments read so far say: the last -p and -fo, the first -a.
LastIs(option, k, i) ==
  /\ i \in 1..k /\ line[i][1] = option
  /\ \A j \in 1..k : line[j][1] = option => j <= i

FirstIs(option, k, i) ==
  /\ i \in 1..k /\ line[i][1] = option
  /\ \A j \in 1..k : line[j][1] = option => i <= j

ReadTask(c, k) ==
  \/ /\ c.sem = UndefinedSemantics
     /\ \A i \in 1..k : line[i][1] # Option("p")
  \/ \E i : /\ LastIs(Option("p"), k, i)
            /\ c.taskType = getTaskType(line[i][2])
            /\ c.sem = getSemantics(line[i][2])

ReadFormat(c, k) ==
  \/ /\ c.instanceFormat = Empty
     /\ \A i \in 1..k : line[i][1] # Option("fo")
  \/ \E i : LastIs(Option("fo"), k, i) /\ c.instanceFormat = line[i][2]

ReadArgument(c, k) ==
  IF Option("a") \in DOMAIN c.additionalParams
    THEN \E i : /\ FirstIs(Option("a"), k, i)
                /\ c.additionalParams[Option("a")] = line[i][2]
    ELSE \A i \in 1..k : line[i][1] # Option("a")

Read(c, k) == ReadTask(c, k) /\ ReadFormat(c, k) /\ ReadArgument(c, k)

HelperFields == DOMAIN CommandLineHelper

Named == {Option("p"), Option("fo"), Option("of"), Option("f"), Option("m"),
          Option("log")}

\* Different names make different options.
LEMMA OptionInjective ==
  ASSUME NEW x, NEW y, Option(x) = Option(y)
  PROVE  x = y
<1>1. Option(x)[2] = x /\ Option(y)[2] = y
  BY DEF Option
<1> QED BY <1>1

\* The options that parseCommandLine compares the word with are different, so
\* the order of its tests does not matter.
LEMMA OptionsDiffer ==
  /\ Option("p") \notin {Option("fo"), Option("of"), Option("f"), Option("m"),
                         Option("log"), Option("a")}
  /\ Option("fo") \notin {Option("of"), Option("f"), Option("m"), Option("log"),
                          Option("a")}
  /\ Option("of") \notin {Option("f"), Option("m"), Option("log"), Option("a")}
  /\ Option("f") \notin {Option("m"), Option("log"), Option("a")}
  /\ Option("m") \notin {Option("log"), Option("a")}
  /\ Option("log") # Option("a")
BY OptionInjective

\* No option with a name is a flag.
LEMMA FlagIsNoOption ==
  ASSUME NEW word, IsFlag(word)
  PROVE  word \notin Named \cup {Option("a")} /\ ~IsOption(word)
<1>1. word[2] = ""
  BY DEF IsFlag
<1>2. ~IsOption(word)
  BY <1>1, Zenon DEF IsOption
<1>3. ASSUME NEW name, word = Option(name) PROVE name = ""
  <2>1. Option(name)[2] = name
    BY DEF Option
  <2> QED BY <1>1, <1>3, <2>1
<1>4. word \notin Named \cup {Option("a")}
  BY <1>3 DEF Named
<1> QED BY <1>2, <1>4

\* The fields that the option sets, and the others as they were.
LEMMA StoreEffect ==
  ASSUME NEW o, NEW v, DOMAIN clh = HelperFields,
         clh = [x \in HelperFields |-> clh[x]]
  PROVE  /\ Store(o, v) = [x \in HelperFields |-> Store(o, v)[x]]
         /\ Store(o, v).mustExit = clh.mustExit
         /\ Store(o, v).taskType = IF o = Option("p") THEN getTaskType(v)
                                                      ELSE clh.taskType
         /\ Store(o, v).sem = IF o = Option("p") THEN getSemantics(v) ELSE clh.sem
         /\ Store(o, v).instanceFormat = IF o = Option("fo") THEN v
                                                             ELSE clh.instanceFormat
         /\ Store(o, v).additionalParams =
              IF o \in Named THEN clh.additionalParams
                             ELSE Insert(clh.additionalParams, o, v)
<1> USE DEF HelperFields, CommandLineHelper
<1>1. CASE o = Option("p")
  <2>1. Store(o, v) = [clh EXCEPT !.taskType = getTaskType(v), !.sem = getSemantics(v)]
    BY <1>1, OptionsDiffer DEF Store
  <2>2. o \in Named /\ o # Option("fo")
    BY <1>1, OptionsDiffer DEF Named
  <2> QED BY <1>1, <2>1, <2>2
<1>2. CASE o = Option("fo")
  <2>1. Store(o, v) = [clh EXCEPT !.instanceFormat = v]
    BY <1>2, OptionsDiffer DEF Store
  <2>2. o \in Named /\ o # Option("p")
    BY <1>2, OptionsDiffer DEF Named
  <2> QED BY <1>2, <2>1, <2>2
<1>3. CASE o \in Named \ {Option("p"), Option("fo")}
  <2>1. \/ Store(o, v) = [clh EXCEPT !.outputFormatter = v]
        \/ Store(o, v) = [clh EXCEPT !.instanceFile = v]
        \/ Store(o, v) = [clh EXCEPT !.dynamicsFile = v]
        \/ Store(o, v) = clh
    BY <1>3, OptionsDiffer DEF Store, Named
  <2> QED BY <1>3, <2>1
<1>4. CASE o \notin Named
  <2>1. Store(o, v) = [clh EXCEPT !.additionalParams = Insert(@, o, v)]
    BY <1>4 DEF Store, Named
  <2>2. o # Option("p") /\ o # Option("fo")
    BY <1>4 DEF Named
  <2> QED BY <1>4, <2>1, <2>2
<1> QED BY <1>1, <1>2, <1>3, <1>4

\* One option more is read: it replaces a task and a format, and an argument
\* only if there was none.
LEMMA ReadNext ==
  ASSUME NEW c, NEW d, NEW k \in Nat, Read(c, k), NEW o, NEW v,
         o = line[k + 1][1], o = Option("p") => v = line[k + 1][2],
         o = Option("fo") => v = line[k + 1][2],
         o = Option("a") => v = line[k + 1][2],
         d.taskType = IF o = Option("p") THEN getTaskType(v) ELSE c.taskType,
         d.sem = IF o = Option("p") THEN getSemantics(v) ELSE c.sem,
         d.instanceFormat = IF o = Option("fo") THEN v ELSE c.instanceFormat,
         d.additionalParams = IF o \in Named THEN c.additionalParams
                                             ELSE Insert(c.additionalParams, o, v)
  PROVE  Read(d, k + 1)
<1>0. /\ 1..(k + 1) = (1..k) \cup {k + 1} /\ k + 1 \notin 1..k
      /\ \A i \in 1..k : i <= k + 1 /\ ~(k + 1 <= i)
      /\ k + 1 <= k + 1
  OBVIOUS
<1>1. ReadTask(d, k + 1)
  <2>1. CASE o = Option("p")
    <3>1. LastIs(Option("p"), k + 1, k + 1)
      BY <1>0, <2>1 DEF LastIs
    <3> QED BY <2>1, <3>1 DEF ReadTask
  <2>2. CASE o # Option("p")
    <3>1. \A i : LastIs(Option("p"), k, i) => LastIs(Option("p"), k + 1, i)
      BY <1>0, <2>2 DEF LastIs
    <3>2. ReadTask(c, k)
      BY DEF Read
    <3> QED BY <1>0, <2>2, <3>1, <3>2 DEF ReadTask
  <2> QED BY <2>1, <2>2
<1>2. ReadFormat(d, k + 1)
  <2>1. CASE o = Option("fo")
    <3>1. LastIs(Option("fo"), k + 1, k + 1)
      BY <1>0, <2>1 DEF LastIs
    <3> QED BY <2>1, <3>1 DEF ReadFormat
  <2>2. CASE o # Option("fo")
    <3>1. \A i : LastIs(Option("fo"), k, i) => LastIs(Option("fo"), k + 1, i)
      BY <1>0, <2>2 DEF LastIs
    <3>2. ReadFormat(c, k)
      BY DEF Read
    <3> QED BY <1>0, <2>2, <3>1, <3>2 DEF ReadFormat
  <2> QED BY <2>1, <2>2
<1>3. ReadArgument(d, k + 1)
  <2> DEFINE old == c.additionalParams  new == d.additionalParams  ARG == Option("a")
  <2>1. \A i : FirstIs(ARG, k, i) => FirstIs(ARG, k + 1, i)
    BY <1>0 DEF FirstIs
  <2>2. IF ARG \in DOMAIN old
          THEN \E i : FirstIs(ARG, k, i) /\ old[ARG] = line[i][2]
          ELSE \A i \in 1..k : line[i][1] # ARG
    BY DEF Read, ReadArgument
  <2> HIDE DEF ARG
  <2>3. /\ ARG \in DOMAIN new <=> ARG \in DOMAIN old \/ o = ARG
        /\ ARG \in DOMAIN old => new[ARG] = old[ARG]
        /\ ARG \notin DOMAIN old /\ o = ARG => new[ARG] = v
    <3>1. CASE o \in Named
      <4>1. o # ARG
        BY <3>1, OptionsDiffer DEF Named, ARG
      <4> QED BY <3>1, <4>1
    <3>2. CASE o \notin Named
      <4>1. new = [x \in DOMAIN old \cup {o} |-> IF x \in DOMAIN old THEN old[x] ELSE v]
        BY <3>2 DEF Insert
      <4> HIDE DEF old, new
      <4> QED BY <4>1
    <3> QED BY <3>1, <3>2
  <2> HIDE DEF old, new
  <2>4. CASE ARG \in DOMAIN old
    <3>1. PICK i : FirstIs(ARG, k, i) /\ old[ARG] = line[i][2]
      BY <2>2, <2>4
    <3>2. FirstIs(ARG, k + 1, i) /\ new[ARG] = line[i][2] /\ ARG \in DOMAIN new
      BY <2>1, <2>3, <2>4, <3>1
    <3> QED BY <3>2 DEF ReadArgument, ARG, new
  <2>5. CASE ARG \notin DOMAIN old /\ o = ARG
    <3>1. FirstIs(ARG, k + 1, k + 1)
      BY <1>0, <2>2, <2>5 DEF FirstIs
    <3>2. new[ARG] = line[k + 1][2] /\ ARG \in DOMAIN new
      BY <2>3, <2>5 DEF ARG
    <3> QED BY <3>1, <3>2 DEF ReadArgument, ARG, new
  <2>6. CASE ARG \notin DOMAIN old /\ o # ARG
    <3>1. ARG \notin DOMAIN new /\ \A i \in 1..(k + 1) : line[i][1] # ARG
      BY <1>0, <2>2, <2>3, <2>6
    <3> QED BY <3>1 DEF ReadArgument, ARG, new
  <2> QED BY <2>4, <2>5, <2>6
<1> QED BY <1>1, <1>2, <1>3 DEF Read

\* The loop is at the first word of an option that has been read from the
\* line, and its value is the word after it.
LEMMA NextIsOption ==
  ASSUME line \in Seq(Seq(Words)), Meant(line), NEW off, Layout(off),
         NEW k \in 0..Len(line), next = off[k] + 1
  PROVE  /\ next > Len(args) => k = Len(line)
         /\ next <= Len(args) =>
              /\ k + 1 \in 1..Len(line)
              /\ args[next] = line[k + 1][1]
              /\ next + Len(line[k + 1]) = off[k + 1] + 1
              /\ IsFlag(args[next]) => Len(line[k + 1]) = 1
              /\ IsOption(args[next]) /\ next < Len(args) =>
                   Len(line[k + 1]) = 2 /\ args[next + 1] = line[k + 1][2]
<1>1. Len(line) \in Nat /\ DOMAIN line = 1..Len(line)
  BY LenProperties
<1>2. off[k] \in Nat /\ off[Len(line)] = Len(args) /\ Len(args) \in Nat
  BY <1>1 DEF Layout
<1>3. CASE k = Len(line)
  BY <1>2, <1>3
<1>4. CASE k # Len(line)
  <2>1. k + 1 \in 1..Len(line) /\ (k + 1) - 1 = k
    <3>1. \A n \in Nat : \A m \in 0..n : m # n => m + 1 \in 1..n /\ (m + 1) - 1 = m
      OBVIOUS
    <3> QED BY <1>1, <1>4, <3>1, Zenon
  <2>2. /\ off[k + 1] = off[k] + Len(line[k + 1])
        /\ off[k + 1] <= Len(args)
        /\ \A j \in 1..Len(line[k + 1]) : args[off[k] + j] = line[k + 1][j]
    BY <2>1 DEF Layout
  <2>3. \/ /\ Len(line[k + 1]) = 1
           /\ IsOption(line[k + 1][1]) => k + 1 = Len(line)
        \/ Len(line[k + 1]) = 2 /\ IsOption(line[k + 1][1])
    BY <1>1, <2>1 DEF Meant
  <2>4. args[next] = line[k + 1][1]
    BY <1>2, <2>2, <2>3
  <2>5. next <= Len(args) /\ next + Len(line[k + 1]) = off[k + 1] + 1
    <3>1. Len(line[k + 1]) \in 1..2
      BY <2>3
    <3>3. off[k] + 1 <= Len(args) /\ (off[k] + 1) + Len(line[k + 1]) = off[k + 1] + 1
      <4> DEFINE L == Len(line[k + 1])  A == Len(args)  x == off[k]  y == off[k + 1]
      <4>1. x \in Nat /\ A \in Nat /\ L \in 1..2 /\ y = x + L /\ y <= A
        BY <1>2, <2>2, <3>1
      <4> HIDE DEF L, A, x, y
      <4>2. x + 1 <= A /\ (x + 1) + L = y + 1
        BY <4>1
      <4> QED BY <4>2 DEF L, A, x, y
    <3> QED BY <3>3
  <2>6. ASSUME IsFlag(args[next]) PROVE Len(line[k + 1]) = 1
    BY <2>3, <2>4, <2>6, FlagIsNoOption
  <2>7. ASSUME IsOption(args[next]), next < Len(args)
        PROVE  Len(line[k + 1]) = 2
    <3> SUFFICES ASSUME Len(line[k + 1]) = 1 PROVE FALSE
      BY <2>3
    <3>1. k + 1 = Len(line)
      BY <2>3, <2>4, <2>7
    <3> QED BY <1>2, <2>2, <2>7, <3>1
  <2>8. Len(line[k + 1]) = 2 => args[next + 1] = line[k + 1][2]
    BY <1>2, <2>2
  <2> QED BY <1>2, <2>1, <2>4, <2>5, <2>6, <2>7, <2>8
<1> QED BY <1>3, <1>4

----------------------------------------------------------------------------
\* What main knows at every place: the options it has read, the file it is
\* parsing and the solver it has made.
OptionsRead ==
  /\ line \in Lines
  /\ clh = [x \in HelperFields |-> clh[x]]
  /\ at \in {"options", "parsed", "timeout", "format", "files", "query",
             "compute", "exit"}
  /\ at = "options" =>
       \E off : /\ Layout(off)
                /\ \E k \in 0..Len(line) : next = off[k] + 1 /\ Read(clh, k)
  /\ at \in {"timeout", "format", "files", "query", "compute"} => ~clh.mustExit
  /\ at \notin {"options", "exit"} /\ ~clh.mustExit =>
       /\ Read(clh, Len(line))
       /\ clh.taskType \in {"DC", "DS"} =>
            Param(clh.additionalParams, Option("a")) # Empty

FilesRead ==
  /\ at \in {"options", "parsed", "timeout", "format"} => phase = "instance"
  /\ at \in {"format", "files", "query", "compute"} =>
       clh.instanceFormat = <<format>>
  /\ at \in {"files", "query", "compute"} /\ ~clh.sem.isDynamic =>
       phase # "dynamics" /\ dynAttacks = << >>

ProblemMade ==
  /\ at \in {"query", "compute"} =>
       /\ clh.sem.name # "undefined" /\ clh.taskType # "undefined"
       /\ \E query :
            problem = [getProblemInstance(clh.sem, clh.taskType, clh.additionalParams)
                         EXCEPT !.query = query]
  /\ at = "compute" =>
       /\ problem.query = Param(clh.additionalParams, Option("a"))
       /\ problem.query = Empty \/ Declared(problem.query)

LineInv == StoreInv /\ OptionsRead /\ FilesRead /\ ProblemMade

\* Before the loop nothing has been read.
LEMMA LineInvInit == Init /\ LineInit => LineInv
<1> SUFFICES ASSUME Init, LineInit PROVE LineInv
  OBVIOUS
<1>1. StoreInv
  BY StoreInit
<1>2. line \in Seq(Seq(Words)) /\ Meant(line)
  BY LinesAssumption DEF LineInit
<1>3. PICK off : Layout(off)
  BY <1>2, LayoutExists DEF LineInit
<1>4. 0 \in 0..Len(line) /\ next = off[0] + 1 /\ 1..0 = {}
  BY <1>2, <1>3, LenProperties DEF LineInit, Layout
<1>5. Read(clh, 0)
  BY <1>4 DEF LineInit, CommandLineHelper, Read, ReadTask, ReadFormat, ReadArgument
<1>6. OptionsRead
  BY <1>3, <1>4, <1>5 DEF OptionsRead, LineInit, CommandLineHelper, HelperFields
<1>7. FilesRead /\ ProblemMade
  BY DEF FilesRead, ProblemMade, LineInit, Init
<1> QED BY <1>1, <1>6, <1>7 DEF LineInv

\* An early end of the parser leaves nothing to be known.
LEMMA StopsParsing ==
  ASSUME LineInv, at = "options", at' = "parsed", clh'.mustExit,
         clh' = [x \in HelperFields |-> clh'[x]],
         UNCHANGED <<line, args, next, problem>>, UNCHANGED vars
  PROVE  OptionsRead' /\ FilesRead' /\ ProblemMade'
<1>1. OptionsRead'
  BY DEF LineInv, OptionsRead
<1>2. phase' = "instance"
  BY DEF LineInv, FilesRead, vars
<1>3. FilesRead' /\ ProblemMade'
  BY <1>2 DEF FilesRead, ProblemMade
<1> QED BY <1>1, <1>3

\* An option or a flag is read.
LEMMA OptionRead ==
  ASSUME LineInv, at = "options", NEW off, Layout(off), NEW k \in 0..Len(line),
         k + 1 \in 1..Len(line), next' = off[k + 1] + 1, Read(clh', k + 1),
         clh' = [x \in HelperFields |-> clh'[x]],
         UNCHANGED <<line, args, at, problem>>, UNCHANGED vars
  PROVE  OptionsRead' /\ FilesRead' /\ ProblemMade'
<1>1. Layout(off)'
  BY DEF Layout
<1>2. Read(clh, k + 1)'
  BY DEF Read, ReadTask, ReadFormat, ReadArgument, LastIs, FirstIs
<1>3. k + 1 \in 0..Len(line')
  BY LenProperties, LinesAssumption DEF LineInv, OptionsRead
<1>4. OptionsRead'
  BY <1>1, <1>2, <1>3 DEF LineInv, OptionsRead
<1>5. phase' = "instance"
  BY DEF LineInv, FilesRead, vars
<1>6. FilesRead' /\ ProblemMade'
  BY <1>5 DEF FilesRead, ProblemMade
<1> QED BY <1>4, <1>6

\* Each turn of the loop reads the next option, or ends the parsing.
LEMMA ParseStep ==
  ASSUME LineInv, ParseCommandLine, UNCHANGED vars
  PROVE  OptionsRead' /\ FilesRead' /\ ProblemMade'
<1>1. line \in Seq(Seq(Words)) /\ Meant(line)
  BY LinesAssumption DEF LineInv, OptionsRead
<1>2. clh = [x \in HelperFields |-> clh[x]]
  BY DEF LineInv, OptionsRead
<1>3. at = "options"
  BY DEF ParseCommandLine, NoArgument, Information, OptionWithValue, FlagOption,
         Malformed, EndOfOptions
<1>4. PICK off : /\ Layout(off)
                 /\ \E k \in 0..Len(line) : next = off[k] + 1 /\ Read(clh, k)
  BY <1>3 DEF LineInv, OptionsRead
<1>5. PICK k \in 0..Len(line) : next = off[k] + 1 /\ Read(clh, k)
  BY <1>4
<1>6. /\ next > Len(args) => k = Len(line)
      /\ next <= Len(args) =>
           /\ k + 1 \in 1..Len(line)
           /\ args[next] = line[k + 1][1]
           /\ next + Len(line[k + 1]) = off[k + 1] + 1
           /\ IsFlag(args[next]) => Len(line[k + 1]) = 1
           /\ IsOption(args[next]) /\ next < Len(args) =>
                Len(line[k + 1]) = 2 /\ args[next + 1] = line[k + 1][2]
  BY <1>1, <1>4, <1>5, NextIsOption
<1>7. k \in Nat /\ Len(args) \in Nat /\ next \in Nat
  BY <1>1, <1>4, <1>5, LenProperties DEF Layout
<1>8. CASE NoArgument \/ Information \/ Malformed
  <2>1. /\ at' = "parsed"
        /\ UNCHANGED <<line, args, next, problem>>
        /\ \/ clh' = [clh EXCEPT !.mustExit = TRUE]
           \/ clh' = [clh EXCEPT !.errorOccured = TRUE, !.mustExit = TRUE]
    BY <1>8 DEF NoArgument, Information, Malformed, WellFormed
  <2>2. clh'.mustExit /\ clh' = [x \in HelperFields |-> clh'[x]]
    BY <1>2, <2>1 DEF HelperFields, CommandLineHelper
  <2> QED BY <1>3, <2>1, <2>2, StopsParsing
<1>9. CASE OptionWithValue
  <2>1. /\ next < Len(args) /\ IsOption(args[next])
        /\ clh' = Store(args[next], args[next + 1])
        /\ next' = next + 2
        /\ UNCHANGED <<line, args, at, problem>>
    BY <1>9 DEF OptionWithValue
  <2>2. next <= Len(args)
    BY <1>7, <2>1
  <2>3. /\ k + 1 \in 1..Len(line)
        /\ args[next] = line[k + 1][1]
        /\ args[next + 1] = line[k + 1][2]
        /\ next' = off[k + 1] + 1
    BY <1>6, <2>1, <2>2
  <2> DEFINE o == line[k + 1][1]  v == line[k + 1][2]
  <2>4. clh' = Store(o, v)
    BY <2>1, <2>3
  <2> HIDE DEF o, v
  <2>5. /\ clh' = [x \in HelperFields |-> clh'[x]]
        /\ clh'.taskType = IF o = Option("p") THEN getTaskType(v) ELSE clh.taskType
        /\ clh'.sem = IF o = Option("p") THEN getSemantics(v) ELSE clh.sem
        /\ clh'.instanceFormat = IF o = Option("fo") THEN v ELSE clh.instanceFormat
        /\ clh'.additionalParams =
             IF o \in Named THEN clh.additionalParams
                            ELSE Insert(clh.additionalParams, o, v)
    BY <1>2, <2>4, StoreEffect DEF HelperFields
  <2>6. Read(clh', k + 1)
    BY <1>5, <1>7, <2>5, ReadNext DEF o, v
  <2> QED BY <1>3, <1>4, <2>1, <2>3, <2>5, <2>6, OptionRead
<1>10. CASE FlagOption
  <2>1. /\ next <= Len(args) /\ IsFlag(args[next])
        /\ clh' = [clh EXCEPT !.additionalParams = Insert(@, args[next], FLAG_SET)]
        /\ next' = next + 1
        /\ UNCHANGED <<line, args, at, problem>>
    BY <1>10 DEF FlagOption
  <2>2. /\ k + 1 \in 1..Len(line)
        /\ args[next] = line[k + 1][1]
        /\ next' = off[k + 1] + 1
    BY <1>6, <2>1
  <2> DEFINE o == line[k + 1][1]
  <2>3. IsFlag(o) /\ clh' = [clh EXCEPT !.additionalParams = Insert(@, o, FLAG_SET)]
    BY <2>1, <2>2
  <2>4. o \notin Named \cup {Option("a")}
    BY <2>3, FlagIsNoOption
  <2> HIDE DEF o
  <2>5. o # Option("p") /\ o # Option("fo") /\ o # Option("a")
    BY <2>4 DEF Named
  <2>6. /\ clh' = [x \in HelperFields |-> clh'[x]]
        /\ clh'.taskType = clh.taskType
        /\ clh'.sem = clh.sem
        /\ clh'.instanceFormat = clh.instanceFormat
        /\ clh'.additionalParams = Insert(clh.additionalParams, o, FLAG_SET)
    BY <1>2, <2>3 DEF HelperFields, CommandLineHelper
  <2>7. Read(clh', k + 1)
    BY <1>5, <1>7, <2>4, <2>5, <2>6, ReadNext DEF o
  <2> QED BY <1>3, <1>4, <2>1, <2>2, <2>6, <2>7, OptionRead
<1>11. CASE EndOfOptions
  <2>1. /\ next > Len(args)
        /\ clh' = AcceptanceHasArgument(clh)
        /\ at' = "parsed"
        /\ UNCHANGED <<line, args, next, problem>>
    BY <1>11 DEF EndOfOptions
  <2>2. Read(clh, Len(line))
    BY <1>5, <1>6, <2>1
  <2> DEFINE given == Param(clh.additionalParams, Option("a"))
  <2>3. CASE clh.taskType \in {"DC", "DS"} /\ given = Empty
    <3>1. clh' = [[clh EXCEPT !.additionalParams = Asked(@, Option("a"))]
                    EXCEPT !.errorOccured = TRUE, !.mustExit = TRUE]
      BY <2>1, <2>3 DEF AcceptanceHasArgument, WellFormed
    <3>2. clh'.mustExit /\ clh' = [x \in HelperFields |-> clh'[x]]
      BY <1>2, <3>1 DEF HelperFields, CommandLineHelper
    <3> QED BY <1>3, <2>1, <3>2, StopsParsing
  <2>4. CASE clh.taskType \in {"DC", "DS"} => given # Empty
    <3> DEFINE ARG == Option("a")  old == clh.additionalParams
               new == clh'.additionalParams
    <3>1. /\ clh' = [x \in HelperFields |-> clh'[x]]
          /\ clh'.taskType = clh.taskType
          /\ clh'.sem = clh.sem
          /\ clh'.instanceFormat = clh.instanceFormat
          /\ ARG \in DOMAIN new <=> ARG \in DOMAIN old
          /\ ARG \in DOMAIN old => new[ARG] = old[ARG]
      <4>1. CASE clh.taskType \notin {"DC", "DS"}
        BY <1>2, <2>1, <4>1 DEF AcceptanceHasArgument
      <4>2. CASE clh.taskType \in {"DC", "DS"}
        <5>1. clh' = [clh EXCEPT !.additionalParams = Asked(old, ARG)]
          BY <2>1, <2>4, <4>2 DEF AcceptanceHasArgument, WellFormed
        <5>2. ARG \in DOMAIN old
          BY <2>4, <4>2 DEF Param
        <5> HIDE DEF ARG
        <5>3. /\ clh' = [x \in HelperFields |-> clh'[x]]
              /\ clh'.taskType = clh.taskType
              /\ clh'.sem = clh.sem
              /\ clh'.instanceFormat = clh.instanceFormat
              /\ new = Asked(old, ARG)
          BY <1>2, <5>1 DEF HelperFields, CommandLineHelper
        <5> HIDE DEF old, new
        <5>4. new = [x \in DOMAIN old \cup {ARG} |-> IF x \in DOMAIN old THEN old[x] ELSE Empty]
          BY <5>3 DEF Asked, Insert
        <5> QED BY <5>2, <5>3, <5>4
      <4> QED BY <4>1, <4>2
    <3>2. Read(clh', Len(line))
      <4>1. ReadTask(clh', Len(line)) /\ ReadFormat(clh', Len(line))
        BY <2>2, <3>1 DEF Read, ReadTask, ReadFormat
      <4>2. ReadArgument(clh', Len(line))
        BY <2>2, <3>1 DEF Read, ReadArgument
      <4> QED BY <4>1, <4>2 DEF Read
    <3>3. clh'.taskType \in {"DC", "DS"} => Param(new, ARG) # Empty
      BY <2>4, <3>1 DEF Param
    <3>4. Read(clh, Len(line))'
      BY <2>1, <3>2 DEF Read, ReadTask, ReadFormat, ReadArgument, LastIs, FirstIs
    <3>5. OptionsRead'
      BY <2>1, <3>1, <3>3, <3>4 DEF LineInv, OptionsRead
    <3>6. phase' = "instance"
      BY <1>3 DEF LineInv, FilesRead, vars
    <3>7. FilesRead' /\ ProblemMade'
      BY <2>1, <3>6 DEF FilesRead, ProblemMade
    <3> QED BY <3>5, <3>7
  <2> QED BY <2>3, <2>4
<1> QED BY <1>8, <1>9, <1>10, <1>11 DEF ParseCommandLine

----------------------------------------------------------------------------
Semantic == {"ST", "CO", "GR", "PR", "SST", "STG", "ID"}

\* A solver is a record whatever the name of the semantics.
LEMMA ProblemRecord ==
  ASSUME NEW sem, NEW taskType, NEW params
  PROVE  \E class, backEnd, task :
           getProblemInstance(sem, taskType, params) =
             [class |-> class, backEnd |-> backEnd, task |-> task,
              decorated |-> sem.isDynamic, query |-> Empty]
<1> DEFINE name == sem.name  u == getUndecoratedProblemInstance(name, taskType, params)
<1>1. \E class, backEnd, task : u = Solver(class, backEnd, task)
  <2>1. CASE name \in {"ST", "CO"}
    BY <2>1 DEF getUndecoratedProblemInstance
  <2>2. CASE name = "GR"
    <3>1. u = groundedSolver(taskType, params)
      BY <2>2 DEF getUndecoratedProblemInstance
    <3> QED BY <3>1 DEF groundedSolver
  <2>3. CASE name = "D3"
    BY <2>3 DEF getUndecoratedProblemInstance
  <2>4. CASE name \notin {"ST", "CO", "GR", "D3"}
    BY <2>4 DEF getUndecoratedProblemInstance
  <2> QED BY <2>1, <2>2, <2>3, <2>4
<1> HIDE DEF u
<1>2. PICK class, backEnd, task : u = Solver(class, backEnd, task)
  BY <1>1
<1>3. getProblemInstance(sem, taskType, params) = [u EXCEPT !.decorated = sem.isDynamic]
  BY DEF getProblemInstance, u
<1> QED BY <1>2, <1>3 DEF Solver

\* The class serves the semantics, and the task is the one asked for except
\* for the triathlon.
LEMMA ProblemServes ==
  ASSUME NEW sem, NEW taskType, NEW params
  PROVE  LET it == getProblemInstance(sem, taskType, params)
         IN /\ sem.name = "D3" => it.class = "D3" /\ it.task = "EE"
            /\ sem.name \in Semantic =>
                 it.class \in Served[sem.name] /\ it.task = taskType
<1> DEFINE name == sem.name  u == getUndecoratedProblemInstance(name, taskType, params)
           it == getProblemInstance(sem, taskType, params)
<1>1. it = [u EXCEPT !.decorated = sem.isDynamic]
  BY DEF getProblemInstance
<1>2. CASE name = "D3"
  <2>1. u = Solver("D3", "mss", "EE")
    BY <1>2 DEF getUndecoratedProblemInstance
  <2> HIDE DEF u
  <2>2. it.class = "D3" /\ it.task = "EE"
    BY <1>1, <2>1 DEF Solver
  <2> QED BY <1>2, <2>2 DEF Semantic
<1>3. CASE name \in Semantic
  <2>1. \E class, backEnd : class \in Served[name] /\ u = Solver(class, backEnd, taskType)
    <3>1. CASE name \in {"ST", "CO"}
      <4>1. u = Solver(name, createSatSolver(params), taskType)
        BY <3>1 DEF getUndecoratedProblemInstance
      <4> QED BY <3>1, <4>1 DEF Served
    <3>2. CASE name = "GR"
      <4>1. u = groundedSolver(taskType, params)
        BY <3>2 DEF getUndecoratedProblemInstance
      <4>2. "GR" \in Served[name] /\ "graphBased" \in Served[name]
        BY <3>2 DEF Served
      <4> QED BY <4>1, <4>2 DEF groundedSolver
    <3>3. CASE name \in {"PR", "SST", "STG", "ID"}
      <4>1. u = Solver(name, "mss", taskType)
        BY <3>3 DEF getUndecoratedProblemInstance
      <4> QED BY <3>3, <4>1 DEF Served
    <3> QED BY <1>3, <3>1, <3>2, <3>3 DEF Semantic
  <2> HIDE DEF u
  <2>2. it.class \in Served[name] /\ it.task = taskType
    BY <1>1, <2>1 DEF Solver
  <2>3. name # "D3"
    BY <1>3 DEF Semantic
  <2> QED BY <2>2, <2>3
<1>4. CASE name \notin Semantic \cup {"D3"}
  BY <1>4
<1> QED BY <1>2, <1>3, <1>4

\* What the word of a task that has a solver looks like.
LEMMA TaskWord ==
  ASSUME NEW word, getSemantics(word).name # "undefined",
         getTaskType(word) # "undefined"
  PROVE  /\ word = <<"D3">> => /\ getSemantics(word).name = "D3"
                               /\ ~getSemantics(word).isDynamic
         /\ word # <<"D3">> => /\ getSemantics(word).name = word[2]
                               /\ word[2] \in Semantic
                               /\ getTaskType(word) = word[1]
         /\ getSemantics(word).isDynamic <=> Last(word) = "D"
<1>1. CASE word = <<"D3">>
  <2>1. getSemantics(word) = [name |-> "D3", isDynamic |-> FALSE]
    BY <1>1 DEF getSemantics
  <2>2. Last(word) = "D3"
    BY <1>1 DEF Last
  <2> QED BY <1>1, <2>1, <2>2
<1>2. CASE word # <<"D3">>
  <2> DEFINE isDyn == Len(word) = 3 /\ word[3] = "D"
             known == (Len(word) = 2 \/ isDyn) /\ word[2] \in Semantic
  <2>1. /\ known => getSemantics(word) = [name |-> word[2], isDynamic |-> isDyn]
        /\ ~known => getSemantics(word) = UndefinedSemantics
    BY <1>2 DEF getSemantics, Semantic
  <2>2. known
    BY <2>1 DEF UndefinedSemantics
  <2>3. getTaskType(word) = word[1]
    BY <1>2 DEF getTaskType
  <2>4. isDyn <=> Last(word) = "D"
    BY <2>2 DEF Last, Semantic
  <2> HIDE DEF isDyn
  <2> QED BY <1>2, <2>1, <2>2, <2>3, <2>4
<1> QED BY <1>1, <1>2

\* The place that the invariant knows is the one that the property names.
LEMMA PlacesValue ==
  ASSUME line \in Seq(Seq(Words)), NEW option, NEW i
  PROVE  /\ LastIs(option, Len(line), i) => LastValue(option) = line[i][2]
         /\ FirstIs(option, Len(line), i) => FirstValue(option) = line[i][2]
<1>1. DOMAIN line = 1..Len(line) /\ Len(line) \in Nat
  BY LenProperties
<1>2. ASSUME LastIs(option, Len(line), i) PROVE Max(Places(option)) = i
  <2>1. i \in Places(option) /\ \A j \in Places(option) : j \in Nat /\ j <= i
    BY <1>1, <1>2 DEF LastIs, Places
  <2>2. \A j \in Places(option) : (\A y \in Places(option) : j >= y) => j = i
    BY <2>1
  <2>3. i \in Places(option) /\ \A y \in Places(option) : i >= y
    BY <2>1
  <2> QED BY <2>2, <2>3 DEF Max
<1>3. ASSUME FirstIs(option, Len(line), i) PROVE Min(Places(option)) = i
  <2>1. i \in Places(option) /\ \A j \in Places(option) : j \in Nat /\ i <= j
    BY <1>1, <1>3 DEF FirstIs, Places
  <2>2. \A j \in Places(option) : (\A y \in Places(option) : j =< y) => j = i
    BY <2>1
  <2>3. i \in Places(option) /\ \A y \in Places(option) : i =< y
    BY <2>1
  <2> QED BY <2>2, <2>3 DEF Min
<1> QED BY <1>2, <1>3 DEF LastValue, FirstValue

----------------------------------------------------------------------------
\* The calls of main after the parser of the command line keep what it has read.
LEMMA LineKept ==
  ASSUME LineInv, at \notin {"options", "exit"}, at' \notin {"options", "parsed"},
         at' \in {"timeout", "format", "files", "query", "compute", "exit"},
         at' # "exit" => ~clh.mustExit,
         UNCHANGED <<line, args, next, clh>>
  PROVE  OptionsRead'
<1>1. Read(clh, Len(line)) => Read(clh, Len(line))'
  BY DEF Read, ReadTask, ReadFormat, ReadArgument, LastIs, FirstIs
<1> QED BY <1>1 DEF LineInv, OptionsRead

\* An early exit leaves nothing to be known.
LEMMA StopsMain ==
  ASSUME LineInv, at \notin {"options", "exit"}, at' = "exit",
         UNCHANGED <<line, args, next, clh>>
  PROVE  OptionsRead' /\ FilesRead' /\ ProblemMade'
<1>1. OptionsRead'
  BY LineKept
<1> QED BY <1>1 DEF FilesRead, ProblemMade

\* The parser of the files touches no option, and without a dynamic task it
\* records no change.
LEMMA FileStep ==
  ASSUME LineInv, ParseFiles
  PROVE  OptionsRead' /\ FilesRead' /\ ProblemMade'
<1>1. at = "files" /\ at' = "files" /\ UNCHANGED <<line, args, next, clh, problem>>
  BY DEF ParseFiles, lineVars
<1>2. ~clh.mustExit
  BY <1>1 DEF LineInv, OptionsRead
<1>3. OptionsRead'
  BY <1>1, <1>2, LineKept
<1>4. format' = format
  BY DEF ParseFiles, Next, ParseArgument, ParseAttack, EndOfInstance, ParseChange,
         EndOfDynamics, Exit
<1>5. ASSUME ~clh.sem.isDynamic
      PROVE  phase' # "dynamics" /\ dynAttacks' = << >>
  <2>1. phase # "dynamics" /\ dynAttacks = << >>
    BY <1>1, <1>5 DEF LineInv, FilesRead
  <2>2. phase = "instance" => phase' # "dynamics"
    BY <1>5 DEF ParseFiles
  <2>3. dynAttacks' = dynAttacks /\ (phase' = phase \/ phase = "instance" \/ phase' = "exit")
    BY <2>1 DEF ParseFiles, Next, ParseArgument, ParseAttack, EndOfInstance,
                ParseChange, EndOfDynamics, Exit
  <2> QED BY <2>1, <2>2, <2>3
<1>6. FilesRead'
  BY <1>1, <1>4, <1>5 DEF LineInv, FilesRead
<1>7. ProblemMade'
  BY <1>1 DEF ProblemMade
<1> QED BY <1>3, <1>6, <1>7

\* Every other call of main.
LEMMA MainStep ==
  ASSUME LineInv,
         \/ ExitEarly \/ ManageTimeout \/ ManageInstanceFormat \/ ManageInstanceFile
         \/ UnsupportedTask \/ CreateProblem \/ SetQueryArgument \/ UndefinedArgument
  PROVE  OptionsRead' /\ FilesRead' /\ ProblemMade'
<1>0. at \in {"timeout", "format", "files", "query", "compute"} => ~clh.mustExit
  BY DEF LineInv, OptionsRead
<1>1. CASE ExitEarly \/ UnsupportedTask \/ UndefinedArgument
  <2>1. /\ at \in {"parsed", "timeout", "format", "files", "query"} /\ at' = "exit"
        /\ UNCHANGED <<line, args, next, clh>>
    BY <1>1 DEF ExitEarly, UnsupportedTask, UndefinedArgument, Goes
  <2> QED BY <2>1, StopsMain
<1>2. CASE ManageTimeout
  <2>1. /\ at = "parsed" /\ at' = "timeout" /\ ~clh.mustExit
        /\ UNCHANGED <<line, args, next, clh>> /\ phase' = phase
    BY <1>2 DEF ManageTimeout, Goes, vars
  <2>2. OptionsRead'
    BY <2>1, LineKept
  <2>3. FilesRead' /\ ProblemMade'
    BY <2>1 DEF LineInv, FilesRead, ProblemMade
  <2> QED BY <2>2, <2>3
<1>3. CASE ManageInstanceFormat
  <2>1. /\ at = "timeout" /\ at' = "format" /\ phase' = phase
        /\ clh.instanceFormat \in {<<"apx">>, <<"cnf">>, <<"tgf">>}
        /\ format' = clh.instanceFormat[1]
        /\ UNCHANGED <<line, args, next, clh>>
    BY <1>3 DEF ManageInstanceFormat, Goes
  <2>2. OptionsRead'
    BY <1>0, <2>1, LineKept
  <2>3. clh'.instanceFormat = <<format'>>
    BY <2>1
  <2>4. FilesRead' /\ ProblemMade'
    BY <2>1, <2>3 DEF LineInv, FilesRead, ProblemMade
  <2> QED BY <2>2, <2>4
<1>4. CASE ManageInstanceFile
  <2>1. /\ at = "format" /\ at' = "files" /\ UNCHANGED <<line, args, next, clh>>
        /\ phase' = phase /\ dynAttacks' = dynAttacks /\ format' = format
    BY <1>4 DEF ManageInstanceFile, Goes, vars
  <2>2. OptionsRead'
    BY <1>0, <2>1, LineKept
  <2>3. phase = "instance" /\ dynAttacks = << >> /\ clh.instanceFormat = <<format>>
    BY <2>1 DEF LineInv, FilesRead, StoreInv, NoChangeYet
  <2>4. FilesRead' /\ ProblemMade'
    BY <2>1, <2>3 DEF FilesRead, ProblemMade
  <2> QED BY <2>2, <2>4
<1>5. CASE CreateProblem
  <2> DEFINE it == getProblemInstance(clh.sem, clh.taskType, clh.additionalParams)
  <2>1. /\ at = "files" /\ at' = "query" /\ UNCHANGED <<line, args, next, clh>>
        /\ clh.sem.name # "undefined" /\ clh.taskType # "undefined"
        /\ problem' = it
        /\ phase' = phase /\ dynAttacks' = dynAttacks /\ format' = format
    BY <1>5 DEF CreateProblem, Goes, vars
  <2>2. OptionsRead'
    BY <1>0, <2>1, LineKept
  <2>3. FilesRead'
    BY <2>1 DEF LineInv, FilesRead
  <2>4. it = [it EXCEPT !.query = Empty]
    <3>1. PICK class, backEnd, task :
            it = [class |-> class, backEnd |-> backEnd, task |-> task,
                  decorated |-> clh.sem.isDynamic, query |-> Empty]
      BY ProblemRecord
    <3> HIDE DEF it
    <3> QED BY <3>1
  <2>5. ProblemMade'
    BY <2>1, <2>4 DEF ProblemMade
  <2> QED BY <2>2, <2>3, <2>5
<1>6. CASE SetQueryArgument
  <2> DEFINE it    == getProblemInstance(clh.sem, clh.taskType, clh.additionalParams)
             given == Param(clh.additionalParams, Option("a"))
  <2>1. /\ at = "query" /\ at' = "compute" /\ UNCHANGED <<line, args, next, clh>>
        /\ given = Empty \/ Declared(given)
        /\ problem' = [problem EXCEPT !.query = given]
        /\ phase' = phase /\ dynAttacks' = dynAttacks /\ format' = format
        /\ varOf' = varOf
    BY <1>6 DEF SetQueryArgument, Goes, vars, varMap
  <2>2. OptionsRead'
    BY <1>0, <2>1, LineKept
  <2>3. FilesRead'
    BY <2>1 DEF LineInv, FilesRead
  <2>4. PICK query : problem = [it EXCEPT !.query = query]
    BY <2>1 DEF LineInv, ProblemMade
  <2>5. problem' = [it EXCEPT !.query = given] /\ problem'.query = given
    <3>1. PICK class, backEnd, task :
            it = [class |-> class, backEnd |-> backEnd, task |-> task,
                  decorated |-> clh.sem.isDynamic, query |-> Empty]
      BY ProblemRecord
    <3> HIDE DEF it, given
    <3> QED BY <2>1, <2>4, <3>1
  <2>6. clh.sem.name # "undefined" /\ clh.taskType # "undefined"
    BY <2>1 DEF LineInv, ProblemMade
  <2>7. given = Empty \/ \E name \in Arg : given = <<name>> /\ varOf'[name] # 0
    BY <2>1 DEF Declared
  <2>8. \/ problem'.query = Empty
        \/ \E name \in Arg : problem'.query = <<name>> /\ varOf'[name] # 0
    <3> HIDE DEF given
    <3> QED BY <2>5, <2>7
  <2>9. ProblemMade'
    BY <2>1, <2>5, <2>6, <2>8 DEF ProblemMade, Declared
  <2> QED BY <2>2, <2>3, <2>9
<1> QED BY <1>1, <1>2, <1>3, <1>4, <1>5, <1>6

\* The store is filled as if the parser ran alone, once its format is known.
LEMMA StoreKept ==
  ASSUME LineInv, [LineNext]_allVars
  PROVE  StoreInv'
<1>1. StoreInv
  BY DEF LineInv
<1>2. CASE UNCHANGED vars \/ Next
  BY <1>1, <1>2, StoreStep
<1>3. CASE ManageInstanceFormat
  <2>1. /\ format' \in {"apx", "cnf", "tgf"}
        /\ UNCHANGED <<varMap, store, dynAttacks, phase, instance>>
    BY <1>3 DEF ManageInstanceFormat
  <2>2. TypeOK'
    BY <1>1, <2>1 DEF StoreInv, TypeOK, varMap, store
  <2>3. NoChangeYet' /\ RecordsInstance' /\ StoreComplete'
    BY <1>1, <2>1 DEF StoreInv, store, NoChangeYet, RecordsInstance, StoreComplete,
                      Listed, Pair
  <2> QED BY <2>2, <2>3 DEF StoreInv
<1> QED BY <1>2, <1>3 DEF LineNext, allVars, ExitEarly, ManageTimeout,
           ManageInstanceFile, ParseFiles, UnsupportedTask, CreateProblem,
           SetQueryArgument, UndefinedArgument

\* The invariant is kept by every step of main.
LEMMA LineInvStep == LineInv /\ [LineNext]_allVars => LineInv'
<1> SUFFICES ASSUME LineInv, [LineNext]_allVars PROVE LineInv'
  OBVIOUS
<1>1. StoreInv'
  BY StoreKept
<1>2. CASE UNCHANGED allVars
  <2>1. UNCHANGED <<line, args, next, clh, at, problem>> /\ UNCHANGED vars
    BY <1>2 DEF allVars, lineVars
  <2>2. OptionsRead'
    <3>1. \A off : Layout(off) => Layout(off)'
      BY <2>1 DEF Layout
    <3>2. \A k : Read(clh, k) => Read(clh, k)'
      BY <2>1 DEF Read, ReadTask, ReadFormat, ReadArgument, LastIs, FirstIs
    <3>3. Len(line') = Len(line)
      BY <2>1
    <3> QED BY <2>1, <3>1, <3>2, <3>3 DEF LineInv, OptionsRead
  <2>3. FilesRead' /\ ProblemMade'
    BY <2>1 DEF LineInv, FilesRead, ProblemMade, Declared, vars, varMap
  <2> QED BY <1>1, <2>2, <2>3 DEF LineInv
<1>3. CASE ParseCommandLine /\ UNCHANGED vars
  BY <1>1, <1>3, ParseStep DEF LineInv
<1>4. CASE ParseFiles
  BY <1>1, <1>4, FileStep DEF LineInv
<1>5. CASE \/ ExitEarly \/ ManageTimeout \/ ManageInstanceFormat
           \/ ManageInstanceFile \/ UnsupportedTask \/ CreateProblem
           \/ SetQueryArgument \/ UndefinedArgument
  BY <1>1, <1>5, MainStep DEF LineInv
<1> QED BY <1>2, <1>3, <1>4, <1>5 DEF LineNext

\* What main knows when the computation starts is what was asked for.
LEMMA LineInvImplies == LineInv => ProblemAsAsked
<1> SUFFICES ASSUME LineInv, at = "compute" PROVE ProblemAsAsked
  BY DEF ProblemAsAsked
<1> DEFINE it   == getProblemInstance(clh.sem, clh.taskType, clh.additionalParams)
           task == LastValue(Option("p"))
           ARG  == Option("a")
           given == Param(clh.additionalParams, ARG)
<1>1. line \in Seq(Seq(Words))
  BY LinesAssumption DEF LineInv, OptionsRead
<1>2. /\ Read(clh, Len(line))
      /\ clh.taskType \in {"DC", "DS"} => given # Empty
      /\ clh.instanceFormat = <<format>>
      /\ ~clh.sem.isDynamic => dynAttacks = << >>
      /\ clh.sem.name # "undefined" /\ clh.taskType # "undefined"
      /\ problem.query = given
      /\ problem.query = Empty \/ Declared(problem.query)
  BY DEF LineInv, OptionsRead, FilesRead, ProblemMade
<1>3. clh.taskType = getTaskType(task) /\ clh.sem = getSemantics(task)
  <2>1. clh.sem # UndefinedSemantics
    BY <1>2 DEF UndefinedSemantics
  <2>2. PICK i : /\ LastIs(Option("p"), Len(line), i)
                 /\ clh.taskType = getTaskType(line[i][2])
                 /\ clh.sem = getSemantics(line[i][2])
    BY <1>2, <2>1 DEF Read, ReadTask
  <2> QED BY <1>1, <2>2, PlacesValue
<1> HIDE DEF task
<1>4. /\ task = <<"D3">> => clh.sem.name = "D3" /\ ~clh.sem.isDynamic
      /\ task # <<"D3">> => /\ clh.sem.name = task[2] /\ task[2] \in Semantic
                            /\ clh.taskType = task[1]
      /\ clh.sem.isDynamic <=> Last(task) = "D"
  BY <1>2, <1>3, TaskWord
<1>5. /\ problem.class = it.class /\ problem.task = it.task
      /\ problem.decorated = clh.sem.isDynamic
  <2>1. PICK query : problem = [it EXCEPT !.query = query]
    BY DEF LineInv, ProblemMade
  <2>2. PICK class, backEnd, t :
          it = [class |-> class, backEnd |-> backEnd, task |-> t,
                decorated |-> clh.sem.isDynamic, query |-> Empty]
    BY ProblemRecord
  <2> HIDE DEF it
  <2> QED BY <2>1, <2>2
<1>6. /\ clh.sem.name = "D3" => it.class = "D3" /\ it.task = "EE"
      /\ clh.sem.name \in Semantic =>
           it.class \in Served[clh.sem.name] /\ it.task = clh.taskType
  BY ProblemServes
<1> HIDE DEF it
<1>7. IF task = <<"D3">>
        THEN problem.class = "D3" /\ problem.task = "EE"
        ELSE problem.class \in Served[task[2]] /\ problem.task = task[1]
  BY <1>4, <1>5, <1>6
<1>8. ASSUME problem.task \in {"DC", "DS"}
      PROVE  Declared(problem.query) /\ problem.query = FirstValue(ARG)
  <2>1. clh.taskType \in {"DC", "DS"}
    BY <1>4, <1>5, <1>6, <1>8
  <2>2. given # Empty /\ Declared(problem.query)
    BY <1>2, <2>1
  <2>3. ARG \in DOMAIN clh.additionalParams /\ given = clh.additionalParams[ARG]
    BY <2>2 DEF Param
  <2>4. PICK i : FirstIs(ARG, Len(line), i) /\ clh.additionalParams[ARG] = line[i][2]
    BY <1>2, <2>3 DEF Read, ReadArgument
  <2>5. FirstValue(ARG) = line[i][2]
    BY <1>1, <2>4, PlacesValue
  <2> QED BY <1>2, <2>2, <2>3, <2>4, <2>5
<1>9. <<format>> = LastValue(Option("fo"))
  <2>1. format \in {"apx", "tgf", "cnf"}
    BY DEF LineInv, StoreInv, TypeOK
  <2>2. clh.instanceFormat # Empty
    <3>1. <<format>>[1] # "" /\ Empty[1] = ""
      BY <2>1 DEF Empty
    <3> QED BY <1>2, <3>1
  <2>3. PICK i : LastIs(Option("fo"), Len(line), i) /\ clh.instanceFormat = line[i][2]
    BY <1>2, <2>2 DEF Read, ReadFormat
  <2> QED BY <1>1, <1>2, <2>3, PlacesValue
<1>10. problem.decorated <=> Last(task) = "D"
  BY <1>4, <1>5
<1>11. ASSUME ~problem.decorated, NEW from \in Arg, NEW to \in Arg, Listed(from, to)
       PROVE  <<from, to>> \in instance
  <2>1. dynAttacks = << >>
    BY <1>2, <1>5, <1>11
  <2> QED BY <1>11, <2>1 DEF LineInv, StoreInv, StoreComplete
<1> QED BY <1>7, <1>8, <1>9, <1>10, <1>11 DEF ProblemAsAsked, task

\* Whatever the command line, and whatever the files hold, the solver that
\* starts is the one of the last task, over the format of the last -fo, with
\* the first argument, and steps exactly when there can be changes
\* (parseCommandLine, main and SolverFactory).
THEOREM ProblemAlwaysAsAsked == LineSpec => []ProblemAsAsked
<1> QED BY LineInvInit, LineInvStep, LineInvImplies, PTL DEF LineSpec

\* The store is as right under main as it is alone: no call of main but the
\* parser's touches it, and the parser only does what Attacks allows.
THEOREM StoreCorrectUnderMain == LineSpec => [](StoreExact /\ NumberingExact)
<1>1. Init => NumberingExact
  BY DEF Init, NumberingExact
<1>2. LineInv /\ NumberingExact /\ [LineNext]_allVars => NumberingExact'
  <2> SUFFICES ASSUME LineInv, NumberingExact, [LineNext]_allVars
               PROVE  NumberingExact'
    OBVIOUS
  <2>1. CASE UNCHANGED varMap
    BY <2>1 DEF varMap, NumberingExact
  <2>2. CASE Next
    BY <2>2, NumberingStep DEF LineInv, StoreInv
  <2> QED BY <2>1, <2>2 DEF LineNext, allVars, vars, ExitEarly, ManageTimeout,
             ManageInstanceFormat, ManageInstanceFile, ParseFiles, UnsupportedTask,
             CreateProblem, SetQueryArgument, UndefinedArgument
<1>3. LineInv => StoreExact
  BY DEF LineInv, StoreInv, StoreExact
<1> QED BY <1>1, <1>2, <1>3, LineInvInit, LineInvStep, PTL DEF LineSpec
=============================================================================
