------------------------- MODULE SatSemantics_proofs -------------------------
(* Proofs about the grounded, complete and stable solvers, for any framework  *)
(* and any list of changes: what they write at every step is right.           *)
EXTENDS SatSemantics, Encoding_proofs

----------------------------------------------------------------------------
(* Invariants *)

\* A clause that an enumeration has added earlier: its selector is retired.
Retiring(c, sels) ==
  \E l \in c : -l > NbVarsOf(Helper) /\ -l <= nVars /\ -l \notin Range(sels)

\* The extensions w of an enumeration are different sets of the encoding; each is
\* kept out by its own clause, which the engine has, with its own selector.
Enumerated(w, ms, sels) ==
  /\ w \in Seq(StepSets)
  /\ ms = [k \in 1..Len(w) |-> Coded(w[k])]
  /\ \A j, k \in 1..Len(w) : w[j] = w[k] => j = k
  /\ sels \in [1..Len(w) -> Nat]
  /\ \A k \in 1..Len(w) :
       /\ NbVarsOf(Helper) < sels[k] /\ sels[k] <= nVars
       /\ Selected(BlockingClause(ms[k]), sels[k]) \in Given
  /\ \A c \in Given \ ClausesOf(semantics, Helper) :
       \/ Retiring(c, sels)
       \/ \E k \in 1..Len(w) : BlockingClause(ms[k]) \subseteq c

\* Inside computeAllModels.
EnumerationInv ==
  enumerating =>
    /\ pc = "scan" /\ i = Len(dynAttacks)
    /\ task = "EE" /\ semantics \in {"CO", "ST"}
    /\ Enumerated(written, models, blockingSelectors)

SolverInv ==
  /\ SetupInv
  /\ ScanInv
  /\ BackEndInv
  /\ enumerating \in BOOLEAN
  /\ EnumerationInv
  /\ AnswersCorrect

----------------------------------------------------------------------------
(* The steps, as steps of the task *)

\* Every step is one of the decorator and dynAssumps, or leaves them alone; the
\* problem and its encoding stay.
LEMMA TaskStep ==
  ASSUME [SolverNext]_allVars
  PROVE  [Next]_vars /\ UNCHANGED <<problem, setup>>
<1>1. CASE Between
  BY <1>1 DEF Between, solverVars, Next, ScanApplied, ScanPending, NextStep, Advance, Finish
<1>2. CASE \/ GroundedExtension \/ GroundedMember \/ CredulousComplete \/ OneStable
           \/ CredulousStable \/ SkepticalStable
  <2>1. Call /\ UNCHANGED setup
    BY <1>2 DEF GroundedExtension, GroundedMember, CredulousComplete, OneStable,
                CredulousStable, SkepticalStable, Returns
  <2> QED BY <2>1 DEF Next, Call
<1>3. CASE StartEnumeration \/ EnumerateModel
  BY <1>3 DEF StartEnumeration, EnumerateModel, vars
<1>4. CASE EndEnumeration
  BY <1>4 DEF EndEnumeration, Next, Call
<1>5. CASE UNCHANGED allVars
  BY <1>5 DEF allVars, solverVars, vars
<1> QED BY <1>1, <1>2, <1>3, <1>4, <1>5 DEF SolverNext

\* The solvers change neither the problem nor the map, and the decorator scans as it does alone.
LEMMA SetupStep ==
  ASSUME SetupInv, ScanInv, [SolverNext]_allVars
  PROVE  SetupInv' /\ ScanInv'
<1>1. [Next]_vars /\ UNCHANGED <<problem, setup>>
  BY TaskStep
<1>2. Base /\ Base'
  BY <1>1, BasePreserved DEF SetupInv
<1>3. SetupInv'
  BY <1>1, <1>2, SetupPreserved
<1>4. ScanInv'
  BY <1>1, <1>2, ScanInvPreserved
<1> QED BY <1>3, <1>4

\* What a call relies on.
LEMMA AtCall ==
  ASSUME SetupInv, ScanInv, BackEndInv, Ready \/ (EnumerationInv /\ enumerating = TRUE)
  PROVE  /\ pc = "scan" /\ i = Len(dynAttacks)
         /\ StepFramework(Framework(dynStep + 1))
         /\ \A S \in StepSets : /\ S \in SUBSET Arg /\ Coded(S) \in SUBSET (1..nArgs)
                                /\ \A x \in Arg : varOf[x] \in Coded(S) <=> x \in S
                                /\ Decode(Coded(S)) = S
         /\ ModelsOf(Assumptions) = {Coded(S) : S \in StepSets}
         /\ ModelsOf(Assumptions \cup {varOf[query]}) =
              {Coded(S) : S \in {X \in StepSets : query \in X}}
         /\ ModelsOf(Assumptions \cup {-varOf[query]}) =
              {Coded(S) : S \in {X \in StepSets : query \notin X}}
         /\ semantics \in {"GR", "CO"} => \A P \in Propagations(Assumptions) :
              LET G == Grounded(Arg, Framework(dynStep + 1))
              IN  P = Coded(G) /\ G \in StepSets /\ \A S \in StepSets : G \subseteq S
<1>1. pc = "scan" /\ i = Len(dynAttacks)
  BY DEF Ready, EnumerationInv
<1>2. StepFramework(Framework(dynStep + 1))
  BY <1>1, AssumptionsExact
<1>3. query \in Arg /\ semantics \in Semantics
  BY DEF SetupInv
<1>4. /\ Models(Given, Assumptions, nArgs) = {Coded(S) : S \in StepSets}
      /\ Models(Given, Assumptions \cup {varOf[query]}, nArgs) =
           {Coded(S) : S \in {X \in StepSets : query \in X}}
      /\ Models(Given, Assumptions \cup {-varOf[query]}, nArgs) =
           {Coded(S) : S \in {X \in StepSets : query \notin X}}
  BY <1>1, <1>3, GivenKnows, ArgumentModels, ZenonT(30) DEF StepSets
<1>5. \A S \in StepSets : /\ S \in SUBSET Arg /\ Coded(S) \in SUBSET (1..nArgs)
                          /\ \A x \in Arg : varOf[x] \in Coded(S) <=> x \in S
                          /\ Decode(Coded(S)) = S
  BY <1>2, CodedExact DEF StepSets
<1>6. ASSUME semantics \in {"GR", "CO"}, NEW P \in Propagations(Assumptions)
      PROVE  LET G == Grounded(Arg, Framework(dynStep + 1))
             IN  P = Coded(G) /\ G \in StepSets /\ \A S \in StepSets : G \subseteq S
  BY <1>1, <1>6, PropagationsExact DEF StepSets
<1>7. \A A : ModelsOf(A) = Models(Given, A, nArgs)
  BY DEF ModelsOf
<1> QED BY <1>1, <1>2, <1>4, <1>5, <1>6, <1>7

----------------------------------------------------------------------------
(* The answers that need no enumeration *)

\* The extensions that a call is asked about.
LEMMA StepExtensions ==
  ASSUME SetupInv
  PROVE  /\ semantics = "GR" =>
              ExtensionsAt(dynStep + 1) = {Grounded(Arg, Framework(dynStep + 1))}
         /\ semantics \in {"CO", "ST"} => ExtensionsAt(dynStep + 1) = StepSets
<1>1. CASE semantics = "GR"
  BY <1>1 DEF ExtensionsAt
<1>2. CASE semantics = "CO"
  BY <1>2 DEF ExtensionsAt, StepSets, Encoded
<1>3. CASE semantics = "ST"
  BY <1>3 DEF ExtensionsAt, StepSets, Encoded
<1> QED BY <1>1, <1>2, <1>3

\* The grounded solver writes the grounded extension of the step.
LEMMA GroundedExtensionRight ==
  ASSUME SolverInv, GroundedExtension
  PROVE  BackEndInv' /\ AnswersCorrect'
<1>0. SetupInv /\ ScanInv /\ BackEndInv
  BY DEF SolverInv
<1> DEFINE G == Grounded(Arg, Framework(dynStep + 1))
           E == ExtensionsAt(dynStep + 1)
<1>1. /\ Ready /\ PropagatedAtDecisionLvlZero
      /\ dynStep' = dynStep /\ UNCHANGED <<problem, setup>>
      /\ task \in {"SE", "EE"} /\ semantics \in {"GR", "CO"}
      /\ semantics = "CO" => task = "SE"
      /\ \E P \in Propagations(Assumptions) : Write(<<Decode(P)>>)
  BY DEF GroundedExtension, Returns, Call
<1>2. BackEndInv'
  BY <1>0, <1>1, PropagatedStep
<1>3. PICK P \in Propagations(Assumptions) : written' = <<Decode(P)>>
  BY <1>1 DEF Write
<1>4. P = Coded(G) /\ G \in StepSets
  BY <1>0, <1>1, AtCall
<1>5. Decode(P) = G
  BY <1>0, <1>1, <1>4, AtCall
<1>6. G \in E /\ (semantics = "GR" => E = {G})
  BY <1>0, <1>1, <1>4, StepExtensions
<1> HIDE DEF G, E
<1>7. /\ Len(<<G>>) = 1 /\ <<G>>[1] = G
      /\ Range(<<G>>) = {G} /\ Cardinality({G}) = 1
  BY FS_Singleton DEF Range
<1>8. AnswersCorrect'
  BY <1>0, <1>1, <1>3, <1>5, <1>6, <1>7, AnswerStep DEF E
<1> QED BY <1>2, <1>8

\* The grounded solver accepts the members of the grounded extension of the step.
LEMMA GroundedMemberRight ==
  ASSUME SolverInv, GroundedMember
  PROVE  BackEndInv' /\ AnswersCorrect'
<1>0. SetupInv /\ ScanInv /\ BackEndInv
  BY DEF SolverInv
<1> DEFINE G == Grounded(Arg, Framework(dynStep + 1))
           E == ExtensionsAt(dynStep + 1)
<1>1. /\ Ready /\ PropagatedAtDecisionLvlZero
      /\ dynStep' = dynStep /\ UNCHANGED <<problem, setup>>
      /\ task \in {"DC", "DS"} /\ semantics \in {"GR", "CO"}
      /\ semantics = "CO" => task = "DS"
      /\ \E P \in Propagations(Assumptions) : Accept(varOf[query] \in P)
  BY DEF GroundedMember, Returns, Call
<1>2. BackEndInv'
  BY <1>0, <1>1, PropagatedStep
<1>3. PICK P \in Propagations(Assumptions) : accepted' = (varOf[query] \in P)
  BY <1>1 DEF Accept
<1>4. P = Coded(G) /\ G \in StepSets /\ \A S \in StepSets : G \subseteq S
  BY <1>0, <1>1, AtCall
<1>5. accepted' <=> query \in G
  BY <1>0, <1>1, <1>3, <1>4, AtCall DEF SetupInv
<1>6. G \in E /\ (semantics = "GR" => E = {G}) /\ (semantics = "CO" => E = StepSets)
  BY <1>0, <1>1, <1>4, StepExtensions
<1> HIDE DEF G, E
<1>7. /\ task = "DC" => (accepted' <=> \E S \in E : query \in S)
      /\ accepted' <=> \A S \in E : query \in S
  BY <1>1, <1>4, <1>5, <1>6
<1>8. AnswersCorrect'
  BY <1>0, <1>1, <1>7, AnswerStep DEF E
<1> QED BY <1>2, <1>8

\* The complete solver accepts the argument if an extension of the step has it.
LEMMA CredulousCompleteRight ==
  ASSUME SolverInv, CredulousComplete
  PROVE  BackEndInv' /\ AnswersCorrect'
<1>0. SetupInv /\ ScanInv /\ BackEndInv
  BY DEF SolverInv
<1> DEFINE G == Grounded(Arg, Framework(dynStep + 1))
           E == ExtensionsAt(dynStep + 1)
           credulous == Assumptions \cup {varOf[query]}
<1>1. /\ Ready /\ dynStep' = dynStep /\ UNCHANGED <<problem, setup>>
      /\ task = "DC" /\ semantics = "CO"
  BY DEF CredulousComplete, Returns, Call
<1>2. PICK P \in Propagations(Assumptions) :
        IF varOf[query] \in P THEN PropagatedAtDecisionLvlZero /\ Accept(TRUE)
        ELSE ComputeModel(credulous) /\ Accept(models' # << >>)
  BY DEF CredulousComplete
<1>3. P = Coded(G) /\ G \in StepSets
  BY <1>0, <1>1, AtCall
<1>4. query \in Arg /\ (varOf[query] \in P <=> query \in G)
  BY <1>0, <1>1, <1>3, AtCall DEF SetupInv
<1>5. E = StepSets
  BY <1>0, <1>1, StepExtensions
<1>6. ModelsOf(credulous) = {Coded(S) : S \in {X \in StepSets : query \in X}}
  BY <1>0, <1>1, AtCall
<1> HIDE DEF G, E, credulous
<1>7. BackEndInv' /\ (accepted' <=> \E S \in E : query \in S)
  <2>1. CASE varOf[query] \in P
    <3>1. PropagatedAtDecisionLvlZero /\ accepted' = TRUE
      BY <1>2, <2>1 DEF Accept
    <3>2. BackEndInv'
      BY <1>0, <1>1, <3>1, PropagatedStep
    <3> QED BY <1>3, <1>4, <1>5, <2>1, <3>1, <3>2
  <2>2. CASE varOf[query] \notin P
    <3>1. ComputeModel(credulous) /\ accepted' = (models' # << >>)
      BY <1>2, <2>2 DEF Accept
    <3>2. BackEndInv' /\ (accepted' <=> ModelsOf(credulous) # {})
      BY <1>0, <1>1, <3>1, ComputeModelStep
    <3> QED BY <1>5, <1>6, <3>2
  <2> QED BY <2>1, <2>2
<1>8. AnswersCorrect'
  BY <1>0, <1>1, <1>7, AnswerStep DEF E
<1> QED BY <1>7, <1>8

\* The stable solver writes a stable extension of the step, if there is one.
LEMMA OneStableRight ==
  ASSUME SolverInv, OneStable
  PROVE  BackEndInv' /\ AnswersCorrect'
<1>0. SetupInv /\ ScanInv /\ BackEndInv
  BY DEF SolverInv
<1> DEFINE E == ExtensionsAt(dynStep + 1)
<1>1. /\ Ready /\ ComputeModel(Assumptions)
      /\ dynStep' = dynStep /\ UNCHANGED <<problem, setup>>
      /\ task = "SE" /\ semantics = "ST"
      /\ written' = [k \in DOMAIN models' |-> Decode(models'[k])]
  BY DEF OneStable, Returns, Call, Write
<1>2. E = StepSets /\ ModelsOf(Assumptions) = {Coded(S) : S \in StepSets}
  BY <1>0, <1>1, AtCall, StepExtensions
<1> HIDE DEF E
<1>3. /\ BackEndInv'
      /\ ModelsOf(Assumptions) = {} => models' = << >>
      /\ ModelsOf(Assumptions) # {} => \E T \in ModelsOf(Assumptions) : models' = <<T>>
  BY <1>0, <1>1, ComputeModelStep
<1>4. Decode(models[1])' = Decode(models'[1])
  BY <1>1 DEF Decode, setup
<1>5. IF E = {} THEN written' = << >> ELSE Len(written') = 1 /\ written'[1] \in E
  <2>1. CASE E = {}
    BY <1>1, <1>2, <1>3, <2>1
  <2>2. CASE E # {}
    <3>1. PICK S \in StepSets : models' = <<Coded(S)>>
      BY <1>2, <1>3, <2>2
    <3>2. Decode(Coded(S)) = S
      BY <1>0, <1>1, AtCall
    <3>3. written' = <<S>>
      BY <1>1, <3>1, <3>2
    <3> QED BY <1>2, <2>2, <3>3
  <2> QED BY <2>1, <2>2
<1>6. AnswersCorrect'
  BY <1>0, <1>1, <1>5, AnswerStep DEF E
<1> QED BY <1>3, <1>6

\* The stable solver accepts what the stable extensions of the step say.
LEMMA StableDecisionsRight ==
  ASSUME SolverInv, CredulousStable \/ SkepticalStable
  PROVE  BackEndInv' /\ AnswersCorrect'
<1>0. SetupInv /\ ScanInv /\ BackEndInv
  BY DEF SolverInv
<1> DEFINE E == ExtensionsAt(dynStep + 1)
           credulous == Assumptions \cup {varOf[query]}
           sceptical == Assumptions \cup {-varOf[query]}
<1>1. /\ Ready /\ dynStep' = dynStep /\ UNCHANGED <<problem, setup>>
      /\ semantics = "ST"
      /\ \/ task = "DC" /\ ComputeModel(credulous) /\ accepted' = (models' # << >>)
         \/ task = "DS" /\ ComputeModel(sceptical) /\ accepted' = (models' = << >>)
  BY DEF CredulousStable, SkepticalStable, Returns, Call, Accept
<1>2. /\ E = StepSets
      /\ ModelsOf(credulous) = {Coded(S) : S \in {X \in StepSets : query \in X}}
      /\ ModelsOf(sceptical) = {Coded(S) : S \in {X \in StepSets : query \notin X}}
  BY <1>0, <1>1, AtCall, StepExtensions
<1> HIDE DEF E, credulous, sceptical
<1>3. /\ BackEndInv'
      /\ task = "DC" => (accepted' <=> ModelsOf(credulous) # {})
      /\ task = "DS" => (accepted' <=> ModelsOf(sceptical) = {})
  BY <1>0, <1>1, ComputeModelStep
<1>4. /\ task = "DC" => (accepted' <=> \E S \in E : query \in S)
      /\ task = "DS" => (accepted' <=> \A S \in E : query \in S)
  BY <1>2, <1>3
<1>5. AnswersCorrect'
  BY <1>0, <1>1, <1>4, AnswerStep DEF E
<1> QED BY <1>3, <1>5

----------------------------------------------------------------------------
(* computeAllModels *)

\* No stable extension is part of another: the arguments it leaves out, it attacks.
LEMMA StableIncomparable ==
  ASSUME NEW A, NEW R, NEW S \in Stable(A, R), NEW T \in Stable(A, R), S \subseteq T
  PROVE  S = T
<1>1. ASSUME NEW x \in T, x \notin S PROVE FALSE
  <2>1. x \in A \ S
    BY <1>1 DEF Stable
  <2>2. PICK y \in S : <<y, x>> \in R
    BY <2>1 DEF Stable, Attacked
  <2> QED BY <1>1, <2>2 DEF Stable, ConflictFree
<1> QED BY <1>1

\* A blocking clause keeps out the set it is made for, and no other: the stable
\* solver may leave the rejected arguments out of it.
LEMMA BlocksOne ==
  ASSUME SetupInv, semantics \in {"CO", "ST"}, NEW R, StepFramework(R),
         NEW S \in Encoded(semantics, R), NEW X \in Encoded(semantics, R)
  PROVE  (\E l \in BlockingClause(Coded(S)) : IsTrue(Reading(semantics, Helper, R, X), l))
           <=> X # S
<1> DEFINE reads(l) == IsTrue(Reading(semantics, Helper, R, X), l)
<1>1. /\ Coded(S) \subseteq 1..nArgs /\ Coded(X) \subseteq 1..nArgs
      /\ \A v \in 1..nArgs : (reads(v) <=> v \in Coded(X)) /\ (reads(-v) <=> v \notin Coded(X))
      /\ S \subseteq Arg /\ X \subseteq Arg
      /\ \A x \in Arg : (varOf[x] \in Coded(S) <=> x \in S) /\ (varOf[x] \in Coded(X) <=> x \in X)
  BY CodedExact
<1>2. (\E v \in Coded(S) : v \notin Coded(X)) <=> ~(S \subseteq X)
  BY <1>1 DEF Coded
<1>3. (\E v \in (1..nArgs) \ Coded(S) : v \in Coded(X)) <=> ~(X \subseteq S)
  BY <1>1 DEF Coded
<1> HIDE DEF reads
<1>4. (\E l \in Neg(Coded(S)) : reads(l)) <=> ~(S \subseteq X)
  BY <1>1, <1>2 DEF Neg
<1>5. (\E l \in (1..nArgs) \ Coded(S) : reads(l)) <=> ~(X \subseteq S)
  BY <1>1, <1>3
<1>6. CASE semantics = "ST"
  <2>1. S \subseteq X => S = X
    BY <1>6, StableIncomparable DEF Encoded
  <2>2. BlockingClause(Coded(S)) = Neg(Coded(S))
    BY <1>6 DEF BlockingClause
  <2> QED BY <1>4, <2>1, <2>2 DEF reads
<1>7. CASE semantics = "CO"
  <2>1. BlockingClause(Coded(S)) = Neg(Coded(S)) \cup ((1..nArgs) \ Coded(S))
    BY <1>7 DEF BlockingClause
  <2>2. (\E l \in BlockingClause(Coded(S)) : reads(l)) <=> ~(S \subseteq X) \/ ~(X \subseteq S)
    BY <1>4, <1>5, <2>1
  <2> QED BY <2>2 DEF reads
<1> QED BY <1>6, <1>7

\* The models that remain are the sets that have not been written.
LEMMA RemainingExact ==
  ASSUME SolverInv, enumerating = TRUE
  PROVE  Remaining = {Coded(S) : S \in StepSets \ Range(written)}
<1>0. /\ SetupInv /\ ScanInv /\ BackEndInv
      /\ pc = "scan" /\ i = Len(dynAttacks)
      /\ semantics \in {"CO", "ST"}
      /\ written \in Seq(StepSets)
      /\ models = [k \in 1..Len(written) |-> Coded(written[k])]
      /\ blockingSelectors \in [1..Len(written) -> Nat]
      /\ \A k \in 1..Len(written) :
           /\ NbVarsOf(Helper) < blockingSelectors[k] /\ blockingSelectors[k] <= nVars
           /\ Selected(BlockingClause(models[k]), blockingSelectors[k]) \in Given
      /\ \A c \in Given \ ClausesOf(semantics, Helper) :
           \/ Retiring(c, blockingSelectors)
           \/ \E k \in 1..Len(written) : BlockingClause(models[k]) \subseteq c
  BY DEF SolverInv, EnumerationInv, Enumerated
<1> DEFINE R == Framework(dynStep + 1)
           Z == Range(blockingSelectors)
           K == {BlockingClause(models[k]) : k \in 1..Len(written)}
           none == {}
<1>1. StepFramework(R)
  BY <1>0, AssumptionsExact
<1>2. \A k \in 1..Len(written) : written[k] \in StepSets
  BY <1>0, ElementOfSeq
<1>3. \A k \in 1..Len(written) : models[k] \in SUBSET (1..nArgs)
  BY <1>0, <1>1, <1>2, CodedExact DEF StepSets
<1>4. K \subseteq SUBSET Readable(Helper)
  BY <1>0, <1>3, BlockingClauseReadable
<1>5. /\ Z \subseteq Nat /\ \A v \in Z : v > NbVarsOf(Helper) /\ v \in Literal
      /\ \A v \in Z : IsTrue(Z, v)
  <2>1. NbVarsOf(Helper) \in Nat
    BY <1>0, ArgumentLiteralsReadable
  <2>2. Z = {blockingSelectors[k] : k \in 1..Len(written)}
    BY <1>0 DEF Range
  <2>3. \A v \in Z : v \in Nat /\ v > NbVarsOf(Helper)
    BY <1>0, <2>1, <2>2
  <2> HIDE DEF Z
  <2> QED BY <2>1, <2>3 DEF Literal, IsTrue
<1>6. Question(semantics, Helper, Given, Z, K, Z, none)
  <2>1. Clausal(Given) /\ ClausesOf(semantics, Helper) \subseteq Given
    BY <1>0, GivenKnows, ClausalSubset DEF BackEndInv
  <2>2. ASSUME NEW c \in Given \ ClausesOf(semantics, Helper)
        PROVE  \/ \E l \in c : (l > NbVarsOf(Helper) \/ -l > NbVarsOf(Helper)) /\ IsTrue(Z, l)
               \/ \E d \in K : d \subseteq c
    <3>1. CASE Retiring(c, blockingSelectors)
      <4>1. PICK l \in c : -l > NbVarsOf(Helper) /\ -l \notin Z
        BY <3>1 DEF Retiring
      <4>2. l \in Int /\ NbVarsOf(Helper) \in Nat
        BY <1>0, <2>1, ArgumentLiteralsReadable DEF Clausal, Literal
      <4> HIDE DEF Z
      <4> QED BY <4>1, <4>2 DEF IsTrue
    <3>2. CASE \E k \in 1..Len(written) : BlockingClause(models[k]) \subseteq c
      BY <3>2
    <3> QED BY <1>0, <3>1, <3>2
  <2>3. \A d \in K : \E c \in Given : c \subseteq d \cup Neg(Z)
    <3>1. ASSUME NEW k \in 1..Len(written)
          PROVE  Selected(BlockingClause(models[k]), blockingSelectors[k])
                   \subseteq BlockingClause(models[k]) \cup Neg(Z)
      BY <1>0 DEF Selected, Neg, Range
    <3> QED BY <1>0, <3>1
  <2>4. none \subseteq Readable(Helper)
    OBVIOUS
  <2> HIDE DEF Z, K, none
  <2> QED BY <1>4, <1>5, <2>1, <2>2, <2>3, <2>4 DEF Question
<1>7. ModelsOf(Assumptions \cup Z \cup none) = Readings(semantics, Helper, R, K, none, nArgs)
  <2>1. nArgs \in 0..Helper.base
    BY <1>0, ArgumentLiteralsReadable
  <2>2. R = Framework(dynStep + 1)
    OBVIOUS
  <2> HIDE DEF Z, K, R, none
  <2> QED BY <1>0, <1>6, <2>1, <2>2, StepModels DEF ModelsOf
<1>8. ASSUME NEW X \in StepSets
      PROVE  /\ Satisfies(Reading(semantics, Helper, R, X), K) <=> X \notin Range(written)
             /\ Agrees(Reading(semantics, Helper, R, X), none)
             /\ Reading(semantics, Helper, R, X) \cap (1..nArgs) = Coded(X)
  <2>1. \A k \in 1..Len(written) :
          (\E l \in BlockingClause(models[k]) : IsTrue(Reading(semantics, Helper, R, X), l))
            <=> X # written[k]
    BY <1>0, <1>1, <1>2, BlocksOne DEF StepSets
  <2>2. Range(written) = {written[k] : k \in 1..Len(written)}
    BY <1>0, LenProperties DEF Range
  <2>3. Satisfies(Reading(semantics, Helper, R, X), K) <=>
          \A k \in 1..Len(written) : X # written[k]
    BY <2>1 DEF Satisfies
  <2>4. Reading(semantics, Helper, R, X) \cap (1..nArgs) = Coded(X)
    BY <1>0, <1>1, CodedExact DEF StepSets
  <2> QED BY <2>2, <2>3, <2>4 DEF Agrees
<1>9. Readings(semantics, Helper, R, K, none, nArgs) = {Coded(S) : S \in StepSets \ Range(written)}
  <2> DEFINE allowed == {X \in StepSets : /\ Satisfies(Reading(semantics, Helper, R, X), K)
                                          /\ Agrees(Reading(semantics, Helper, R, X), none)}
             left == StepSets \ Range(written)
  <2>1. allowed = left
    BY <1>8
  <2>2. Readings(semantics, Helper, R, K, none, nArgs) =
          {Reading(semantics, Helper, R, S) \cap (1..nArgs) : S \in allowed}
    BY DEF Readings, StepSets
  <2>3. \A X \in left : Reading(semantics, Helper, R, X) \cap (1..nArgs) = Coded(X)
    BY <1>8
  <2> HIDE DEF allowed, left
  <2> QED BY <2>1, <2>2, <2>3 DEF left
<1>10. Assumptions \cup Z \cup none = Assumptions \cup Z
  OBVIOUS
<1> HIDE DEF K, none, R
<1> QED BY <1>7, <1>9, <1>10 DEF Remaining

\* A round of the enumeration adds the set S.
LEMMA EnumerationGrows ==
  ASSUME SetupInv, ScanInv, BackEndInv, UNCHANGED <<vars, setup>>,
         pc = "scan", i = Len(dynAttacks),
         NEW w, NEW ms, NEW sels, Enumerated(w, ms, sels),
         NEW S \in StepSets, S \notin Range(w),
         BlockedModel(Coded(S), ms, sels), written' = Append(w, S)
  PROVE  BackEndInv' /\ Enumerated(written, models, blockingSelectors)'
<1> DEFINE n == Len(w)
           N == NbVarsOf(Helper)
           C == ClausesOf(semantics, Helper)
           new == Selected(BlockingClause(Coded(S)), nVars + 1)
<1>1. UNCHANGED <<problem, setup>> /\ dynStep' = dynStep
  BY DEF vars
<1>2. \A X \in StepSets : Coded(X) \in SUBSET (1..nArgs)
  BY AssumptionsExact, CodedExact DEF StepSets
<1>3. /\ BuildSolver /\ newFormula' = {new} /\ nVars' = nVars + 1
      /\ models' = Append(ms, Coded(S)) /\ blockingSelectors' = Append(sels, nVars + 1)
  BY DEF BlockedModel
<1>4. BackEndInv'
  BY <1>1, <1>2, BlockedModelStep
<1>5. /\ w \in Seq(StepSets) /\ n \in Nat
      /\ ms = [k \in 1..n |-> Coded(w[k])]
      /\ \A j, k \in 1..n : w[j] = w[k] => j = k
      /\ sels \in [1..n -> Nat]
      /\ \A k \in 1..n : /\ N < sels[k] /\ sels[k] <= nVars
                         /\ Selected(BlockingClause(ms[k]), sels[k]) \in Given
      /\ \A c \in Given \ C : \/ Retiring(c, sels)
                              \/ \E k \in 1..n : BlockingClause(ms[k]) \subseteq c
      /\ \A k \in 1..n : w[k] \in StepSets
      /\ Range(w) = {w[k] : k \in 1..n}
  BY LenProperties, ElementOfSeq DEF Enumerated, Range
<1>6. nVars \in Nat /\ N \in Nat /\ N <= nVars
  BY ArgumentLiteralsReadable DEF BackEndInv
<1>7. /\ ms \in Seq(SUBSET (1..nArgs)) /\ Len(ms) = n
      /\ sels \in Seq(Nat) /\ Len(sels) = n
  <2>1. ms \in [1..n -> SUBSET (1..nArgs)]
    BY <1>2, <1>5
  <2>2. ASSUME NEW X, NEW m \in Nat, NEW f \in [1..m -> X]
        PROVE  f \in Seq(X) /\ Len(f) = m
    OBVIOUS
  <2> HIDE DEF n
  <2> QED BY <1>5, <2>1, <2>2
<1>8. /\ written' \in Seq(StepSets) /\ Len(written') = n + 1
      /\ \A k \in 1..n : written'[k] = w[k]
      /\ written'[n + 1] = S
  BY <1>5, AppendProperties
<1>9. /\ models' \in Seq(SUBSET (1..nArgs)) /\ Len(models') = n + 1
      /\ \A k \in 1..n : models'[k] = ms[k]
      /\ models'[n + 1] = Coded(S)
  BY <1>2, <1>3, <1>7, AppendProperties
<1>10. /\ blockingSelectors' \in Seq(Nat) /\ Len(blockingSelectors') = n + 1
       /\ \A k \in 1..n : blockingSelectors'[k] = sels[k]
       /\ blockingSelectors'[n + 1] = nVars + 1
  <2>1. nVars + 1 \in Nat
    BY <1>6
  <2> QED BY <1>3, <1>7, <2>1, AppendProperties
<1>11. /\ Helper' = Helper /\ semantics' = semantics
       /\ StepSets' = StepSets
       /\ \A X : Coded(X)' = Coded(X)
       /\ \A T : BlockingClause(T)' = BlockingClause(T)
       /\ (ClausesOf(semantics, Helper))' = C /\ (NbVarsOf(Helper))' = N
  <2>1. Helper' = Helper /\ semantics' = semantics /\ varOf' = varOf /\ nArgs' = nArgs
    BY DEF setup, Helper
  <2>2. Framework(dynStep + 1)' = Framework(dynStep + 1)
    BY <1>1, ExtensionsFixed
  <2> QED BY <1>1, <2>1, <2>2, ClausesFixed DEF StepSets, Coded, BlockingClause
<1>12. Given' = Given \cup {new}
  BY <1>3 DEF BuildSolver, Given
<1>13. \A k \in 1..(n + 1) : k \in 1..n \/ k = n + 1
  BY <1>5
<1>14. 1..n \subseteq 1..(n + 1) /\ n + 1 \in 1..(n + 1)
  BY <1>5
<1>15. DOMAIN models' = 1..(n + 1) /\ DOMAIN blockingSelectors' = 1..(n + 1)
       /\ models' = [k \in 1..(n + 1) |-> models'[k]]
       /\ blockingSelectors' \in [1..(n + 1) -> Nat]
  <2>1. models' \in [1..(n + 1) -> SUBSET (1..nArgs)]
    BY <1>9, LenProperties
  <2>2. blockingSelectors' \in [1..(n + 1) -> Nat]
    BY <1>10, LenProperties
  <2> QED BY <2>1, <2>2
<1> HIDE DEF n, N, C, new
<1>16. models' = [k \in 1..(n + 1) |-> Coded(written'[k])]
  <2>1. \A k \in 1..(n + 1) : models'[k] = Coded(written'[k])
    BY <1>5, <1>8, <1>9, <1>13
  <2> QED BY <1>15, <2>1
<1>17. \A j, k \in 1..(n + 1) : written'[j] = written'[k] => j = k
  BY <1>5, <1>8, <1>13
<1>18. ASSUME NEW k \in 1..(n + 1)
       PROVE  /\ N < blockingSelectors'[k] /\ blockingSelectors'[k] <= nVars'
              /\ Selected(BlockingClause(models'[k]), blockingSelectors'[k]) \in Given'
  <2>1. CASE k \in 1..n
    <3>1. sels[k] \in Nat /\ N < sels[k] /\ sels[k] <= nVars
      BY <1>5, <2>1
    <3> QED BY <1>3, <1>5, <1>6, <1>9, <1>10, <1>12, <2>1, <3>1
  <2>2. CASE k = n + 1
    BY <1>3, <1>6, <1>9, <1>10, <1>12, <2>2 DEF new
  <2> QED BY <1>13, <2>1, <2>2
<1>19. ASSUME NEW c \in Given' \ C
       PROVE  \/ \E l \in c : /\ -l > N /\ -l <= nVars'
                              /\ -l \notin Range(blockingSelectors')
              \/ \E k \in 1..(n + 1) : BlockingClause(models'[k]) \subseteq c
  <2>1. CASE c = new
    <3>1. BlockingClause(models'[n + 1]) \subseteq c
      BY <1>9, <2>1 DEF new, Selected
    <3> QED BY <1>14, <3>1
  <2>2. CASE c \in Given
    <3>1. Range(blockingSelectors') = Range(sels) \cup {nVars + 1}
      <4>1. Range(blockingSelectors') = {blockingSelectors'[k] : k \in 1..(n + 1)}
        BY <1>15 DEF Range
      <4>2. Range(sels) = {sels[k] : k \in 1..n}
        BY <1>5 DEF Range
      <4> QED BY <1>10, <1>13, <1>14, <4>1, <4>2
    <3>2. CASE Retiring(c, sels)
      <4>1. PICK l \in c : -l > N /\ -l <= nVars /\ -l \notin Range(sels)
        BY <3>2 DEF Retiring, N
      <4>2. l \in Int
        BY <2>2, GivenKnows DEF BackEndInv, Clausal, Literal
      <4>3. -l <= nVars' /\ -l # nVars + 1
        BY <1>3, <1>6, <4>1, <4>2
      <4> QED BY <3>1, <4>1, <4>3
    <3>3. CASE \E k \in 1..n : BlockingClause(ms[k]) \subseteq c
      BY <1>9, <1>14, <3>3
    <3> QED BY <1>5, <2>2, <3>2, <3>3
  <2> QED BY <1>12, <2>1, <2>2
<1>20. Enumerated(written, models, blockingSelectors)'
  BY <1>8, <1>11, <1>15, <1>16, <1>17, <1>18, <1>19 DEF Enumerated, Retiring, Range
<1> QED BY <1>4, <1>20

\* An enumeration starts with every extension of the step still to be found.
LEMMA StartEnumerationRight ==
  ASSUME SolverInv, StartEnumeration
  PROVE  BackEndInv' /\ EnumerationInv'
<1>0. SetupInv /\ ScanInv /\ BackEndInv
  BY DEF SolverInv
<1>1. /\ Ready /\ task = "EE" /\ enumerating' = TRUE
      /\ UNCHANGED <<vars, setup>> /\ semantics \in {"CO", "ST"}
  BY DEF StartEnumeration
<1>2. /\ UNCHANGED <<problem, setup>>
      /\ pc' = "scan" /\ i' = Len(dynAttacks') /\ task' = "EE" /\ semantics' \in {"CO", "ST"}
  BY <1>1 DEF vars, problem, setup, Ready
<1>3. CASE semantics = "ST"
  <2>1. ClearedEnumeration /\ written' = << >>
    BY <1>3 DEF StartEnumeration
  <2>2. /\ BuildSolver /\ newFormula' = {} /\ models' = << >>
        /\ blockingSelectors' = << >> /\ nVars' = nVars
    BY <2>1 DEF ClearedEnumeration
  <2>3. BackEndInv'
    <3>1. nVars \in Nat
      BY <1>0 DEF BackEndInv
    <3> QED BY <1>0, <1>2, <2>2, <3>1, NoClauses, BuildSolverStep
  <2>4. ASSUME NEW c \in Given' \ (ClausesOf(semantics, Helper))'
        PROVE  Retiring(c, << >>)'
    <3>1. Given' \subseteq Knowledge'
      BY <2>2 DEF BuildSolver, Given, Knowledge
    <3>2. PICK l \in c : -l > (NbVarsOf(Helper))' /\ -l <= nVars'
      BY <2>3, <2>4, <3>1 DEF BackEndInv, Selective
    <3>3. Range(<< >>) = {}
      BY DEF Range
    <3> QED BY <3>2, <3>3 DEF Retiring
  <2>5. Enumerated(written, models, blockingSelectors)'
    <3>1. /\ written' \in Seq(StepSets') /\ Len(written') = 0
          /\ 1..Len(written') = {}
      BY <2>1
    <3>2. models' = [k \in 1..Len(written') |-> Coded(written[k])']
      BY <2>2, <3>1
    <3>3. blockingSelectors' \in [1..Len(written') -> Nat]
      BY <2>2, <3>1
    <3> QED BY <2>2, <2>4, <3>1, <3>2, <3>3 DEF Enumerated
  <2> QED BY <1>2, <2>3, <2>5 DEF EnumerationInv
<1>4. CASE semantics = "CO"
  <2> DEFINE G == Grounded(Arg, Framework(dynStep + 1))
             none == << >>
  <2>1. PICK P \in Propagations(Assumptions) :
          BlockedModel(P, none, none) /\ written' = <<Decode(P)>>
    BY <1>4 DEF StartEnumeration
  <2>2. P = Coded(G) /\ G \in StepSets /\ Decode(P) = G
    BY <1>0, <1>1, <1>4, AtCall
  <2> HIDE DEF G
  <2>3. Enumerated(none, none, none)
    <3>1. /\ Len(none) = 0 /\ 1..Len(none) = {}
          /\ none = [k \in 1..Len(none) |-> Coded(none[k])]
          /\ none \in Seq(StepSets) /\ none \in [1..Len(none) -> Nat]
          /\ Range(none) = {}
      BY DEF Range
    <3>2. \A c \in Given \ ClausesOf(semantics, Helper) : Selective(c)
      BY <1>0, GivenKnows DEF BackEndInv
    <3> HIDE DEF none
    <3> QED BY <3>1, <3>2 DEF Enumerated, Retiring, Selective
  <2>4. G \notin Range(none) /\ written' = Append(none, G)
    BY <2>1, <2>2 DEF Range
  <2>5. pc = "scan" /\ i = Len(dynAttacks) /\ BlockedModel(Coded(G), none, none)
    BY <1>1, <2>1, <2>2 DEF Ready
  <2> HIDE DEF none
  <2>6. BackEndInv' /\ Enumerated(written, models, blockingSelectors)'
    BY <1>0, <1>1, <2>2, <2>3, <2>4, <2>5, EnumerationGrows
  <2> QED BY <1>2, <2>6 DEF EnumerationInv
<1> QED BY <1>1, <1>3, <1>4

\* Each model of an enumeration is an extension of the step that was not found before,
\* and its blocking clause leaves out no other.
LEMMA EnumerateModelRight ==
  ASSUME SolverInv, EnumerateModel
  PROVE  BackEndInv' /\ EnumerationInv'
<1>0. /\ SetupInv /\ ScanInv /\ BackEndInv
      /\ pc = "scan" /\ i = Len(dynAttacks)
      /\ task = "EE" /\ semantics \in {"CO", "ST"}
      /\ Enumerated(written, models, blockingSelectors)
      /\ enumerating = TRUE /\ UNCHANGED <<vars, setup>>
  BY DEF SolverInv, EnumerateModel, EnumerationInv
<1>1. PICK T \in Remaining : /\ BlockedModel(T, models, blockingSelectors)
                             /\ written' = Append(written, Decode(T))
  BY DEF EnumerateModel
<1>2. PICK S \in StepSets \ Range(written) : T = Coded(S)
  BY <1>0, RemainingExact
<1>3. Decode(T) = S
  BY <1>0, <1>2, AtCall DEF SolverInv
<1>4. BackEndInv' /\ Enumerated(written, models, blockingSelectors)'
  BY <1>0, <1>1, <1>2, <1>3, EnumerationGrows
<1>5. pc' = "scan" /\ i' = Len(dynAttacks') /\ task' = "EE" /\ semantics' \in {"CO", "ST"}
  BY <1>0 DEF vars, problem, setup
<1> QED BY <1>4, <1>5 DEF EnumerationInv

\* When no model is left, all the sets have been written, each once.
LEMMA EndEnumerationRight ==
  ASSUME SolverInv, EndEnumeration
  PROVE  BackEndInv' /\ AnswersCorrect'
<1>0. /\ SetupInv /\ ScanInv /\ BackEndInv
      /\ pc = "scan" /\ i = Len(dynAttacks)
      /\ task = "EE" /\ semantics \in {"CO", "ST"}
      /\ Enumerated(written, models, blockingSelectors)
      /\ enumerating = TRUE
  BY DEF SolverInv, EndEnumeration, EnumerationInv
<1>1. /\ UNCHANGED <<problem, setup>> /\ dynStep' = dynStep
      /\ BuildSolver /\ newFormula' = Retired /\ nVars' = nVars /\ written' = written
      /\ Remaining = {}
  BY DEF EndEnumeration, Call
<1> DEFINE n == Len(written)
           E == ExtensionsAt(dynStep + 1)
<1>2. /\ written \in Seq(StepSets) /\ n \in Nat
      /\ models = [k \in 1..n |-> Coded(written[k])]
      /\ \A j, k \in 1..n : written[j] = written[k] => j = k
      /\ blockingSelectors \in [1..n -> Nat]
      /\ \A k \in 1..n : NbVarsOf(Helper) < blockingSelectors[k] /\ blockingSelectors[k] <= nVars
      /\ \A k \in 1..n : written[k] \in StepSets
      /\ Range(written) = {written[k] : k \in 1..n}
      /\ DOMAIN written = 1..n
  BY <1>0, LenProperties, ElementOfSeq DEF Enumerated, Range
<1>3. BackEndInv'
  <2> DEFINE V == {blockingSelectors[k] : k \in 1..n}
  <2>1. Retired = {{-v} : v \in V}
    <3>1. DOMAIN models = 1..n
      BY <1>2
    <3>2. Retired = {{-blockingSelectors[k]} : k \in 1..n}
      BY <3>1 DEF Retired
    <3> QED BY <3>2
  <2>2. V \in SUBSET Nat /\ \A v \in V : v > NbVarsOf(Helper) /\ v <= nVars
    <3>1. NbVarsOf(Helper) \in Nat /\ nVars \in Nat
      BY <1>0, ArgumentLiteralsReadable DEF BackEndInv
    <3> QED BY <1>2, <3>1
  <2>3. IsFiniteSet(V)
    <3>1. blockingSelectors \in Surjection(1..n, V)
      BY <1>2 DEF Surjection
    <3>2. IsFiniteSet(1..n)
      BY <1>2, FS_Interval
    <3> QED BY <3>1, <3>2, FS_Surjection
  <2> HIDE DEF V
  <2>4. /\ Clausal(Retired)
        /\ \A c \in Retired : \E l \in c : -l > NbVarsOf(Helper) /\ -l <= nVars
    BY <1>0, <2>1, <2>2, <2>3, RetiredClausal
  <2>5. nVars \in Nat
    BY <1>0 DEF BackEndInv
  <2> QED BY <1>0, <1>1, <2>4, <2>5, BuildSolverStep
<1>4. Range(written) = StepSets
  <2>1. {Coded(S) : S \in StepSets \ Range(written)} = {}
    BY <1>0, <1>1, RemainingExact
  <2> QED BY <1>2, <2>1
<1>5. E = StepSets
  BY <1>0, StepExtensions
<1>6. n = Cardinality(E)
  <2>1. written \in [1..n -> E]
    BY <1>2, <1>5
  <2>2. \A S \in E : \E k \in 1..n : written[k] = S
    BY <1>2, <1>4, <1>5
  <2> HIDE DEF E, n
  <2>3. written \in Bijection(1..n, E)
    <3>1. written \in Injection(1..n, E)
      BY <1>2, <2>1 DEF Injection, IsInjective
    <3>2. written \in Surjection(1..n, E)
      BY <2>1, <2>2 DEF Surjection
    <3> QED BY <3>1, <3>2 DEF Bijection
  <2>4. ExistsBijection(1..n, E)
    BY <2>3 DEF ExistsBijection
  <2> QED BY <1>2, <2>4, FS_CountingElements
<1>7. Range(written') = E /\ Len(written') = Cardinality(E)
  BY <1>1, <1>4, <1>5, <1>6
<1> HIDE DEF E
<1>8. AnswersCorrect'
  BY <1>0, <1>1, <1>7, AnswerStep DEF E
<1> QED BY <1>3, <1>8

----------------------------------------------------------------------------
(* The theorems *)

\* What init leaves.
LEMMA StartSolverInv ==
  ASSUME SolverInit
  PROVE  SolverInv
<1>1. BackEndInit /\ enumerating = FALSE
  BY DEF SolverInit
<1>2. SetupInv /\ ScanInv /\ BackEndInv
  BY <1>1, StartSetup, StartBackEnd
<1>3. pc = "scan"
  BY <1>1 DEF BackEndInit, BeforeFirstCall
<1> QED BY <1>1, <1>2, <1>3 DEF SolverInv, EnumerationInv, AnswersCorrect

\* The state is all that these invariants speak of.
LEMMA StutterRight ==
  ASSUME SetupInv, BackEndInv, EnumerationInv, UNCHANGED <<problem, setup>>, UNCHANGED backEnd,
         UNCHANGED <<dynStep, i, pc, enumerating, written>>
  PROVE  BackEndInv' /\ EnumerationInv'
<1>1. UNCHANGED <<formula, newFormula, hasSolver, engine, nVars, models, blockingSelectors>>
  BY DEF backEnd
<1>2. Knowledge' = Knowledge /\ Collected' = Collected /\ Given' = Given
  BY <1>1 DEF Knowledge, Collected, Given
<1>3. BackEndInv'
  <2>1. nVars \in Nat /\ nVars <= nVars /\ hasSolver \in BOOLEAN
    BY DEF BackEndInv
  <2>2. hasSolver' => IF hasSolver THEN engine \subseteq engine' ELSE Collected \subseteq engine'
    BY <1>1
  <2>3. Knowledge' \subseteq Knowledge \cup {} /\ Collected \subseteq Collected'
    BY <1>2
  <2> QED BY <1>1, <2>1, <2>2, <2>3, NoClauses, BackEndStep
<1>4. /\ StepSets' = StepSets
      /\ ClausesOf(semantics, Helper)' = ClausesOf(semantics, Helper)
      /\ NbVarsOf(Helper)' = NbVarsOf(Helper)
  <2>1. Helper' = Helper /\ semantics' = semantics
    BY DEF setup, Helper
  <2>2. Framework(dynStep + 1)' = Framework(dynStep + 1)
    BY ExtensionsFixed
  <2> QED BY <2>1, <2>2, ClausesFixed DEF StepSets
<1>5. /\ \A S : Coded(S)' = Coded(S)
      /\ \A T : BlockingClause(T)' = BlockingClause(T)
  BY DEF setup, Coded, BlockingClause
<1>6. ASSUME Enumerated(written, models, blockingSelectors)
      PROVE  Enumerated(written, models, blockingSelectors)'
  <2>1. \A c : Retiring(c, blockingSelectors)' <=> Retiring(c, blockingSelectors)
    BY <1>1, <1>4 DEF Retiring
  <2> HIDE DEF Retiring, StepSets
  <2> QED BY <1>1, <1>2, <1>4, <1>5, <1>6, <2>1 DEF Enumerated
<1>7. UNCHANGED <<pc, i, enumerating, dynAttacks, task, semantics>>
  BY DEF problem, setup
<1> QED BY <1>3, <1>6, <1>7 DEF EnumerationInv

\* Between the calls the decorator touches nothing of the back end.
LEMMA BetweenRight ==
  ASSUME SolverInv, Between
  PROVE  BackEndInv' /\ EnumerationInv' /\ AnswersCorrect'
<1>0. /\ SetupInv /\ ScanInv /\ BackEndInv /\ AnswersCorrect
      /\ UNCHANGED <<problem, setup>> /\ UNCHANGED solverVars
      /\ ScanApplied \/ ScanPending \/ NextStep \/ Finish
  BY DEF SolverInv, Between, solverVars, ScanApplied, ScanPending, NextStep, Advance, Finish
<1>1. BackEndInv'
  <2>1. /\ UNCHANGED backEnd /\ nVars' = nVars /\ hasSolver' = hasSolver
        /\ Knowledge' = Knowledge /\ Collected' = Collected /\ engine' = engine
    BY <1>0 DEF solverVars, backEnd, Knowledge, Collected
  <2>2. nVars \in Nat /\ hasSolver \in BOOLEAN /\ (hasSolver => Collected \subseteq Collected)
    BY <1>0 DEF BackEndInv
  <2>3. nVars <= nVars
    BY <2>2
  <2>4. hasSolver' => IF hasSolver THEN engine \subseteq engine' ELSE Collected \subseteq engine'
    BY <2>1
  <2>5. Knowledge' \subseteq Knowledge \cup {} /\ Collected \subseteq Collected'
    BY <2>1
  <2> QED BY <1>0, <2>1, <2>2, <2>3, <2>4, <2>5, NoClauses, BackEndStep
<1>2. ~enumerating
  <2>1. enumerating => pc = "scan" /\ i = Len(dynAttacks)
    BY DEF SolverInv, EnumerationInv
  <2>2. Base
    BY <1>0 DEF SetupInv
  <2>3. dynStep < Len(dynAttacks) /\ dynStep \in Int /\ Len(dynAttacks) \in Nat
    BY <1>0, <2>2 DEF ScanInv, Base, TypeOK
  <2> QED BY <1>0, <2>1, <2>3 DEF ScanApplied, ScanPending, NextStep, Finish
<1>3. EnumerationInv'
  BY <1>0, <1>2 DEF EnumerationInv, solverVars
<1>4. pc' # "returned"
  BY <1>0 DEF ScanApplied, ScanPending, NextStep, Advance, Finish, SolverInv
<1>5. AnswersCorrect'
  BY <1>4 DEF AnswersCorrect
<1> QED BY <1>1, <1>3, <1>5

\* Every step of the solvers keeps the invariant.
LEMMA SolverInvPreserved ==
  ASSUME SolverInv, [SolverNext]_allVars
  PROVE  SolverInv'
<1>1. SetupInv' /\ ScanInv'
  BY SetupStep DEF SolverInv
<1>2. CASE Between
  <2>1. enumerating' \in BOOLEAN
    BY <1>2 DEF Between, solverVars, SolverInv
  <2> QED BY <1>1, <1>2, <2>1, BetweenRight DEF SolverInv
<1>3. CASE \/ GroundedExtension \/ GroundedMember \/ CredulousComplete \/ OneStable
           \/ CredulousStable \/ SkepticalStable
  <2>1. BackEndInv' /\ AnswersCorrect'
    BY <1>3, GroundedExtensionRight, GroundedMemberRight, CredulousCompleteRight,
       OneStableRight, StableDecisionsRight
  <2>2. enumerating' = FALSE
    BY <1>3 DEF GroundedExtension, GroundedMember, CredulousComplete, OneStable,
                CredulousStable, SkepticalStable, Returns, Ready, SolverInv
  <2> QED BY <1>1, <2>1, <2>2 DEF SolverInv, EnumerationInv
<1>4. CASE StartEnumeration \/ EnumerateModel
  <2>1. BackEndInv' /\ EnumerationInv'
    BY <1>4, StartEnumerationRight, EnumerateModelRight
  <2>2. enumerating' = TRUE
    BY <1>4 DEF StartEnumeration, EnumerateModel, SolverInv
  <2>3. pc' = "scan"
    BY <2>1, <2>2 DEF EnumerationInv
  <2>4. AnswersCorrect'
    BY <2>3 DEF AnswersCorrect
  <2> QED BY <1>1, <2>1, <2>2, <2>4 DEF SolverInv
<1>5. CASE EndEnumeration
  <2>1. BackEndInv' /\ AnswersCorrect'
    BY <1>5, EndEnumerationRight
  <2>2. enumerating' = FALSE
    BY <1>5 DEF EndEnumeration
  <2> QED BY <1>1, <2>1, <2>2 DEF SolverInv, EnumerationInv
<1>6. CASE UNCHANGED allVars
  <2>1. /\ UNCHANGED <<problem, setup>> /\ UNCHANGED backEnd
        /\ UNCHANGED <<dynStep, i, pc, enumerating, written, accepted>>
    BY <1>6 DEF allVars, vars, solverVars
  <2>2. AnswersCorrect'
    BY <2>1, AnswersKept DEF SolverInv
  <2>3. BackEndInv' /\ EnumerationInv'
    BY <2>1, StutterRight DEF SolverInv
  <2> QED BY <1>1, <2>1, <2>2, <2>3 DEF SolverInv
<1> QED BY <1>2, <1>3, <1>4, <1>5, <1>6 DEF SolverNext

\* The cone of the answers: what the grounded, complete and stable solvers write
\* for every step is right, for the framework of that step, in every run.
THEOREM AnswersAlwaysCorrect == SolverSpec => []AnswersCorrect
<1>1. SolverInit => SolverInv
  BY StartSolverInv
<1>2. SolverInv /\ [SolverNext]_allVars => SolverInv'
  BY SolverInvPreserved
<1>3. SolverInv => AnswersCorrect
  BY DEF SolverInv
<1> QED BY <1>1, <1>2, <1>3, PTL DEF SolverSpec

\* Arguments that share a variable are together in every extension of every step.
THEOREM ReductionAlwaysSound == SolverSpec => []ReductionSound
<1>1. SolverInit => SolverInv
  BY StartSolverInv
<1>2. SolverInv /\ [SolverNext]_allVars => SolverInv'
  BY SolverInvPreserved
<1>3. SolverInv => ReductionSound
  BY SharedVariables DEF SolverInv
<1> QED BY <1>1, <1>2, <1>3, PTL DEF SolverSpec
=============================================================================
