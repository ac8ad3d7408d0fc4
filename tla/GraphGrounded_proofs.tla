------------------------ MODULE GraphGrounded_proofs ------------------------
(* Proofs about the graph-based grounded solver, for any arguments and any *)
(* attacks.                                                                *)
EXTENDS GraphGrounded, TLAPS

Elements(s) == {s[k] : k \in DOMAIN s}

NoRepetition(s) == \A j, k \in DOMAIN s : s[j] = s[k] => j = k

\* groundedExtension overwrites an element by the last one and pops: what is
\* left is the list without that element, when nothing occurs twice.
LEMMA TakenOutElements ==
  ASSUME NEW S, NEW s \in Seq(S), NoRepetition(s), NEW k \in 1..Len(s)
  PROVE  /\ TakenOut(s, k) \in Seq(S)
         /\ Len(TakenOut(s, k)) = Len(s) - 1
         /\ NoRepetition(TakenOut(s, k))
         /\ Elements(TakenOut(s, k)) = Elements(s) \ {s[k]}
<1> DEFINE t == TakenOut(s, k)
<1> DEFINE n == Len(s)
<1>1. n \in Nat /\ n - 1 \in Nat /\ DOMAIN s = 1..n /\ n \in DOMAIN s
  OBVIOUS
<1>2. \A j \in 1..n : s[j] \in S
  OBVIOUS
<1>3. t = [j \in 1..(n - 1) |-> IF j = k THEN s[n] ELSE s[j]]
  BY DEF TakenOut
<1>4. t \in [1..(n - 1) -> S]
  BY <1>1, <1>2, <1>3
<1>5. t \in Seq(S) /\ Len(t) = n - 1 /\ DOMAIN t = 1..(n - 1)
  <2> HIDE DEF t, n
  <2> QED BY <1>1, <1>4
<1>6. NoRepetition(t)
  BY <1>1, <1>3, <1>5 DEF NoRepetition
<1>7. ASSUME NEW j \in 1..(n - 1) PROVE t[j] \in Elements(s) \ {s[k]}
  BY <1>1, <1>3 DEF NoRepetition, Elements
<1>8. ASSUME NEW j \in 1..n, s[j] # s[k] PROVE \E m \in 1..(n - 1) : t[m] = s[j]
  <2>1. CASE j = n
    <3>1. k \in 1..(n - 1)
      BY <1>1, <1>8, <2>1
    <3> QED BY <1>3, <2>1, <3>1
  <2>2. CASE j # n
    <3>1. j \in 1..(n - 1) /\ j # k
      <4> HIDE DEF n
      <4> QED BY <1>8, <2>2, <1>1
    <3> QED BY <1>3, <3>1
  <2> QED BY <2>1, <2>2
<1>9. Elements(t) = Elements(s) \ {s[k]}
  <2>1. Elements(t) \subseteq Elements(s) \ {s[k]}
    BY <1>5, <1>7 DEF Elements
  <2>2. ASSUME NEW x \in Elements(s) \ {s[k]} PROVE x \in Elements(t)
    <3>1. PICK j \in 1..n : x = s[j]
      BY <1>1 DEF Elements
    <3>2. PICK m \in 1..(n - 1) : t[m] = x
      BY <1>8, <3>1
    <3> HIDE DEF t, n
    <3> QED BY <1>5, <3>2 DEF Elements
  <2> QED BY <2>1, <2>2
<1> HIDE DEF t
<1> QED BY <1>5, <1>6, <1>9 DEF t

----------------------------------------------------------------------------
(* The work list *)

\* The candidate of a round, and what is left once it is taken out.
LEMMA CandidateTakenOut ==
  ASSUME WorkListOK, InRound
  PROVE  /\ Candidate \in Arg \ (inExt \cup defeated)
         /\ i + 1 \in 1..Len(candidates)
         /\ LET rest == TakenOut(candidates, i + 1)
            IN  /\ rest \in Seq(Arg)
                /\ Len(rest) = Len(candidates) - 1
                /\ \A j, k \in DOMAIN rest : rest[j] = rest[k] => j = k
                /\ {rest[k] : k \in DOMAIN rest} =
                     Arg \ (inExt \cup defeated \cup {Candidate})
<1>1. i + 1 \in 1..Len(candidates) /\ candidates \in Seq(Arg)
  BY DEF WorkListOK, InRound
<1>2. NoRepetition(candidates) /\ Elements(candidates) = Arg \ (inExt \cup defeated)
  BY DEF WorkListOK, NoRepetition, Elements
<1>3. Candidate \in Elements(candidates)
  BY <1>1 DEF Candidate, Elements
<1> DEFINE rest == TakenOut(candidates, i + 1)
<1>4. /\ rest \in Seq(Arg)
      /\ Len(rest) = Len(candidates) - 1
      /\ NoRepetition(rest)
      /\ Elements(rest) = Elements(candidates) \ {candidates[i + 1]}
  BY <1>1, <1>2, TakenOutElements
<1>5. Elements(rest) = Arg \ (inExt \cup defeated \cup {Candidate})
  BY <1>2, <1>4 DEF Candidate
<1> HIDE DEF rest
<1> QED BY <1>1, <1>2, <1>3, <1>4, <1>5 DEF rest, NoRepetition, Elements

\* The partition of the arguments into accepted, defeated and candidates is
\* kept by every step of groundedExtension.
LEMMA WorkListKept ==
  ASSUME WorkListOK, [SearchStep]_graphVars
  PROVE  WorkListOK'
<1>1. CASE Defeat
  <2> DEFINE rest == TakenOut(candidates, i + 1)
  <2>1. InRound /\ candidates' = rest /\ didSomething' = TRUE
        /\ UNCHANGED <<attacks, i, searching, inExt, grExt>>
        /\ defeated' = defeated \cup {Candidate}
    BY <1>1 DEF Defeat, TakeOut
  <2>2. /\ Candidate \in Arg \ (inExt \cup defeated)
        /\ i + 1 \in 1..Len(candidates)
        /\ rest \in Seq(Arg) /\ Len(rest) = Len(candidates) - 1
        /\ \A j, k \in DOMAIN rest : rest[j] = rest[k] => j = k
        /\ {rest[k] : k \in DOMAIN rest} =
             Arg \ (inExt \cup defeated \cup {Candidate})
    BY <2>1, CandidateTakenOut
  <2>3. i' \in 0..Len(rest)
    BY <2>1, <2>2 DEF WorkListOK
  <2> HIDE DEF rest
  <2> QED BY <2>1, <2>2, <2>3 DEF WorkListOK
<1>2. CASE Accept
  <2> DEFINE rest == TakenOut(candidates, i + 1)
  <2>1. InRound /\ candidates' = rest /\ didSomething' = TRUE
        /\ UNCHANGED <<attacks, i, searching, defeated>>
        /\ inExt' = inExt \cup {Candidate} /\ grExt' = Append(grExt, Candidate)
    BY <1>2 DEF Accept, TakeOut
  <2>2. /\ Candidate \in Arg \ (inExt \cup defeated)
        /\ i + 1 \in 1..Len(candidates)
        /\ rest \in Seq(Arg) /\ Len(rest) = Len(candidates) - 1
        /\ \A j, k \in DOMAIN rest : rest[j] = rest[k] => j = k
        /\ {rest[k] : k \in DOMAIN rest} =
             Arg \ (inExt \cup defeated \cup {Candidate})
    BY <2>1, CandidateTakenOut
  <2>3. i' \in 0..Len(rest)
    BY <2>1, <2>2 DEF WorkListOK
  <2>4. grExt' \in Seq(Arg) /\ {grExt'[k] : k \in DOMAIN grExt'} = inExt'
    <3>1. grExt \in Seq(Arg) /\ {grExt[k] : k \in DOMAIN grExt} = inExt
      BY DEF WorkListOK
    <3>2. /\ DOMAIN grExt' = DOMAIN grExt \cup {Len(grExt) + 1}
          /\ \A k \in DOMAIN grExt : grExt'[k] = grExt[k]
          /\ grExt'[Len(grExt) + 1] = Candidate
          /\ grExt' \in Seq(Arg)
      BY <2>1, <2>2, <3>1
    <3> QED BY <2>1, <3>1, <3>2
  <2>5. inExt' \subseteq Arg /\ inExt' \cap defeated' = {}
    BY <2>1, <2>2 DEF WorkListOK
  <2>6. {rest[k] : k \in DOMAIN rest} = Arg \ (inExt' \cup defeated')
    BY <2>1, <2>2
  <2>7. didSomething' \in BOOLEAN /\ searching' \in BOOLEAN
        /\ attacks' \subseteq Arg \X Arg /\ defeated' \subseteq Arg
    BY <2>1 DEF WorkListOK
  <2> HIDE DEF rest
  <2>8. /\ candidates' \in Seq(Arg) /\ i' \in 0..Len(candidates')
        /\ {candidates'[k] : k \in DOMAIN candidates'} = Arg \ (inExt' \cup defeated')
        /\ \A j, k \in DOMAIN candidates' : candidates'[j] = candidates'[k] => j = k
    BY <2>1, <2>2, <2>3, <2>6
  <2> QED BY <2>4, <2>5, <2>7, <2>8 DEF WorkListOK
<1>3. CASE Skip
  BY <1>3 DEF Skip, InRound, WorkListOK
<1>4. CASE NextRound
  <2>1. i' = 0 /\ didSomething' = FALSE
        /\ UNCHANGED <<attacks, candidates, inExt, defeated, grExt, searching>>
    BY <1>4 DEF NextRound
  <2>2. Len(candidates) \in Nat
    BY DEF WorkListOK
  <2>3. i' \in 0..Len(candidates')
    BY <2>1, <2>2
  <2> QED BY <2>1, <2>3 DEF WorkListOK
<1>5. CASE EndSearch
  BY <1>5 DEF EndSearch, WorkListOK
<1>6. CASE UNCHANGED graphVars
  BY <1>6 DEF graphVars, workList, WorkListOK
<1> QED BY <1>1, <1>2, <1>3, <1>4, <1>5, <1>6 DEF SearchStep

----------------------------------------------------------------------------
(* The grounded extension *)

\* An undecided argument has an attacker that is neither accepted nor defeated.
Undecided(x) ==
  /\ Attackers(x) \ defeated # {}
  /\ (Attackers(x) \ defeated) \cap inExt = {}

Justified ==
  /\ \A x \in inExt : Attackers(x) \subseteq defeated
  /\ \A x \in defeated : Attackers(x) \cap inExt # {}

Least == \A T \in Complete(Arg, attacks) : inExt \subseteq T

\* While a round has changed nothing, those it has passed are undecided.
RoundInv ==
  /\ ~didSomething => \A k \in 1..i : Undecided(candidates[k])
  /\ ~searching => ~didSomething /\ i = Len(candidates)

SearchInv == WorkListOK /\ Justified /\ Least /\ RoundInv

\* An argument whose attackers are all defeated is in every complete extension.
LEMMA AcceptedIsForced ==
  ASSUME WorkListOK, Justified, Least, NEW x \in Arg, Attackers(x) \subseteq defeated,
         NEW T \in Complete(Arg, attacks)
  PROVE  x \in T
<1>1. T = Defended(Arg, attacks, T) /\ inExt \subseteq T
  BY DEF Complete, Least
<1>2. ASSUME NEW y \in Arg, <<y, x>> \in attacks PROVE Attacked(attacks, T, y)
  <2>1. y \in defeated
    BY <1>2 DEF Attackers
  <2>2. PICK z \in inExt : <<z, y>> \in attacks
    BY <2>1 DEF Justified, Attackers
  <2> QED BY <1>1, <2>2 DEF Attacked
<1> QED BY <1>1, <1>2 DEF Defended

\* Every round of groundedExtension keeps what is known of its sets.
LEMMA SearchInvKept ==
  ASSUME SearchInv, [SearchStep]_graphVars
  PROVE  SearchInv'
<1>0. WorkListOK /\ WorkListOK'
  BY WorkListKept DEF SearchInv
<1>1. CASE Defeat
  <2>1. /\ InRound /\ didSomething' = TRUE /\ defeated' = defeated \cup {Candidate}
        /\ UNCHANGED <<attacks, i, searching, inExt, grExt>>
        /\ (Attackers(Candidate) \ defeated) \cap inExt # {}
    BY <1>1 DEF Defeat, TakeOut, Standing
  <2>2. Justified'
    BY <2>1 DEF SearchInv, Justified, Attackers
  <2>3. Least' /\ RoundInv'
    BY <2>1 DEF SearchInv, Least, RoundInv, InRound
  <2> QED BY <1>0, <2>2, <2>3 DEF SearchInv
<1>2. CASE Accept
  <2>1. /\ InRound /\ didSomething' = TRUE /\ inExt' = inExt \cup {Candidate}
        /\ UNCHANGED <<attacks, i, searching, defeated>>
        /\ Attackers(Candidate) \subseteq defeated
    BY <1>2 DEF Accept, TakeOut, Standing
  <2>2. Justified'
    BY <2>1 DEF SearchInv, Justified, Attackers
  <2>3. Candidate \in Arg
    BY <1>0, <2>1, CandidateTakenOut
  <2>4. Least'
    BY <1>0, <2>1, <2>3, AcceptedIsForced DEF SearchInv, Least
  <2>5. RoundInv'
    BY <2>1 DEF SearchInv, RoundInv, InRound
  <2> QED BY <1>0, <2>2, <2>4, <2>5 DEF SearchInv
<1>3. CASE Skip
  <2>1. /\ InRound /\ i' = i + 1 /\ Undecided(candidates[i + 1])
        /\ UNCHANGED <<attacks, candidates, inExt, defeated, didSomething, searching>>
    BY <1>3 DEF Skip, Standing, Undecided, Candidate
  <2>2. Justified' /\ Least'
    BY <2>1 DEF SearchInv, Justified, Least, Attackers
  <2>3. i \in Nat
    BY <1>0 DEF WorkListOK
  <2>4. ASSUME ~didSomething', NEW k \in 1..i' PROVE Undecided(candidates[k])'
    <3>1. Undecided(candidates[k])
      BY <2>1, <2>3, <2>4 DEF SearchInv, RoundInv
    <3> QED BY <2>1, <3>1 DEF Undecided, Attackers
  <2>5. searching'
    BY <2>1 DEF InRound
  <2> QED BY <1>0, <2>2, <2>4, <2>5 DEF SearchInv, RoundInv
<1>4. CASE NextRound
  <2>1. /\ i' = 0 /\ searching'
        /\ UNCHANGED <<attacks, candidates, inExt, defeated>>
    BY <1>4 DEF NextRound, RoundOver
  <2>2. Justified' /\ Least'
    BY <2>1 DEF SearchInv, Justified, Least, Attackers
  <2>3. RoundInv'
    BY <2>1 DEF RoundInv
  <2> QED BY <1>0, <2>2, <2>3 DEF SearchInv
<1>5. CASE EndSearch
  <2>1. /\ i = Len(candidates) /\ ~didSomething
        /\ UNCHANGED <<attacks, candidates, i, inExt, defeated, didSomething>>
    BY <1>5 DEF EndSearch, RoundOver
  <2>2. Justified' /\ Least'
    BY <2>1 DEF SearchInv, Justified, Least, Attackers
  <2>3. RoundInv'
    BY <2>1 DEF SearchInv, RoundInv, Undecided, Attackers
  <2> QED BY <1>0, <2>2, <2>3 DEF SearchInv
<1>6. CASE UNCHANGED graphVars
  BY <1>0, <1>6 DEF SearchInv, graphVars, workList, Justified, Least, RoundInv,
     Undecided, Attackers
<1> QED BY <1>1, <1>2, <1>3, <1>4, <1>5, <1>6 DEF SearchStep

\* groundedExtension starts with every argument on its list.
LEMMA SearchInvInit ==
  ASSUME GraphInit
  PROVE  SearchInv
<1>1. candidates = Order /\ i = 0 /\ inExt = {} /\ defeated = {} /\ grExt = << >>
      /\ didSomething = FALSE /\ searching = TRUE /\ attacks \subseteq Arg \X Arg
  BY DEF GraphInit, StartSearch
<1>2. {grExt[k] : k \in DOMAIN grExt} = inExt /\ grExt \in Seq(Arg)
  BY <1>1
<1>3. i \in 0..Len(candidates)
  BY <1>1, OrderAssumption
<1>4. WorkListOK
  BY <1>1, <1>2, <1>3, OrderAssumption DEF WorkListOK
<1>5. Justified /\ Least /\ RoundInv
  BY <1>1 DEF Justified, Least, RoundInv
<1> QED BY <1>4, <1>5 DEF SearchInv

\* Once a round has changed nothing, what is accepted is a complete extension
\* inside every other.
LEMMA SearchedIsGrounded ==
  ASSUME SearchInv, ~searching
  PROVE  inExt = Grounded(Arg, attacks)
<1>1. ASSUME NEW x \in Arg, x \notin inExt, x \notin defeated PROVE Undecided(x)
  <2>1. PICK k \in DOMAIN candidates : candidates[k] = x
    BY <1>1 DEF SearchInv, WorkListOK
  <2>2. k \in 1..i
    BY <2>1 DEF SearchInv, WorkListOK, RoundInv
  <2> QED BY <2>1, <2>2 DEF SearchInv, RoundInv
<1>2. inExt \subseteq Arg /\ defeated \subseteq Arg /\ inExt \cap defeated = {}
  BY DEF SearchInv, WorkListOK
<1>3. ConflictFree(attacks, inExt)
  BY <1>2 DEF ConflictFree, SearchInv, Justified, Attackers
<1>4. inExt \subseteq Defended(Arg, attacks, inExt)
  BY <1>2 DEF Defended, Attacked, SearchInv, Justified, Attackers
<1>5. ASSUME NEW x \in Defended(Arg, attacks, inExt) PROVE x \in inExt
  <2>1. \A y \in Arg : <<y, x>> \in attacks => \E z \in inExt : <<z, y>> \in attacks
    BY <1>5 DEF Defended, Attacked
  <2>2. x \in Arg
    BY <1>5 DEF Defended
  <2>3. x \notin defeated
    <3> SUFFICES ASSUME x \in defeated PROVE FALSE
      OBVIOUS
    <3>1. PICK y \in inExt : <<y, x>> \in attacks
      BY DEF SearchInv, Justified, Attackers
    <3>2. PICK z \in inExt : <<z, y>> \in attacks
      BY <1>2, <2>1, <3>1
    <3> QED BY <1>2, <3>1, <3>2 DEF SearchInv, Justified, Attackers
  <2>4. SUFFICES ASSUME x \notin inExt PROVE FALSE
    OBVIOUS
  <2>5. PICK y \in Attackers(x) \ defeated : y \notin inExt
    BY <1>1, <2>2, <2>3, <2>4 DEF Undecided
  <2>6. y \in Arg /\ <<y, x>> \in attacks
    BY <2>5 DEF Attackers
  <2>7. PICK z \in inExt : <<z, y>> \in attacks
    BY <2>1, <2>6
  <2>8. Undecided(y)
    BY <1>1, <2>5, <2>6
  <2>9. z \in (Attackers(y) \ defeated) \cap inExt
    BY <1>2, <2>7 DEF Attackers
  <2> QED BY <2>8, <2>9 DEF Undecided
<1>6. inExt \in Complete(Arg, attacks)
  BY <1>2, <1>3, <1>4, <1>5 DEF Complete
<1>7. \A T \in Complete(Arg, attacks) : inExt \subseteq T
  BY DEF SearchInv, Least
<1>8. /\ Grounded(Arg, attacks) \in Complete(Arg, attacks)
      /\ \A T \in Complete(Arg, attacks) : Grounded(Arg, attacks) \subseteq T
  BY <1>6, <1>7 DEF Grounded
<1> QED BY <1>6, <1>7, <1>8

----------------------------------------------------------------------------
(* The theorems *)

\* groundedExtension keeps every argument in exactly one place: accepted,
\* defeated or in the shuffled list.
THEOREM WorkListCorrect == GraphSpec => []WorkListOK
<1>1. GraphInit => WorkListOK
  BY SearchInvInit DEF SearchInv
<1>2. WorkListOK /\ [SearchStep]_graphVars => WorkListOK'
  BY WorkListKept
<1> QED BY <1>1, <1>2, PTL DEF GraphSpec

\* What is known of the sets of groundedExtension holds whenever it is interrupted.
THEOREM SearchInvariant == GraphSpec => []SearchInv
<1>1. GraphInit => SearchInv
  BY SearchInvInit
<1>2. SearchInv /\ [SearchStep]_graphVars => SearchInv'
  BY SearchInvKept
<1> QED BY <1>1, <1>2, PTL DEF GraphSpec

\* groundedExtension returns the grounded extension of any framework, whatever
\* the order of its arguments.
THEOREM GroundedCorrect == GraphSpec => []GroundedExact
<1>1. SearchInv => GroundedExact
  BY SearchedIsGrounded DEF GroundedExact
<1> QED BY <1>1, SearchInvariant, PTL

\* A task of the solver or of the triathlon is a run of groundedExtension.
LEMMA SolverSearches == SolverSpec => GraphSpec
<1>1. SolverInit => GraphInit
  BY DEF SolverInit
<1>2. [SolverNext]_solverVars => [SearchStep]_graphVars
  BY DEF SolverNext, Grounding, WriteGrounded, WriteAcceptance, StartTriathlon,
     EnumerateMss, MssesDone, AskRange, EndTriathlon, solverVars
<1> QED BY <1>1, <1>2, PTL DEF SolverSpec, GraphSpec

AnswerInv == AnswerTruthful /\ (answer # "none" => ~searching)

\* DC-GR and DS-GR never write a wrong acceptance, although the loop over the
\* extension returns at its first element.
THEOREM AnswerCorrect == SolverSpec => []AnswerTruthful
<1>1. SolverInit => AnswerInv
  BY DEF SolverInit, AnswerInv, AnswerTruthful
<1>2. AnswerInv /\ SearchInv /\ [SolverNext]_solverVars => AnswerInv'
  <2> SUFFICES ASSUME AnswerInv, SearchInv, [SolverNext]_solverVars PROVE AnswerInv'
    OBVIOUS
  <2>1. CASE Grounding
    <3>1. searching /\ UNCHANGED <<answer, query>>
      BY <2>1 DEF Grounding, call, SearchStep, Defeat, Accept, Skip, NextRound,
         EndSearch, InRound, RoundOver
    <3> QED BY <3>1 DEF AnswerInv, AnswerTruthful
  <2>2. CASE WriteAcceptance
    <3>1. inExt = Grounded(Arg, attacks) /\ ~searching
      BY <2>2, SearchedIsGrounded DEF WriteAcceptance, Ready
    <3>2. grExt \in Seq(Arg) /\ {grExt[k] : k \in DOMAIN grExt} = inExt
      BY DEF SearchInv, WorkListOK
    <3>3. grExt = << >> => inExt = {}
      BY <3>2
    <3>4. grExt # << >> => grExt[1] \in inExt
      <4>1. grExt # << >> => 1 \in DOMAIN grExt
        BY <3>2
      <4> QED BY <3>2, <4>1
    <3>5. answer' = Membership /\ UNCHANGED <<attacks, searching, query>>
      BY <2>2 DEF WriteAcceptance, graphVars, workList
    <3> QED BY <3>1, <3>3, <3>4, <3>5 DEF AnswerInv, AnswerTruthful, Membership
  <2>3. CASE \/ WriteGrounded \/ StartTriathlon \/ EnumerateMss
             \/ MssesDone \/ AskRange \/ EndTriathlon
    BY <2>3 DEF WriteGrounded, StartTriathlon, EnumerateMss, MssesDone, AskRange,
       EndTriathlon, graphVars, workList, AnswerInv, AnswerTruthful
  <2>4. CASE UNCHANGED solverVars
    BY <2>4 DEF solverVars, graphVars, workList, call, AnswerInv, AnswerTruthful
  <2> QED BY <2>1, <2>2, <2>3, <2>4 DEF SolverNext
<1>3. SolverSpec => []SearchInv
  BY SolverSearches, SearchInvariant, PTL
<1>4. AnswerInv => AnswerTruthful
  BY DEF AnswerInv
<1> QED BY <1>1, <1>2, <1>3, <1>4, PTL DEF SolverSpec

\* The triathlon finds the stable extensions by asking isMaxRange of each
\* preferred one: none is missed, and none is added.
THEOREM StableAmongPreferred ==
  ASSUME attacks \in SUBSET (Arg \X Arg)
  PROVE  Stable(Arg, attacks) = {S \in Preferred(Arg, attacks) : IsMaxRange(S)}
<1>1. ASSUME NEW S \in Stable(Arg, attacks)
      PROVE  S \in Preferred(Arg, attacks) /\ IsMaxRange(S)
  <2>1. /\ S \in SUBSET Arg /\ ConflictFree(attacks, S)
        /\ \A x \in Arg \ S : \E y \in S : <<y, x>> \in attacks
    BY <1>1 DEF Stable, Attacked
  <2>2. S \subseteq Defended(Arg, attacks, S)
    BY <2>1 DEF Defended, Attacked, ConflictFree
  <2>3. ASSUME NEW x \in Defended(Arg, attacks, S), x \notin S PROVE FALSE
    <3>1. x \in Arg
      BY <2>3 DEF Defended
    <3>2. PICK y \in S : <<y, x>> \in attacks
      BY <2>1, <2>3, <3>1
    <3>3. PICK z \in S : <<z, y>> \in attacks
      BY <2>1, <2>3, <3>2 DEF Defended, Attacked
    <3> QED BY <2>1, <3>2, <3>3 DEF ConflictFree
  <2>4. S \in Complete(Arg, attacks)
    BY <2>1, <2>2, <2>3 DEF Complete
  <2>5. ASSUME NEW T \in Complete(Arg, attacks), S \subseteq T, NEW x \in T PROVE x \in S
    <3>1. T \subseteq Arg /\ ConflictFree(attacks, T)
      BY DEF Complete
    <3> QED BY <2>1, <2>5, <3>1 DEF ConflictFree
  <2>6. S \in Preferred(Arg, attacks)
    BY <2>4, <2>5 DEF Preferred
  <2> QED BY <2>1, <2>6 DEF IsMaxRange
<1>2. ASSUME NEW S \in Preferred(Arg, attacks), IsMaxRange(S)
      PROVE  S \in Stable(Arg, attacks)
  BY <1>2 DEF Preferred, Complete, Stable, Attacked, IsMaxRange
<1> QED BY <1>1, <1>2

----------------------------------------------------------------------------
(* What is written *)

\* A list of one element, and a list with one more.
LEMMA ListsOne ==
  ASSUME NEW x
  PROVE  Lists(<<x>>, {x})
<1>1. DOMAIN <<x>> = {1} /\ <<x>>[1] = x
  OBVIOUS
<1> QED BY <1>1 DEF Lists

\* A list with a new element lists the set with that element.
LEMMA ListsAppend ==
  ASSUME NEW U, NEW s \in Seq(U), NEW sets, Lists(s, sets), NEW x \in U, x \notin sets
  PROVE  /\ Append(s, x) \in Seq(U)
         /\ Lists(Append(s, x), sets \cup {x})
<1> DEFINE t == Append(s, x)
<1>1. /\ t \in Seq(U) /\ Len(s) \in Nat /\ DOMAIN s = 1..Len(s)
      /\ DOMAIN t = 1..(Len(s) + 1)
      /\ \A k \in 1..Len(s) : t[k] = s[k]
      /\ t[Len(s) + 1] = x
  OBVIOUS
<1> HIDE DEF t
<1>2. DOMAIN t = DOMAIN s \cup {Len(s) + 1} /\ Len(s) + 1 \notin DOMAIN s
  BY <1>1
<1>3. \A k \in DOMAIN s : t[k] = s[k] /\ s[k] \in sets
  BY <1>1 DEF Lists
<1>4. {t[k] : k \in DOMAIN t} = sets \cup {x}
  BY <1>1, <1>2, <1>3 DEF Lists
<1>5. ASSUME NEW j \in DOMAIN t, NEW k \in DOMAIN t, t[j] = t[k] PROVE j = k
  BY <1>1, <1>2, <1>3, <1>5 DEF Lists
<1> QED BY <1>1, <1>4, <1>5 DEF Lists, t

\* The list of the maximal sets holds preferred extensions, each once.
MssList ==
  /\ allMss \in Seq(SUBSET Arg)
  /\ Lists(allMss, Elements(allMss))
  /\ Elements(allMss) \subseteq Preferred(Arg, attacks)

\* Those of the first n that isMaxRange accepts.
Sieved(n) == {S \in {allMss[k] : k \in 1..n} : IsMaxRange(S)}

RangesAsked ==
  /\ asked \in 0..Len(allMss)
  /\ stExts \in Seq(SUBSET Arg)
  /\ Lists(stExts, Sieved(asked))

\* What holds between two steps of a task.
StageInv ==
  /\ stage # "grounded" => ~searching
  /\ stage \in {"msses", "ranges"} =>
       /\ task = "D3"
       /\ Lists(written["grounded"], {Grounded(Arg, attacks)})
  /\ stage = "ranges" => NewMsses = {}
  /\ DOMAIN written = Headings

WrittenInv == MssList /\ RangesAsked /\ StageInv /\ WrittenCorrect

\* Nothing is written before the search.
LEMMA WrittenInvInit ==
  ASSUME SolverInit
  PROVE  WrittenInv
<1>1. /\ allMss = << >> /\ asked = 0 /\ stExts = << >> /\ stage = "grounded"
      /\ written = Nothing
  BY DEF SolverInit
<1>2. Elements(allMss) = {} /\ Lists(allMss, {}) /\ allMss \in Seq(SUBSET Arg)
  BY <1>1 DEF Elements, Lists
<1>3. Sieved(asked) = {} /\ Lists(stExts, {}) /\ stExts \in Seq(SUBSET Arg)
  BY <1>1 DEF Sieved, Lists
<1>4. asked \in 0..Len(allMss)
  BY <1>1
<1> QED BY <1>1, <1>2, <1>3, <1>4
    DEF WrittenInv, MssList, RangesAsked, StageInv, WrittenCorrect, Nothing

\* The sets that pass are the stable extensions once all have been asked.
LEMMA SievedAreStable ==
  ASSUME SearchInv, MssList, NewMsses = {}
  PROVE  /\ Lists(allMss, Preferred(Arg, attacks))
         /\ Sieved(Len(allMss)) = Stable(Arg, attacks)
<1>1. Elements(allMss) = Preferred(Arg, attacks)
  BY DEF NewMsses, MssList, Elements
<1>2. {allMss[k] : k \in 1..Len(allMss)} = Elements(allMss)
  BY DEF MssList, Elements
<1>3. attacks \in SUBSET (Arg \X Arg)
  BY DEF SearchInv, WorkListOK
<1> QED BY <1>1, <1>2, <1>3, StableAmongPreferred DEF MssList, Sieved

\* The other steps leave the two lists alone.
LEMMA ListsUnmoved ==
  ASSUME MssList, RangesAsked, UNCHANGED <<attacks, allMss, asked, stExts>>
  PROVE  MssList' /\ RangesAsked'
<1>1. Elements(allMss)' = Elements(allMss)
  BY DEF Elements
<1>2. Preferred(Arg, attacks)' = Preferred(Arg, attacks)
  BY DEF Preferred
<1>3. MssList'
  BY <1>1, <1>2 DEF MssList, Lists
<1>4. Sieved(asked)' = Sieved(asked)
  <2>1. \A S : IsMaxRange(S)' <=> IsMaxRange(S)
    BY DEF IsMaxRange
  <2> QED BY <2>1 DEF Sieved
<1> QED BY <1>3, <1>4 DEF RangesAsked, Lists

\* Every step of the two users keeps what is known of what they write.
LEMMA WrittenInvKept ==
  ASSUME SearchInv, WrittenInv, [SolverNext]_solverVars
  PROVE  WrittenInv'
<1>1. CASE Grounding
  <2>1. searching /\ attacks' = attacks
        /\ UNCHANGED <<task, stage, allMss, asked, stExts, written>>
    BY <1>1 DEF Grounding, call, triathlon, SearchStep, Defeat, Accept, TakeOut, Skip,
       NextRound, EndSearch, InRound, RoundOver
  <2>2. stage = "grounded"
    BY <2>1 DEF WrittenInv, StageInv
  <2>3. MssList' /\ RangesAsked'
    BY <2>1, ListsUnmoved DEF WrittenInv
  <2>4. DOMAIN written' = Headings
    BY <2>1 DEF WrittenInv, StageInv
  <2> QED BY <2>1, <2>2, <2>3, <2>4 DEF WrittenInv, StageInv, WrittenCorrect
<1>2. CASE WriteGrounded
  <2>1. /\ ~searching /\ task \in {"SE", "EE"} /\ stage' = "returned"
        /\ written' = [written EXCEPT !["extensions"] = <<inExt>>]
        /\ UNCHANGED <<attacks, searching, task, allMss, asked, stExts>>
    BY <1>2 DEF WriteGrounded, Ready, graphVars, workList, triathlon
  <2>2. inExt = Grounded(Arg, attacks)
    BY <2>1, SearchedIsGrounded
  <2>3. MssList' /\ RangesAsked'
    BY <2>1, ListsUnmoved DEF WrittenInv
  <2>4. DOMAIN written' = Headings /\ written'["extensions"] = <<inExt>>
    BY <2>1 DEF WrittenInv, StageInv, Headings
  <2>5. Lists(written'["extensions"], {Grounded(Arg, attacks)})
    BY <2>2, <2>4, ListsOne
  <2> QED BY <2>1, <2>3, <2>4, <2>5 DEF WrittenInv, StageInv, WrittenCorrect, Lists
<1>3. CASE WriteAcceptance
  <2>1. /\ ~searching /\ task \in {"DC", "DS"} /\ stage' = "returned"
        /\ UNCHANGED <<attacks, searching, task, allMss, asked, stExts, written>>
    BY <1>3 DEF WriteAcceptance, Ready, graphVars, workList, triathlon
  <2>2. MssList' /\ RangesAsked'
    BY <2>1, ListsUnmoved DEF WrittenInv
  <2> QED BY <2>1, <2>2 DEF WrittenInv, StageInv, WrittenCorrect
<1>4. CASE StartTriathlon
  <2>1. /\ ~searching /\ task = "D3" /\ stage' = "msses"
        /\ written' = [written EXCEPT !["grounded"] = <<inExt>>]
        /\ UNCHANGED <<attacks, searching, task, allMss, asked, stExts>>
    BY <1>4 DEF StartTriathlon, Ready, graphVars, workList, triathlon
  <2>2. inExt = Grounded(Arg, attacks)
    BY <2>1, SearchedIsGrounded
  <2>3. MssList' /\ RangesAsked'
    BY <2>1, ListsUnmoved DEF WrittenInv
  <2>4. DOMAIN written' = Headings /\ written'["grounded"] = <<inExt>>
    BY <2>1 DEF WrittenInv, StageInv, Headings
  <2>5. Lists(written'["grounded"], {Grounded(Arg, attacks)})
    BY <2>2, <2>4, ListsOne
  <2> QED BY <2>1, <2>3, <2>4, <2>5 DEF WrittenInv, StageInv, WrittenCorrect, Lists
<1>5. CASE EnumerateMss
  <2>1. /\ stage = "msses"
        /\ UNCHANGED <<attacks, searching, task, stage, asked, stExts, written>>
    BY <1>5 DEF EnumerateMss, graphVars, workList
  <2>2. PICK S \in NewMsses : allMss' = Append(allMss, S)
    BY <1>5 DEF EnumerateMss
  <2>3. S \in Preferred(Arg, attacks) /\ S \notin Elements(allMss) /\ S \in SUBSET Arg
    BY <2>2 DEF NewMsses, Elements, Preferred, Complete
  <2>4. allMss \in Seq(SUBSET Arg) /\ Lists(allMss, Elements(allMss))
    BY DEF WrittenInv, MssList
  <2>5. /\ allMss' \in Seq(SUBSET Arg)
        /\ Lists(allMss', Elements(allMss) \cup {S})
    BY <2>2, <2>3, <2>4, ListsAppend
  <2>6. Elements(allMss') = Elements(allMss) \cup {S}
    BY <2>5 DEF Lists, Elements
  <2>7. MssList'
    BY <2>1, <2>3, <2>5, <2>6 DEF WrittenInv, MssList, Elements
  <2>8. /\ asked \in 0..Len(allMss) /\ Len(allMss) \in Nat
        /\ Len(allMss') = Len(allMss) + 1
        /\ \A k \in 1..Len(allMss) : allMss'[k] = allMss[k]
    BY <2>2, <2>3, <2>4 DEF WrittenInv, RangesAsked
  <2>9. asked' \in 0..Len(allMss') /\ 1..asked \subseteq 1..Len(allMss)
    BY <2>1, <2>8
  <2>10. Sieved(asked)' = Sieved(asked)
    BY <2>1, <2>8, <2>9 DEF Sieved, IsMaxRange
  <2>11. RangesAsked'
    BY <2>1, <2>9, <2>10 DEF WrittenInv, RangesAsked, Lists
  <2> QED BY <2>1, <2>7, <2>11 DEF WrittenInv, StageInv, WrittenCorrect, Lists
<1>6. CASE MssesDone
  <2>1. /\ stage = "msses" /\ NewMsses = {} /\ stage' = "ranges"
        /\ UNCHANGED <<attacks, searching, task, allMss, asked, stExts, written>>
    BY <1>6 DEF MssesDone, graphVars, workList, triathlon
  <2>2. MssList' /\ RangesAsked'
    BY <2>1, ListsUnmoved DEF WrittenInv
  <2>3. NewMsses' = {}
    BY <2>1 DEF NewMsses
  <2> QED BY <2>1, <2>2, <2>3 DEF WrittenInv, StageInv, WrittenCorrect, Lists
<1>7. CASE AskRange
  <2> DEFINE S == allMss[asked + 1]
  <2>1. /\ stage = "ranges" /\ asked < Len(allMss) /\ asked' = asked + 1
        /\ stExts' = IF IsMaxRange(S) THEN Append(stExts, S) ELSE stExts
        /\ UNCHANGED <<attacks, searching, task, stage, allMss, written>>
    BY <1>7 DEF AskRange, graphVars, workList
  <2>2. /\ asked \in 0..Len(allMss) /\ Len(allMss) \in Nat
        /\ allMss \in Seq(SUBSET Arg) /\ DOMAIN allMss = 1..Len(allMss)
        /\ stExts \in Seq(SUBSET Arg) /\ Lists(stExts, Sieved(asked))
    BY DEF WrittenInv, MssList, RangesAsked
  <2>3. /\ asked + 1 \in 1..Len(allMss) /\ asked + 1 \notin 1..asked
        /\ 1..(asked + 1) = (1..asked) \cup {asked + 1}
        /\ 1..asked \subseteq DOMAIN allMss
    BY <2>1, <2>2
  <2>4. S \in SUBSET Arg
    BY <2>2, <2>3
  <2>5. S \notin Sieved(asked)
    <3>1. \A k \in 1..asked : allMss[k] # S
      BY <2>2, <2>3 DEF WrittenInv, MssList, Lists
    <3> QED BY <3>1 DEF Sieved
  <2>6. {allMss[k] : k \in 1..(asked + 1)} = {allMss[k] : k \in 1..asked} \cup {S}
    BY <2>3
  <2>7. Sieved(asked + 1) = IF IsMaxRange(S) THEN Sieved(asked) \cup {S} ELSE Sieved(asked)
    <3> HIDE DEF S
    <3> QED BY <2>6 DEF Sieved
  <2>8. stExts' \in Seq(SUBSET Arg) /\ Lists(stExts', Sieved(asked + 1))
    <3> HIDE DEF S
    <3> QED BY <2>1, <2>2, <2>4, <2>5, <2>7, ListsAppend
  <2>9. Sieved(asked)' = Sieved(asked + 1)
    BY <2>1 DEF Sieved, IsMaxRange
  <2>10. RangesAsked'
    BY <2>1, <2>2, <2>3, <2>8, <2>9, SMTT(20) DEF RangesAsked, Lists
  <2>11. MssList'
    BY <2>1 DEF WrittenInv, MssList, Lists, Elements
  <2>12. NewMsses' = NewMsses
    BY <2>1 DEF NewMsses
  <2> QED BY <2>1, <2>10, <2>11, <2>12 DEF WrittenInv, StageInv, WrittenCorrect, Lists
<1>8. CASE EndTriathlon
  <2>1. /\ stage = "ranges" /\ asked = Len(allMss) /\ stage' = "returned"
        /\ written' = [written EXCEPT !["stable"] = stExts, !["preferred"] = allMss]
        /\ UNCHANGED <<attacks, searching, task, allMss, asked, stExts>>
    BY <1>8 DEF EndTriathlon, graphVars, workList, triathlon
  <2>2. /\ task = "D3" /\ NewMsses = {} /\ ~searching /\ DOMAIN written = Headings
        /\ Lists(written["grounded"], {Grounded(Arg, attacks)})
    BY <2>1 DEF WrittenInv, StageInv
  <2>3. /\ Lists(allMss, Preferred(Arg, attacks))
        /\ Lists(stExts, Stable(Arg, attacks))
    BY <2>1, <2>2, SievedAreStable DEF WrittenInv, RangesAsked
  <2>4. /\ written'["stable"] = stExts /\ written'["preferred"] = allMss
        /\ written'["grounded"] = written["grounded"] /\ DOMAIN written' = Headings
    BY <2>1, <2>2 DEF Headings
  <2>5. MssList' /\ RangesAsked'
    BY <2>1, ListsUnmoved DEF WrittenInv
  <2>6. WrittenCorrect'
    <3>1. /\ Lists(written'["grounded"], {Grounded(Arg, attacks)})
          /\ Lists(written'["stable"], Stable(Arg, attacks))
          /\ Lists(written'["preferred"], Preferred(Arg, attacks))
      BY <2>2, <2>3, <2>4
    <3> QED BY <2>1, <2>2, <3>1 DEF WrittenCorrect, Lists
  <2> QED BY <2>1, <2>2, <2>4, <2>5, <2>6 DEF WrittenInv, StageInv
<1>9. CASE UNCHANGED solverVars
  <2>1. UNCHANGED <<attacks, searching, task, stage, allMss, asked, stExts, written>>
    BY <1>9 DEF solverVars, graphVars, workList, call, triathlon
  <2>2. MssList' /\ RangesAsked'
    BY <2>1, ListsUnmoved DEF WrittenInv
  <2>3. NewMsses' = NewMsses
    BY <2>1 DEF NewMsses
  <2> QED BY <2>1, <2>2, <2>3 DEF WrittenInv, StageInv, WrittenCorrect, Lists
<1> QED BY <1>1, <1>2, <1>3, <1>4, <1>5, <1>6, <1>7, <1>8, <1>9 DEF SolverNext

\* A task of the graph-based solver writes the grounded extension, and the
\* triathlon the grounded, the stable and the preferred ones, each once.
THEOREM WhatIsWritten == SolverSpec => []WrittenCorrect
<1>1. SolverInit => WrittenInv
  BY WrittenInvInit
<1>2. SearchInv /\ WrittenInv /\ [SolverNext]_solverVars => WrittenInv'
  BY WrittenInvKept
<1>3. SolverSpec => []SearchInv
  BY SolverSearches, SearchInvariant, PTL
<1>4. WrittenInv => WrittenCorrect
  BY DEF WrittenInv
<1> QED BY <1>1, <1>2, <1>3, <1>4, PTL DEF SolverSpec
=============================================================================
