------------------------- MODULE MssEnumerator_proofs -------------------------
(* Proofs about the enumeration of the maximal satisfiable sets, for any      *)
(* soft clauses, any profiles and any number of sets asked for.               *)
EXTENDS MssEnumerator, SequenceTheorems, TLAPS

----------------------------------------------------------------------------
(* The inductive invariant *)

\* The soft clauses outside the k-th set reported.
Out(k) == Softs \ emitted[k]

\* What is blocked is what was reported; what is counted is what is blocked.
Bookkeeping ==
  /\ \A S \in profiles : settled \subseteq S
  /\ pc \in {"solve", "search"} =>
       /\ blocked = {Out(k) : k \in 1..Len(emitted)}
       /\ nbCoMSS = Len(emitted)
       /\ ~mustStopEnum
       /\ max = 0 \/ Len(emitted) < max
  /\ pc = "block" =>
       /\ nbCoMSS + 1 = Len(emitted)
       /\ blocked = {Out(k) : k \in 1..nbCoMSS}
       /\ coMss = Out(Len(emitted))
       /\ max = 0 \/ Len(emitted) <= max

\* The state of a search: an open model extends what is settled so far, and no
\* open model that extends it satisfies a soft clause of the coMSS.
Searching ==
  pc = "search" =>
    /\ model \in Open
    /\ mss \subseteq model
    /\ \A S \in Open : mss \subseteq S => S \cap coMss = {}

IInv == TypeOK /\ Bookkeeping /\ Searching /\ ModelFits /\ MssesExact

----------------------------------------------------------------------------
(* Lemmas *)

\* A sequence with one element more.
LEMMA Longer ==
  ASSUME NEW S, NEW s \in Seq(S), NEW x \in S
  PROVE  /\ Append(s, x) \in Seq(S)
         /\ Len(s) \in Nat /\ Len(Append(s, x)) = Len(s) + 1
         /\ DOMAIN s = 1..Len(s) /\ DOMAIN Append(s, x) = 1..(Len(s) + 1)
         /\ \A k \in 1..Len(s) : Append(s, x)[k] = s[k]
         /\ Append(s, x)[Len(s) + 1] = x
<1>1. /\ Append(s, x) \in Seq(S)
      /\ Len(Append(s, x)) = Len(s) + 1
      /\ \A k \in 1..Len(s) : Append(s, x)[k] = s[k]
      /\ Append(s, x)[Len(s) + 1] = x
  BY AppendProperties
<1> QED BY <1>1, LenProperties

\* A search that ends has found the profile of its model.
LEMMA SearchFinds ==
  ASSUME TypeOK, Bookkeeping, Searching, pc = "search", unknown = {}
  PROVE  /\ model = Softs \ coMss
         /\ IsMss(model)
         /\ model \notin Range(emitted)
<1>1. /\ model \in profiles /\ model \subseteq Softs
      /\ \A B \in blocked : model \cap B # {}
  BY DEF Searching, Open, TypeOK
<1>2. model = Softs \ coMss
  <2>1. mss \cup coMss = Softs \ settled /\ settled \subseteq model /\ coMss \cap settled = {}
    BY <1>1 DEF TypeOK, Bookkeeping, Selectors
  <2>2. mss \subseteq model /\ model \cap coMss = {}
    BY DEF Searching
  <2> QED BY <1>1, <2>1, <2>2
<1>3. /\ emitted \in Seq(SUBSET Softs) /\ DOMAIN emitted = 1..Len(emitted)
      /\ \A k \in 1..Len(emitted) : model \cap (Softs \ emitted[k]) # {}
  <2>1. \A k \in 1..Len(emitted) : Out(k) \in blocked
    BY DEF Bookkeeping
  <2> QED BY <1>1, <2>1, LenProperties DEF Out, TypeOK
<1>4. ASSUME NEW S \in profiles, model \subseteq S PROVE S = model
  <2>1. S \subseteq Softs
    BY DEF TypeOK
  <2>2. S \in Open
    <3>1. ASSUME NEW B \in blocked PROVE S \cap B # {}
      BY <1>1, <1>4
    <3> QED BY <3>1 DEF Open
  <2>3. S \cap coMss = {}
    BY <1>4, <2>2 DEF Searching
  <2> QED BY <1>2, <1>4, <2>1, <2>3
<1>5. model \notin Range(emitted)
  BY <1>3 DEF Range
<1> QED BY <1>1, <1>2, <1>4, <1>5 DEF IsMss

\* When nothing is open, or when all the soft clauses fit, every maximal set
\* has been reported.
LEMMA NothingLeft ==
  ASSUME IInv
  PROVE  /\ pc = "solve" /\ Open = {} =>
              \A M \in profiles : IsMss(M) => M \in Range(emitted)
         /\ pc = "block" /\ coMss = {} =>
              \A M \in profiles : IsMss(M) => M \in Range(emitted)
<1>1. /\ DOMAIN emitted = 1..Len(emitted) /\ Len(emitted) \in Nat
      /\ \A k \in 1..Len(emitted) : emitted[k] \subseteq Softs /\ IsMss(emitted[k])
  <2>1. emitted \in Seq(SUBSET Softs) /\ \A k \in DOMAIN emitted : IsMss(emitted[k])
    BY DEF IInv, TypeOK, MssesExact
  <2> QED BY <2>1, LenProperties, ElementOfSeq
<1>2. ASSUME NEW M \in profiles, IsMss(M), NEW k \in 1..Len(emitted),
             M \cap Out(k) = {}
      PROVE  M \in Range(emitted)
  <2>1. M \subseteq emitted[k]
    BY <1>2 DEF Out, IInv, TypeOK
  <2>2. emitted[k] = M
    BY <1>1, <1>2, <2>1 DEF IsMss
  <2> QED BY <1>1, <2>2 DEF Range
<1>3. ASSUME pc = "solve", Open = {}, NEW M \in profiles, IsMss(M)
      PROVE  M \in Range(emitted)
  <2>1. PICK B \in blocked : M \cap B = {}
    BY <1>3 DEF Open
  <2>2. PICK k \in 1..Len(emitted) : B = Out(k)
    BY <1>3 DEF IInv, Bookkeeping
  <2> QED BY <1>2, <1>3, <2>1, <2>2
<1>4. ASSUME pc = "block", coMss = {}, NEW M \in profiles, IsMss(M)
      PROVE  M \in Range(emitted)
  <2>1. Len(emitted) \in 1..Len(emitted) /\ Out(Len(emitted)) = {}
    <3>1. nbCoMSS \in Nat /\ nbCoMSS + 1 = Len(emitted)
      BY <1>4 DEF IInv, Bookkeeping, TypeOK
    <3> QED BY <1>1, <1>4, <3>1 DEF IInv, Bookkeeping
  <2> QED BY <1>2, <1>4, <2>1
<1> QED BY <1>3, <1>4

----------------------------------------------------------------------------
(* Each step keeps the invariant *)

\* run starts with nothing emitted.
LEMMA InitIInv == Init => IInv
<1> SUFFICES ASSUME Init PROVE IInv
  OBVIOUS
<1>1. emitted = << >> /\ Len(emitted) = 0 /\ DOMAIN emitted = {} /\ pc = "solve"
  BY DEF Init
<1>2. max \in Nat
  BY MaxCountsAssumption DEF Init
<1>3. TypeOK
  <2>1. emitted \in Seq(SUBSET Softs)
    BY <1>1, EmptySeq
  <2>2. nbCoMSS \in Nat /\ mustStopEnum \in BOOLEAN
    BY DEF Init
  <2>3. profiles \subseteq SUBSET Softs /\ settled \subseteq Softs
    BY DEF Init
  <2> QED BY <1>1, <1>2, <2>1, <2>2, <2>3 DEF Init, TypeOK
<1>4. Bookkeeping
  BY <1>1, <1>2 DEF Init, Bookkeeping
<1>5. Searching /\ ModelFits
  BY <1>1 DEF Searching, ModelFits
<1>6. MssesExact
  BY <1>1 DEF MssesExact, IsInjective
<1> QED BY <1>3, <1>4, <1>5, <1>6 DEF IInv

\* What was reported keeps its meaning while nothing is reported.
LEMMA SameReport ==
  ASSUME MssesExact, UNCHANGED <<profiles, emitted>>, pc' # "done"
  PROVE  MssesExact'
BY DEF MssesExact, IsMss, IsInjective, Range

\* The solve call of a round keeps the invariant.
LEMMA StartRoundIInv ==
  ASSUME IInv, StartRound PROVE IInv'
<1> USE DEF StartRound, given, report
<1>1. TypeOK'
  BY DEF IInv, TypeOK, Selectors, Open
<1>2. Bookkeeping'
  BY DEF IInv, Bookkeeping, Out
<1>3. Searching' /\ ModelFits'
  BY DEF Searching, ModelFits, Open
<1>4. MssesExact'
  BY SameReport DEF IInv
<1> QED BY <1>1, <1>2, <1>3, <1>4 DEF IInv

\* The end of the enumeration keeps the invariant.
LEMMA NoneLeftIInv ==
  ASSUME IInv, NoneLeft PROVE IInv'
<1> USE DEF NoneLeft, given, search, report
<1>1. TypeOK'
  BY DEF IInv, TypeOK, Selectors
<1>2. Bookkeeping' /\ Searching' /\ ModelFits'
  BY DEF IInv, Bookkeeping, Searching, ModelFits
<1>3. MssesExact'
  BY NothingLeft DEF IInv, MssesExact, IsMss, IsInjective, Range
<1> QED BY <1>1, <1>2, <1>3 DEF IInv

\* A soft clause that can be satisfied too is added to the set.
LEMMA GrowIInv ==
  ASSUME IInv, Grow PROVE IInv'
<1> USE DEF Grow, given, report
<1>1. PICK l \in unknown, S \in profiles :
        /\ Fits(S, l)
        /\ mss' = mss \cup (S \cap unknown)
        /\ unknown' = unknown \ S
        /\ model' = S
  OBVIOUS
<1>2. S \in Open /\ mss \subseteq S /\ S \cap coMss = {}
  BY <1>1 DEF Fits
<1>3. TypeOK'
  <2>1. S \subseteq Softs
    BY DEF IInv, TypeOK
  <2> QED BY <1>1, <2>1 DEF IInv, TypeOK, Selectors
<1>4. Bookkeeping' /\ ModelFits'
  BY DEF IInv, Bookkeeping, ModelFits, Out
<1>5. Searching'
  <2>1. Open' = Open
    BY DEF Open
  <2>2. mss' \subseteq S /\ mss \subseteq mss'
    BY <1>1, <1>2
  <2> QED BY <1>1, <1>2, <2>1, <2>2 DEF IInv, Searching
<1>6. MssesExact'
  BY SameReport DEF IInv
<1> QED BY <1>3, <1>4, <1>5, <1>6 DEF IInv

\* A soft clause that cannot be satisfied with the set is left out for good.
LEMMA RefuteIInv ==
  ASSUME IInv, Refute PROVE IInv'
<1> USE DEF Refute, given, report
<1>1. PICK l \in unknown :
        /\ \A S \in profiles : ~Fits(S, l)
        /\ coMss' = coMss \cup {l}
        /\ unknown' = unknown \ {l}
  OBVIOUS
<1>2. TypeOK'
  BY <1>1 DEF IInv, TypeOK, Selectors
<1>3. Bookkeeping' /\ ModelFits'
  BY DEF IInv, Bookkeeping, ModelFits, Out
<1>4. Searching'
  <2>1. Open' = Open /\ Open \subseteq profiles
    BY DEF Open
  <2>2. ASSUME NEW S \in Open, mss \subseteq S PROVE S \cap (coMss \cup {l}) = {}
    <3>1. S \cap coMss = {}
      BY <2>2 DEF IInv, Searching
    <3>2. l \notin S
      BY <1>1, <2>1, <2>2, <3>1 DEF Fits
    <3> QED BY <3>1, <3>2
  <2> QED BY <1>1, <2>1, <2>2 DEF IInv, Searching
<1>5. MssesExact'
  BY SameReport DEF IInv
<1> QED BY <1>2, <1>3, <1>4, <1>5 DEF IInv

\* The callback is given a set that is maximal and was not given before.
LEMMA ReportIInv ==
  ASSUME IInv, Report PROVE IInv'
<1> USE DEF Report, given, search
<1> DEFINE M == Softs \ coMss
<1>1. model = M /\ IsMss(M) /\ M \notin Range(emitted)
  BY SearchFinds DEF IInv
<1>2. /\ emitted' \in Seq(SUBSET Softs)
      /\ Len(emitted) \in Nat /\ Len(emitted') = Len(emitted) + 1
      /\ DOMAIN emitted = 1..Len(emitted) /\ DOMAIN emitted' = 1..(Len(emitted) + 1)
      /\ \A k \in 1..Len(emitted) : emitted'[k] = emitted[k]
      /\ emitted'[Len(emitted) + 1] = M
  <2>1. emitted \in Seq(SUBSET Softs) /\ M \in SUBSET Softs /\ emitted' = Append(emitted, M)
    BY DEF IInv, TypeOK
  <2> QED BY <2>1, Longer
<1>3. TypeOK'
  BY <1>2 DEF IInv, TypeOK, Selectors
<1>4. Bookkeeping'
  <2>1. nbCoMSS = Len(emitted) /\ (max = 0 \/ Len(emitted) < max) /\ max \in Nat
    BY DEF IInv, Bookkeeping, TypeOK
  <2>2. max' = 0 \/ Len(emitted') <= max'
    BY <1>2, <2>1
  <2>3. \A k \in 1..Len(emitted) : Out(k)' = Out(k)
    BY <1>2 DEF Out
  <2>4. blocked = {Out(k) : k \in 1..Len(emitted)}
    BY DEF IInv, Bookkeeping
  <2>5. blocked' = {Out(k)' : k \in 1..nbCoMSS'}
    BY <2>1, <2>3, <2>4
  <2>6. coMss' = Out(Len(emitted))'
    <3>1. coMss \subseteq Softs /\ emitted'[Len(emitted')] = Softs \ coMss
      BY <1>2 DEF IInv, TypeOK, Selectors
    <3> QED BY <3>1 DEF Out
  <2>7. \A S \in profiles' : settled' \subseteq S
    BY DEF IInv, Bookkeeping
  <2> QED BY <1>2, <2>1, <2>2, <2>5, <2>6, <2>7 DEF Bookkeeping
<1>5. Searching' /\ ModelFits'
  BY <1>1, <1>2 DEF Searching, ModelFits
<1>6. MssesExact'
  <2>1. \A k \in DOMAIN emitted' : IsMss(emitted'[k])
    BY <1>1, <1>2 DEF IInv, MssesExact
  <2>2. IsInjective(emitted')
    BY <1>1, <1>2 DEF IInv, MssesExact, IsInjective, Range
  <2> QED BY <2>1, <2>2 DEF MssesExact, IsMss
<1> QED BY <1>3, <1>4, <1>5, <1>6 DEF IInv

\* The end after a callback that asks to stop keeps the invariant.
LEMMA StopIInv ==
  ASSUME IInv, Stop PROVE IInv'
<1> USE DEF Stop, given, search, report
<1>1. TypeOK'
  BY DEF IInv, TypeOK, Selectors
<1>2. Bookkeeping' /\ Searching' /\ ModelFits'
  BY DEF IInv, Bookkeeping, Searching, ModelFits
<1>3. MssesExact'
  BY NothingLeft DEF IInv, MssesExact, IsMss, IsInjective, Range
<1> QED BY <1>1, <1>2, <1>3 DEF IInv

\* The blocking clause leaves out the subsets of the set alone.
LEMMA BlockDownIInv ==
  ASSUME IInv, BlockDown PROVE IInv'
<1> USE DEF BlockDown, given, search, report, LimitReached
<1>1. /\ nbCoMSS \in Nat /\ nbCoMSS' = nbCoMSS + 1 /\ nbCoMSS + 1 = Len(emitted)
      /\ max \in Nat /\ (max = 0 \/ Len(emitted) <= max)
      /\ blocked = {Out(k) : k \in 1..nbCoMSS} /\ coMss = Out(Len(emitted))
  BY DEF IInv, TypeOK, Bookkeeping
<1>2. TypeOK'
  BY <1>1 DEF IInv, TypeOK, Selectors, Blocked
<1>3. Bookkeeping'
  <2>1. \A k : Out(k)' = Out(k)
    BY DEF Out
  <2>2. 1..Len(emitted) = (1..nbCoMSS) \cup {Len(emitted)}
    BY <1>1
  <2>3. blocked' = {Out(k) : k \in 1..Len(emitted)}
    BY <1>1, <2>2 DEF Blocked
  <2>4. pc' = "solve" => max = 0 \/ Len(emitted) < max
    BY <1>1
  <2>5. blocked' = {Out(k)' : k \in 1..Len(emitted)}
    BY <2>1, <2>3
  <2> QED BY <1>1, <2>4, <2>5 DEF IInv, Bookkeeping
<1>4. Searching' /\ ModelFits'
  BY DEF Searching, ModelFits
<1>5. MssesExact'
  <2>1. pc' = "done" => max # 0 /\ ~(Len(emitted) < max)
    BY <1>1
  <2> QED BY <2>1 DEF IInv, MssesExact, IsMss, IsInjective, Range
<1> QED BY <1>2, <1>3, <1>4, <1>5 DEF IInv

\* Every step of the enumeration keeps the invariant.
LEMMA NextIInv == IInv /\ [Next]_vars => IInv'
<1> SUFFICES ASSUME IInv, [Next]_vars PROVE IInv'
  OBVIOUS
<1>1. CASE UNCHANGED vars
  <2>1. /\ UNCHANGED <<profiles, max, settled, blocked, unknown, mss, coMss, model>>
        /\ UNCHANGED <<emitted, mustStopEnum, nbCoMSS, pc>>
    BY <1>1 DEF vars, given, search, report
  <2> QED BY <2>1 DEF IInv, TypeOK, Selectors, Bookkeeping, Out, Searching, Open,
                      ModelFits, MssesExact, IsMss
<1> QED BY <1>1, StartRoundIInv, NoneLeftIInv, GrowIInv, RefuteIInv, ReportIInv,
           StopIInv, BlockDownIInv DEF Next

----------------------------------------------------------------------------
(* Theorems *)

\* The invariant holds of every state of the enumeration.
THEOREM Invariance == Spec => []IInv
BY InitIInv, NextIInv, PTL DEF Spec

\* For any soft clauses, the state of run and search keeps its types, and each
\* soft clause with a selector is in one of the three sets of a search.
THEOREM TypeCorrect == Spec => []TypeOK
<1>1. IInv => TypeOK
  BY DEF IInv
<1> QED BY <1>1, Invariance, PTL

\* For any profiles and limit, every set reported is maximal and reported once,
\* and none is missing when the enumeration ends by itself.
THEOREM MssesCorrect == Spec => []MssesExact
<1>1. IInv => MssesExact
  BY DEF IInv
<1> QED BY <1>1, Invariance, PTL

\* The model given with a set is one of the set, for any order of the calls.
THEOREM ModelCorrect == Spec => []ModelFits
<1>1. IInv => ModelFits
  BY DEF IInv
<1> QED BY <1>1, Invariance, PTL

\* Each step of the enumeration is a step of its promise, or none.
LEMMA StepKept ==
  ASSUME IInv, IInv', Next PROVE Promise!Next \/ UNCHANGED Promise!vars
<1> USE DEF Promise!vars, given, search, report
<1>1. Promise!New = {M \in profiles : IsMss(M)} \ Range(emitted)
  BY DEF Promise!New, Promise!IsMss, IsMss, Promise!Range, Range
<1>2. CASE Report
  <2>1. /\ model = Softs \ coMss /\ IsMss(model) /\ model \notin Range(emitted)
        /\ model \in profiles
    BY <1>2, SearchFinds DEF IInv, Report, IsMss
  <2>2. Softs \ coMss \in Promise!New
    BY <1>1, <2>1
  <2>3. ~Promise!Enough /\ ~mustStopEnum
    <3>1. max \in Nat /\ Len(emitted) \in Nat
      BY LenProperties DEF IInv, TypeOK
    <3> QED BY <1>2, <3>1 DEF Report, IInv, Bookkeeping, Promise!Enough
  <2> QED BY <1>2, <2>2, <2>3 DEF Report, Promise!Next, Promise!Emit
<1>3. CASE NoneLeft
  <2>1. Promise!New = {}
    BY <1>1, <1>3, NothingLeft DEF NoneLeft
  <2> QED BY <1>3, <2>1 DEF NoneLeft, Promise!Next, Promise!Finish
<1>4. CASE Stop
  <2>1. mustStopEnum \/ Promise!New = {}
    BY <1>1, <1>4, NothingLeft DEF Stop
  <2> QED BY <1>4, <2>1 DEF Stop, Promise!Next, Promise!Finish
<1>5. CASE BlockDown
  <2>1. pc' = "done" => Promise!Enough
    <3>1. nbCoMSS \in Nat /\ nbCoMSS + 1 = Len(emitted)
      BY <1>5 DEF BlockDown, IInv, TypeOK, Bookkeeping
    <3> QED BY <1>5, <3>1 DEF BlockDown, LimitReached, Promise!Enough
  <2> QED BY <1>5, <2>1 DEF BlockDown, Promise!Next, Promise!Finish
<1>6. CASE StartRound \/ Grow \/ Refute
  BY <1>6 DEF StartRound, Grow, Refute
<1> QED BY <1>2, <1>3, <1>4, <1>5, <1>6 DEF Next

\* Safety part of KeepsPromise: for any soft clauses, profiles and limit, what
\* run does with its callback is what MssPromise allows.
THEOREM PromiseKept == Spec => Promise!Init /\ [][Promise!Next]_(Promise!vars)
<1>1. Init => Promise!Init
  BY DEF Init, Promise!Init
<1>2. ASSUME IInv, IInv', [Next]_vars PROVE [Promise!Next]_(Promise!vars)
  <2>1. CASE UNCHANGED vars
    BY <2>1 DEF vars, given, report, Promise!vars
  <2> QED BY <1>2, <2>1, StepKept
<1> QED BY <1>1, <1>2, Invariance, PTL DEF Spec
=============================================================================
