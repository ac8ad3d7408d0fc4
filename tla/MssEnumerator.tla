---------------------------- MODULE MssEnumerator ----------------------------
(***************************************************************************)
(* CoMSSEnum::run with the constructive extractor, as the MSS back end     *)
(* configures it: no rotation, no cache, no approximation.  Each round     *)
(* starts from no soft clause, tries to add the others one by one, reports *)
(* the rest (a coMSS) and blocks it by a clause.                           *)
(*                                                                         *)
(* The SAT engine is abstracted to the profiles of its models.  A soft     *)
(* clause whose literals the backbone has marked false is moved without a  *)
(* call; as a call would fail, both are Refute.                            *)
(***************************************************************************)
EXTENDS Integers, Sequences, Functions

CONSTANTS
  Softs,        \* the soft clauses
  MaxCounts     \* the numbers of sets asked for, 0 for no limit (computeMss
                \* asks for 1, computeAllMss for INT32_MAX, which is none)

ASSUME MaxCountsAssumption == MaxCounts \subseteq Nat

VARIABLES
  profiles,     \* for each model of the hard clauses and of the assumptions,
                \* the set of soft clauses it satisfies
  max,          \* CoMSSEnum::max
  settled,      \* the soft clauses without selector: satisfied at level 0
  blocked,      \* the blocking clauses, as coMSSes
  unknown, mss, coMss,      \* the state of search
  model,        \* the profile of SatSolver::model
  emitted,      \* the sets given to the callback
  mustStopEnum, nbCoMSS,
  pc            \* "solve", "search", "block", "done"

search == <<unknown, mss, coMss, model>>
report == <<emitted, mustStopEnum>>
given  == <<profiles, max, settled>>
vars   == <<given, blocked, search, report, nbCoMSS, pc>>

Selectors == Softs \ settled

Init ==
  /\ profiles \in SUBSET (SUBSET Softs)
  /\ max \in MaxCounts
  /\ settled \in SUBSET {l \in Softs : \A S \in profiles : l \in S}
  /\ blocked = {}
  /\ unknown = {} /\ mss = {} /\ coMss = {} /\ model = {}
  /\ emitted = << >>
  /\ mustStopEnum = FALSE
  /\ nbCoMSS = 0
  /\ pc = "solve"

\* The models that the blocking clauses leave.
Open == {S \in profiles : \A B \in blocked : S \cap B # {}}

----------------------------------------------------------------------------
(* run: is there another coMSS? *)

StartRound ==
  /\ pc = "solve"
  /\ model' \in Open
  /\ unknown' = Selectors
  /\ mss' = {}
  /\ coMss' = {}
  /\ pc' = "search"
  /\ UNCHANGED <<given, blocked, report, nbCoMSS>>

NoneLeft ==
  /\ pc = "solve"
  /\ Open = {}
  /\ pc' = "done"
  /\ UNCHANGED <<given, blocked, search, report, nbCoMSS>>

----------------------------------------------------------------------------
(* ConstructCoMSSExtract4Enum::search, the soft clauses in any order *)

\* Mutant: the clauses satisfied so far are not assumed.
FitsAlone(S, l) == S \in Open /\ l \in S /\ S \cap coMss = {}

\* A model under the assumptions ls and prev_assums.
Fits(S, l) == S \in Open /\ mss \cup {l} \subseteq S /\ S \cap coMss = {}

\* shrinkUnknown: the MSS takes all that the model satisfies.
Grow ==
  /\ pc = "search"
  /\ \E l \in unknown : \E S \in profiles :
       /\ Fits(S, l)
       /\ mss' = mss \cup (S \cap unknown)
       /\ unknown' = unknown \ S
       /\ model' = S
  /\ UNCHANGED <<given, blocked, coMss, report, nbCoMSS, pc>>

\* Mutant: a call that fails clears the model.
RefuteClears ==
  /\ pc = "search"
  /\ \E l \in unknown :
       /\ \A S \in profiles : ~Fits(S, l)
       /\ coMss' = coMss \cup {l}
       /\ unknown' = unknown \ {l}
  /\ model' = {}
  /\ UNCHANGED <<given, blocked, mss, report, nbCoMSS, pc>>

Refute ==
  /\ pc = "search"
  /\ \E l \in unknown :
       /\ \A S \in profiles : ~Fits(S, l)
       /\ coMss' = coMss \cup {l}
       /\ unknown' = unknown \ {l}
  /\ UNCHANGED <<given, blocked, mss, model, report, nbCoMSS, pc>>

----------------------------------------------------------------------------
(* run: report the coMSS, block it *)

\* The back end gives its callback the other soft clauses.
Report ==
  /\ pc = "search"
  /\ unknown = {}
  /\ emitted' = Append(emitted, Softs \ coMss)
  /\ mustStopEnum' \in BOOLEAN
  /\ pc' = "block"
  /\ UNCHANGED <<given, blocked, search, nbCoMSS>>

\* blockDown; that the clause is empty, or a unit, makes no difference.
Blocked == blocked \cup {coMss}

Stop ==
  /\ pc = "block"
  /\ mustStopEnum \/ coMss = {}
  /\ pc' = "done"
  /\ UNCHANGED <<given, blocked, search, report, nbCoMSS>>

\* Mutant: the limit is tested before the set is counted.
OneTooLate == nbCoMSS = max

LimitReached == nbCoMSS' = max

BlockDown ==
  /\ pc = "block"
  /\ ~mustStopEnum /\ coMss # {}
  /\ blocked' = Blocked
  /\ nbCoMSS' = nbCoMSS + 1
  /\ pc' = IF LimitReached THEN "done" ELSE "solve"
  /\ UNCHANGED <<given, search, report>>

Next ==
  \/ StartRound
  \/ NoneLeft
  \/ Grow
  \/ Refute
  \/ Report
  \/ Stop
  \/ BlockDown

\* run is sequential and each of its calls of the engine returns.
Spec == Init /\ [][Next]_vars /\ WF_vars(Next)

----------------------------------------------------------------------------
\* The state of run and search: during a search each soft clause with a
\* selector is in one of the three sets.
TypeOK ==
  /\ profiles \subseteq SUBSET Softs
  /\ max \in Nat
  /\ settled \subseteq Softs
  /\ blocked \subseteq SUBSET Selectors
  /\ unknown \cup mss \cup coMss \subseteq Selectors
  /\ model \subseteq Softs
  /\ emitted \in Seq(SUBSET Softs)
  /\ mustStopEnum \in BOOLEAN
  /\ nbCoMSS \in Nat
  /\ pc \in {"solve", "search", "block", "done"}
  /\ pc = "search" => /\ unknown \cup mss \cup coMss = Selectors
                      /\ unknown \cap mss = {} /\ unknown \cap coMss = {}
                      /\ mss \cap coMss = {}

\* The model that the callback gets with a set satisfies exactly the soft
\* clauses of the set, although the last calls of the search fail.
ModelFits == pc = "block" => model = emitted[Len(emitted)]

IsMss(M) == M \in profiles /\ \A S \in profiles : M \subseteq S => S = M

\* Every set reported is maximal and reported once; when the enumeration ends
\* by itself, none is missing.
MssesExact ==
  /\ \A k \in DOMAIN emitted : IsMss(emitted[k])
  /\ IsInjective(emitted)
  /\ pc = "done" /\ ~mustStopEnum /\ (max = 0 \/ Len(emitted) < max) =>
       \A M \in profiles : IsMss(M) => M \in Range(emitted)

Promise == INSTANCE MssPromise WITH stopped <- mustStopEnum, finished <- (pc = "done")

\* The enumeration does what the MSS back end relies on, and ends.
KeepsPromise == Promise!Spec
=============================================================================
