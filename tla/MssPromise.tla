----------------------------- MODULE MssPromise -----------------------------
(***************************************************************************)
(* What an enumeration of the maximal satisfiable sets of soft clauses     *)
(* promises to the MSS back end: each of them once, in any order, until    *)
(* all are given, the callback asks to stop, or there are enough.          *)
(***************************************************************************)
EXTENDS Integers, Sequences, Functions

CONSTANTS
  Softs,        \* the soft clauses
  MaxCounts     \* the numbers of sets a caller asks for, 0 for all of them

VARIABLES
  profiles,     \* for each model of the hard clauses and of the assumptions,
                \* the set of soft clauses it satisfies
  max,
  emitted,      \* the sets given to the callback
  stopped,      \* the callback has asked to stop
  finished

vars == <<profiles, max, emitted, stopped, finished>>

IsMss(M) == M \in profiles /\ \A S \in profiles : M \subseteq S => S = M

New == {M \in profiles : IsMss(M)} \ Range(emitted)

Enough == max # 0 /\ Len(emitted) >= max

Init ==
  /\ profiles \in SUBSET (SUBSET Softs)
  /\ max \in MaxCounts
  /\ emitted = << >>
  /\ stopped = FALSE
  /\ finished = FALSE

Emit ==
  /\ ~finished /\ ~stopped /\ ~Enough
  /\ \E M \in New : emitted' = Append(emitted, M)
  /\ stopped' \in BOOLEAN
  /\ UNCHANGED <<profiles, max, finished>>

Finish ==
  /\ ~finished
  /\ stopped \/ Enough \/ New = {}
  /\ finished' = TRUE
  /\ UNCHANGED <<profiles, max, emitted, stopped>>

Next == Emit \/ Finish

Spec == Init /\ [][Next]_vars /\ WF_vars(Next)
=============================================================================
