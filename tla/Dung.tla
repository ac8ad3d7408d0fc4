-------------------------------- MODULE Dung --------------------------------
(***************************************************************************)
(* The semantics of abstract argumentation that the command line names     *)
(* (CommandLineHelper::printProblems), by their definitions: a framework   *)
(* is a set A of arguments and a set R of attacks.                         *)
(***************************************************************************)

ConflictFree(R, S) == \A x, y \in S : <<x, y>> \notin R

\* S attacks x
Attacked(R, S, x) == \E y \in S : <<y, x>> \in R

Defended(A, R, S) ==
  {x \in A : \A y \in A : <<y, x>> \in R => Attacked(R, S, y)}

Complete(A, R) ==
  {S \in SUBSET A : ConflictFree(R, S) /\ S = Defended(A, R, S)}

\* The least complete extension.
Grounded(A, R) ==
  CHOOSE S \in Complete(A, R) : \A T \in Complete(A, R) : S \subseteq T

Stable(A, R) ==
  {S \in SUBSET A : ConflictFree(R, S) /\ \A x \in A \ S : Attacked(R, S, x)}

Preferred(A, R) ==
  {S \in Complete(A, R) : \A T \in Complete(A, R) : S \subseteq T => S = T}

\* S and what it attacks
RangeOf(A, R, S) == S \cup {x \in A : Attacked(R, S, x)}

MaxRange(A, R, Sets) ==
  {S \in Sets : \A T \in Sets :
     RangeOf(A, R, S) \subseteq RangeOf(A, R, T) => RangeOf(A, R, S) = RangeOf(A, R, T)}

SemiStable(A, R) == MaxRange(A, R, Complete(A, R))

Stage(A, R) == MaxRange(A, R, {S \in SUBSET A : ConflictFree(R, S)})

Admissible(A, R) ==
  {S \in SUBSET A : ConflictFree(R, S) /\ S \subseteq Defended(A, R, S)}

\* The largest admissible set inside every preferred extension.
Ideal(A, R) ==
  LET inside == {S \in Admissible(A, R) : \A P \in Preferred(A, R) : S \subseteq P}
  IN  CHOOSE S \in inside : \A T \in inside : T \subseteq S
=============================================================================
