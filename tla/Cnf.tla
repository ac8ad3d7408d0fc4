--------------------------------- MODULE Cnf ---------------------------------
(***************************************************************************)
(* What the SAT back ends compute: unit propagation and models.  A literal *)
(* is a non-zero integer, a clause a set of literals, a formula a set of   *)
(* clauses, an assignment a set of literals.                               *)
(***************************************************************************)
EXTENDS Integers, FiniteSets

Literal == Int \ {0}

Neg(L) == {-l : l \in L}

\* What remains of F once the literals of L are true.
Simplify(F, L) ==
  LET false == Neg(L)
  IN  {c \ false : c \in {d \in F : d \cap L = {}}}

Units(F) == UNION {c \in F : Cardinality(c) = 1}

\* Everything propagation can reach from L, as long as it meets no conflict.
Propagate(F, L) ==
  LET reach[M \in SUBSET Literal] ==
        LET G == Simplify(F, M)
        IN  IF Units(G) = {} THEN M ELSE reach[M \cup Units(G)]
  IN  reach[L]

Conflict(F, L) == L \cap Neg(L) # {} \/ {} \in Simplify(F, L)

\* What a propagation that ends in a conflict may have on its trail is a part of
\* this: a literal and its negation may both have been on their way.
Reachable(F, L) ==
  LET reach[K \in SUBSET Literal] ==
        LET M == K \cup UNION {{l \in c : c \ {l} \subseteq Neg(K)} : c \in F}
        IN  IF M = K THEN K ELSE reach[M]
  IN  reach[L]

Satisfiable(F, L) ==
  LET sat[M \in SUBSET Literal] ==
        LET P == Propagate(F, M)
            G == Simplify(F, P)
            l == CHOOSE l \in UNION G : TRUE
        IN  /\ ~Conflict(F, P)
            /\ \/ G = {}
               \/ sat[P \cup {l}]
               \/ sat[P \cup {-l}]
  IN  sat[L]

\* The models of F under the assumptions A, restricted to the first n
\* variables: the sets of variables they make true.
Models(F, A, n) ==
  {T \in SUBSET (1..n) : Satisfiable(F, A \cup T \cup Neg((1..n) \ T))}

\* The models of F under the assumptions A over all of the first n variables.
FullModels(F, A, n) ==
  LET full[L \in SUBSET Literal] ==
        LET P    == Propagate(F, L)
            open == {v \in 1..n : v \notin P /\ -v \notin P}
            v    == CHOOSE v \in open : TRUE
        IN  IF Conflict(F, P) THEN {}
            ELSE IF open = {} THEN {P \cap (1..n)}
                 ELSE full[L \cup {v}] \cup full[L \cup {-v}]
  IN  full[A]
=============================================================================
