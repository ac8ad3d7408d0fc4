---------------------------- MODULE DynFramework ----------------------------
(***************************************************************************)
(* What a dynamic task promises, without any encoding: a framework to      *)
(* which a list of changes is applied one at a time, and a question asked  *)
(* of the initial framework and again after each change.                   *)
(***************************************************************************)
EXTENDS Naturals, Sequences

CONSTANT Arg            \* the arguments

VARIABLES
  framework,    \* the attacks now present
  pending,      \* the changes still to be applied
  due,          \* the present framework has not been asked yet
  asked         \* the frameworks the question was asked of, in order

vars == <<framework, pending, due, asked>>

Attack == Arg \X Arg
Update == [add : BOOLEAN, attack : Attack]

Init ==
  /\ framework \in SUBSET Attack
  /\ pending \in Seq(Update)
  /\ due = TRUE
  /\ asked = << >>

Apply(fw, u) == IF u.add THEN fw \cup {u.attack} ELSE fw \ {u.attack}

Ask ==
  /\ due
  /\ asked' = Append(asked, framework)
  /\ due' = FALSE
  /\ UNCHANGED <<framework, pending>>

ApplyNext ==
  /\ ~due
  /\ pending # << >>
  /\ framework' = Apply(framework, Head(pending))
  /\ pending' = Tail(pending)
  /\ due' = TRUE
  /\ UNCHANGED asked

Next == Ask \/ ApplyNext

Spec == Init /\ [][Next]_vars
FairSpec == Spec /\ WF_vars(Next)
=============================================================================
