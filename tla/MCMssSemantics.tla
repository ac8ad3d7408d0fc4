---------------------------- MODULE MCMssSemantics ----------------------------
(* MssSemantics on two kinds of frameworks, with all its semantics.  Over two *)
(* arguments: every instance, every list of at most two changes of an attack  *)
(* and a self-attack, all the tasks.  Over four and one attack that changes   *)
(* (run ranges): instances around a pair of arguments that attack each other, *)
(* where the intersection of the preferred extensions need not be admissible  *)
(* and one range may belong to several extensions.                            *)
EXTENDS MssSemantics, TLC

CONSTANTS a, b, c, d

MCSemantics == {"PR", "ID", "SST", "STG"}

TwoOrder    == <<a, b>>
TwoArg      == {a, b}
TwoChanging == {<<a, b>>, <<b, b>>}
TwoTasks    == {"SE", "EE", "DC", "DS"}
TwoNbVars   == 0..4

FourOrder    == <<a, b, c, d>>
FourArg      == {a, b, c, d}
FourChanging == {<<c, d>>}
FourTasks    == {"EE", "DS"}
FourNbVars   == 0..8

Core     == {<<a, b>>, <<b, a>>}
Optional == {<<a, c>>, <<b, c>>, <<c, d>>, <<d, d>>}

FourInit ==
  /\ instance \in {Core \cup more : more \in SUBSET Optional}
  /\ SolverInit

FourSpec == FourInit /\ [][SolverNext]_allVars
=============================================================================
