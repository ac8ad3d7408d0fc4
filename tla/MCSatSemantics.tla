---------------------------- MODULE MCSatSemantics ----------------------------
(* SatSemantics over three arguments and changes of an attack and of a        *)
(* self-attack.  All the tasks, for every instance over the first two names   *)
(* and every list of at most two changes; the enumerations, for every         *)
(* instance over the three names (so that classes of several arguments, fixed *)
(* arguments and contradictions occur) and at most one change of the attack.  *)
EXTENDS SatSemantics, TLC

CONSTANTS a, b, c

MCOrder     == <<a, b, c>>
MCArg       == {a, b, c}
MCChanging  == {<<a, b>>, <<b, b>>}
MCSemantics == {"GR", "CO", "ST"}
MCTasks     == {"SE", "EE", "DC", "DS"}
MCNbVars    == 0..6

AttackChange(sign) ==
  [add |-> sign, from |-> a, to |-> b, wasPresent |-> <<a, b>> \in instance]

MCInit ==
  /\ \/ instance \in SUBSET ({a, b} \X {a, b}) /\ query \in {a, b}
     \/ /\ instance \in SUBSET (MCArg \X MCArg)
        /\ dynAttacks \in {<< >>, <<AttackChange(TRUE)>>, <<AttackChange(FALSE)>>}
        /\ task = "EE" /\ semantics \in {"CO", "ST"}
  /\ SolverInit

MCSpec == MCInit /\ [][SolverNext]_allVars
=============================================================================
