-------------------------------- MODULE CnfDD --------------------------------
(***************************************************************************)
(* cnfdd.c: one thread, which changes the formula in place and changes it  *)
(* back when the command exits otherwise.                                  *)
(***************************************************************************)
EXTENDS DeltaDebugger

VARIABLE position
  \* <<i, 0>> in reduce(): this pass has seen i clauses; in shrink(), the place
  \* <<i, j>> of the last literal, <<1, 0>> before the first one

ddVars == <<debuggerVars, position>>

DdInit == DebuggerInit /\ position = <<0, 0>>

StartRound ==
  /\ phase = "round"
  /\ changed' = FALSE
  /\ width' = Len(clauses)
  /\ phase' = "reduce"
  /\ UNCHANGED <<options, formula, dst, answers, removed, position>>

----------------------------------------------------------------------------
(* reduce() *)

StartPass ==
  /\ phase = "reduce"
  /\ width > 0
  /\ removed' = 0
  /\ position' = <<0, 0>>
  /\ phase' = "reducing"
  /\ UNCHANGED <<options, formula, dst, answers, changed, width>>

\* The next clauses go, unless the command exits otherwise without them.
RemoveClauses ==
  /\ phase = "reducing"
  /\ position[1] < Len(clauses)
  /\ LET end   == Min({position[1] + width, Len(clauses)})
         range == (position[1] + 1)..end
         test  == [k \in DOMAIN clauses |-> IF k \in range THEN Removed ELSE clauses[k]]
     IN  /\ \E expected \in BOOLEAN :
              /\ RunsExpected(File(test, falsified, movedto), expected)
              /\ clauses' = IF expected THEN test ELSE clauses
              /\ removed' = IF expected THEN removed + Cardinality(range) ELSE removed
         /\ position' = <<end, 0>>
  /\ UNCHANGED <<options, falsified, movedto, dst, changed, phase, width>>

EndOfPass ==
  /\ phase = "reducing"
  /\ position[1] = Len(clauses)
  /\ EndPass
  /\ UNCHANGED position

EndReduce ==
  /\ phase = "reduce"
  /\ width = 0
  /\ phase' = "move"
  /\ UNCHANGED <<options, formula, dst, answers, changed, width, removed, position>>

----------------------------------------------------------------------------
(* shrink() *)

StartShrink ==
  /\ phase = "shrink"
  /\ removed' = 0
  /\ position' = <<1, 0>>
  /\ phase' = "shrinking"
  /\ UNCHANGED <<options, formula, dst, answers, changed, width>>

\* The places of the literals that are still to come.
Later ==
  {<<i, j>> \in UNION {{i} \X DOMAIN Source[clauses[i]] : i \in DOMAIN clauses} :
     /\ <<clauses[i], j>> \notin falsified
     /\ i > position[1] \/ (i = position[1] /\ j > position[2])}

First(places) ==
  CHOOSE p \in places : \A q \in places : p[1] < q[1] \/ (p[1] = q[1] /\ p[2] <= q[2])

\* The next literal becomes FALSE, unless the command exits otherwise.
FalsifyLit ==
  /\ phase = "shrinking"
  /\ Later # {}
  /\ position' = First(Later)
  /\ LET gone == falsified \cup {<<clauses[position'[1]], position'[2]>>}
     IN  \E expected \in BOOLEAN :
           /\ RunsExpected(File(clauses, gone, movedto), expected)
           /\ falsified' = IF expected THEN gone ELSE falsified
           /\ removed' = IF expected THEN removed + 1 ELSE removed
  /\ UNCHANGED <<options, clauses, movedto, dst, changed, phase, width>>

EndShrink ==
  /\ phase = "shrinking"
  /\ Later = {}
  /\ EndShrinking(removed)
  /\ UNCHANGED position

----------------------------------------------------------------------------
DdNext ==
  \/ StartRound
  \/ StartPass
  \/ RemoveClauses
  \/ EndOfPass
  \/ EndReduce
  \/ StartShrink
  \/ FalsifyLit
  \/ EndShrink
  \/ MainStep /\ UNCHANGED position
=============================================================================
