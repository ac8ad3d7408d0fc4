--------------------------- MODULE MCGraphGrounded ---------------------------
(* The graph-based solver and the triathlon over every framework of three *)
(* arguments.                                                             *)
EXTENDS GraphGrounded, TLC

CONSTANTS a, b, c

MCOrder == <<a, b, c>>
MCArg   == {a, b, c}
MCTasks == {"SE", "EE", "DC", "DS", "D3"}
=============================================================================
