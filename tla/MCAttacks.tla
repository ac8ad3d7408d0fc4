----------------------------- MODULE MCAttacks -----------------------------
(* The store with two names: all the orders in which an instance declares   *)
(* them and lists attacks, all the change lists up to the bounds, in each   *)
(* format (Plain).  And the command lines: the three mandatory options with *)
(* every task of a list, well and badly written, and one or two options     *)
(* more at any place, for files of at most one attack and one change.       *)
EXTENDS CommandLine

CONSTANTS a, b

MCArg      == {a, b}
MCReadable == {<<"af">>, <<"changes">>}

P(task)   == <<Option("p"), task>>
Fo(name)  == <<Option("fo"), <<name>>>>
File      == <<Option("f"), <<"af">>>>
Changes   == <<Option("m"), <<"changes">>>>
Query(n)  == <<Option("a"), <<n>>>>

Plain ==
  {<<P(<<"EE", "PR", "D">>), Fo(f), File, Changes>> : f \in {"apx", "tgf", "cnf"}}
    \cup {<<P(<<"EE", "PR">>), Fo(f), File>> : f \in {"apx", "tgf", "cnf"}}

Tasks == {<<"D3">>, <<"D3", "D">>, <<"SE">>, <<"SE", "ST">>, <<"EE", "GR", "D">>,
          <<"DS", "GR">>, <<"DC", "CO", "D">>, <<"EE", "PR", "D", "D">>, <<"XX", "SST">>}

More ==
  {P(<<"DC", "STG">>), P(<<"DS", "ID", "D">>), Fo("tgf"), Fo("XX"), Changes,
   <<Option("m"), <<"none">>>>, <<Option("f"), <<"none">>>>, Query(a), Query(b),
   Query(""), <<Option("externalSatSolver"), <<"solver">>>>,
   <<Option("log"), Option("p")>>, <<Option("of"), <<"ICCMA2017">>>>,
   <<Flag("graphBased")>>, <<Flag("formats")>>, <<Flag("problems")>>,
   <<<<"word">>>>, <<Empty>>, <<Option("")>>, <<Option("a")>>}

Insertions(s, o) == {SubSeq(s, 1, k) \o <<o>> \o SubSeq(s, k + 1, Len(s)) : k \in 0..Len(s)}

Base  == {<<P(task), Fo("apx"), File>> : task \in Tasks}
OneMore == UNION {Insertions(s, o) : s \in Base, o \in More}
TwoMore == UNION {Insertions(Append(s, Query(a)), o) : s \in Base, o \in More}
\* An option without its value is the last word of the line.
MCLines == {s \in Plain \cup Base \cup OneMore \cup TwoMore \cup {<< >>} : Meant(s)}

MCInit == Init /\ LineInit /\ format = "apx"

MCSpec == MCInit /\ [][LineNext]_allVars

\* With any other line than the plain ones, one attack, one change, and the
\* declaration of a before that of b.
Small ==
  line \in Plain \/ /\ nbAttacks' <= 1 + Len(dynAttacks')
                    /\ Len(dynAttacks') <= 1
                    /\ nvars' > 0 => varOf'[a] # 0
=============================================================================
