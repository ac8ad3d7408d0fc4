--------------------------- MODULE MCOutputQueue ---------------------------
(* OutputQueue with what the formatters give it: the strings of each task,   *)
(* for one framework and for two steps, with none, one or two extensions, an *)
(* empty one among them; a buffer of one string, so that it overflows, and   *)
(* every interleaving of the four threads.                                   *)
EXTENDS OutputQueue, Formatter

None == << >>
XY   == <<"x", "y">>
X    == <<"x">>
Y    == <<"y">>

Answers(task) ==
  CASE task = "DS" -> {TRUE, FALSE}
    [] task = "SE" -> {NoExt, None, XY}
    [] task = "EE" -> {<< >>, <<None>>, <<X, Y>>}
    [] task = "D3" -> {[grounded |-> None, stable |-> <<X, Y>>, preferred |-> <<X, Y>>],
                       [grounded |-> X, stable |-> << >>, preferred |-> <<X>>]}

Steps(task) ==
  CASE task = "DS" -> {<<TRUE, FALSE>>}
    [] task = "SE" -> {<<NoExt, XY>>, <<None, NoExt>>}
    [] task = "EE" -> {<<<< >>, <<X, Y>>>>}
    [] task = "D3" -> {}

Text(g) ==
  IF g.dynamic THEN Iterate(getInstance(g.of), g.task, g.answers)
               ELSE Written(getInstance(g.of), g.task, g.answers[1])

Given ==
  UNION {[of : {"ICCMA2017", "none"}, task : {t}, dynamic : {FALSE}, answers : {<<s>> : s \in Answers(t)}]
           \cup [of : {"ICCMA2017", "none"}, task : {t}, dynamic : {TRUE}, answers : Steps(t)]
         : t \in {"DS", "SE", "EE", "D3"}}

MCMessage == UNION {Range(Text(g)) : g \in Given}

\* The early returns are the same for every answer.
MCInit ==
  /\ \E g \in Given : answer = Text(g)
  /\ Start
  /\ Len(answer) > 1 => taskDefined /\ argDefined

MCFairSpec == /\ MCInit /\ [][Next]_vars
              /\ WF_vars(Running(MainStep))
              /\ SF_vars(Running(PushLock))
              /\ WF_vars(Running(OutputStep))

----------------------------------------------------------------------------
Names(ext) == List([k \in DOMAIN ext |-> Word(<<ext[k]>>)])
Names2(exts) == List([k \in DOMAIN exts |-> Names(exts[k])])

ItemsOfAnswer(task, a) ==
  CASE task = "DS" -> <<Word(<<IF a THEN "YES" ELSE "NO">>)>>
    [] task = "SE" -> <<IF a = NoExt THEN Word(<<"NO">>) ELSE Names(a)>>
    [] task = "EE" -> <<Names2(a)>>
    [] task = "D3" -> <<Names2(<<a.grounded>>), Names2(a.stable), Names2(a.preferred)>>

ItemsOfTask(g) ==
  FlattenSeq([k \in DOMAIN g.answers |-> ItemsOfAnswer(g.task, g.answers[k])])

\* What a process that ends normally has printed reads back, bracket by
\* bracket, as the answers that the solvers gave to the formatter, one for
\* each step (the formatters, iterate and the output path together).
PrintedReadable ==
  exit = "success" =>
    \A g \in Given : answer = Text(g) =>
      Read(FlattenSeq(printed)) =
        IF g.dynamic THEN <<List(ItemsOfTask(g))>> ELSE ItemsOfTask(g)
=============================================================================
