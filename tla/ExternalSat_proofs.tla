-------------------------- MODULE ExternalSat_proofs --------------------------
(* Proofs about the external SAT back end: what a call reports of the solver  *)
(* that it runs, for any output and any interleaving of the two processes;    *)
(* and how far the answers of the stable solver over it are right.            *)
EXTENDS MCExternal, Encoding_proofs

----------------------------------------------------------------------------
(* One call: what the solver prints *)

\* A model that is printed in one line.
WholeModel == Process!Line("v", 1, NVars, TRUE)

\* The lines of an output tell its status, and a model printed in one line is
\* the only value line; a value line tells where it ends.
OutputInv ==
  /\ status \in Statuses
  /\ model \subseteq Process!VarIds
  /\ output \in Seq(Range(output))
  /\ \A k \in 1..Len(output) :
       /\ output[k].kind = "v" => status = "SATISFIABLE" /\ output[k].to \in Int
       /\ output[k].kind = "UNSATISFIABLE" => status = "UNSATISFIABLE"
       /\ output[k] = WholeModel =>
            \A j \in 1..Len(output) : output[j].kind = "v" => j = k
  /\ status = "SATISFIABLE" => \E k \in 1..Len(output) : output[k].kind = "v"

\* The lines that the parent has taken from the pipe: the first ones of the output.
NbRead == Len(output) - Len(pipe) - Len(toPrint)

\* What is in the pipe and what is still to be printed are the rest of the output.
PipeInv ==
  /\ pipe \in Seq(Range(output)) /\ toPrint \in Seq(Range(output))
  /\ NbRead \in Nat
  /\ \A k \in 1..Len(pipe) : pipe[k] = output[NbRead + k]
  /\ \A k \in 1..Len(toPrint) : toPrint[k] = output[NbRead + Len(pipe) + k]

ValuesRead == \E k \in 1..NbRead : output[k].kind = "v"

\* The models are the value lines that were read.
ModelsReadInv ==
  /\ modelFound <=> ValuesRead
  /\ Process!LinesReported(NbRead)
  /\ callModels \in Seq(SUBSET model)
  /\ WholeModel \in Range(output) => callModels = IF ValuesRead THEN <<model>> ELSE << >>

\* Nobody reads before the child has ended; a child that exits has printed all; a
\* call that ends has read a verdict, or everything there is.
EndInv ==
  /\ child = "exited" => toPrint = << >>
  /\ parent = "returned" => pipe = << >> \/ status = "UNSATISFIABLE"
  /\ parent # "waiting" => child \in {"exited", "failed"}
  /\ parent = "returned" /\ ~modelFound /\ child = "exited" => status # "SATISFIABLE"

CallInv == OutputInv /\ PipeInv /\ ModelsReadInv /\ EndInv
\* A sequence o in three parts, the second of one element.
Parts(o, s, e, t) ==
  /\ o \in Seq(Range(o)) /\ Len(o) = Len(s) + 1 + Len(t)
  /\ \A k \in 1..Len(o) :
       \/ k \in 1..Len(s) /\ o[k] = s[k]
       \/ o[k] = e
       \/ k - Len(s) - 1 \in 1..Len(t) /\ o[k] = t[k - Len(s) - 1]
  /\ \A k \in 1..Len(t) : o[Len(s) + 1 + k] = t[k]

\* Each element of a concatenation comes from its part.
LEMMA ThreeParts ==
  ASSUME NEW S, NEW s \in Seq(S), NEW e \in S, NEW t \in Seq(S)
  PROVE  Parts(s \o <<e>> \o t, s, e, t)
<1> DEFINE p == s \o <<e>>
           n == Len(s)
           m == Len(t)
           o == p \o t
<1>1. n \in Nat /\ m \in Nat
  BY LenProperties
<1>2. <<e>> \in Seq(S) /\ Len(<<e>>) = 1 /\ <<e>>[1] = e
  OBVIOUS
<1>3. /\ p \in Seq(S) /\ Len(p) = n + 1
      /\ \A k \in 1..(n + 1) : p[k] = IF k <= n THEN s[k] ELSE <<e>>[k - n]
  BY <1>2, ConcatProperties
<1> HIDE DEF p
<1>4. /\ p \o t \in Seq(S)
      /\ Len(p \o t) = n + 1 + m
      /\ \A k \in 1..(n + 1 + m) : (p \o t)[k] = IF k <= n + 1 THEN p[k] ELSE t[k - (n + 1)]
  <2>1. /\ p \o t \in Seq(S) /\ Len(p \o t) = Len(p) + Len(t)
        /\ \A k \in 1..(Len(p) + Len(t)) :
              (p \o t)[k] = IF k <= Len(p) THEN p[k] ELSE t[k - Len(p)]
    <3>1. p \in Seq(S)
      BY <1>3
    <3> QED BY <3>1, ConcatProperties
  <2> QED BY <1>3, <2>1
<1>5. /\ o \in Seq(S) /\ Len(o) = n + 1 + m
      /\ \A k \in 1..(n + 1 + m) : o[k] = IF k <= n + 1 THEN p[k] ELSE t[k - (n + 1)]
  BY <1>4
<1> HIDE DEF n, m, o
<1>6. ASSUME NEW k \in 1..(n + 1 + m)
      PROVE  \/ k \in 1..n /\ o[k] = s[k]
             \/ o[k] = e
             \/ k - n - 1 \in 1..m /\ o[k] = t[k - n - 1]
  <2>0. k \in Int /\ 1 <= k /\ k <= n + 1 + m
    BY <1>1
  <2>1. CASE k <= n
    <3>1. o[k] = p[k] /\ p[k] = s[k]
      BY <1>1, <1>3, <1>5, <2>1
    <3>2. k \in 1..n
      BY <1>1, <2>0, <2>1
    <3> QED BY <3>1, <3>2
  <2>2. CASE k = n + 1
    <3>1. o[k] = p[k] /\ p[k] = <<e>>[k - n] /\ k - n = 1
      BY <1>1, <1>3, <1>5, <2>2
    <3> QED BY <1>2, <3>1
  <2>3. CASE k > n + 1
    <3>1. o[k] = t[k - (n + 1)] /\ k - (n + 1) = k - n - 1 /\ k - n - 1 \in 1..m
      BY <1>1, <1>5, <2>3
    <3> QED BY <3>1
  <2> QED BY <1>1, <2>0, <2>1, <2>2, <2>3
<1>7. ASSUME NEW k \in 1..m
      PROVE  o[n + 1 + k] = t[k]
  <2>1. n + 1 + k \in 1..(n + 1 + m) /\ ~(n + 1 + k <= n + 1) /\ (n + 1 + k) - (n + 1) = k
    BY <1>1
  <2> QED BY <1>5, <2>1
<1>8. o \in Seq(Range(o))
  BY <1>5, SeqOfRange
<1> QED BY <1>5, <1>6, <1>7, <1>8 DEF n, m, o, p, Parts

\* Whatever the solver prints of what it has found satisfies the invariant.
LEMMA StartCall ==
  ASSUME Process!Init
  PROVE  CallInv
<1>1. /\ status \in Statuses
      /\ model \in IF status = "SATISFIABLE" THEN SUBSET Process!VarIds ELSE {{}}
      /\ output \in Process!Printings(status)
      /\ toPrint = output /\ pipe = << >> /\ child = "forked" /\ parent = "waiting"
      /\ callModels = << >> /\ modelFound = FALSE
  BY DEF Process!Init
<1>2. PICK n \in 0..MaxComments,
           values \in IF status = "SATISFIABLE"
                        THEN UNION {Process!ValuesIn(l) : l \in ValueLines} ELSE {<< >>} :
        output = Process!Comments(n) \o <<Process!Line(status, 1, 0, FALSE)>> \o values
  <2> DEFINE AllPrinted == IF status = "SATISFIABLE"
                         THEN UNION {Process!ValuesIn(l) : l \in ValueLines} ELSE {<< >>}
             printed(n, values) ==
               Process!Comments(n) \o <<Process!Line(status, 1, 0, FALSE)>> \o values
  <2>1. Process!Printings(status) = {printed(n, values) : n \in 0..MaxComments, values \in AllPrinted}
    BY DEF Process!Printings
  <2> HIDE DEF AllPrinted, printed
  <2>2. \E n \in 0..MaxComments, values \in AllPrinted : output = printed(n, values)
    BY <1>1, <2>1
  <2> QED BY <2>2 DEF AllPrinted, printed
<1>3. n \in Nat
  OBVIOUS
<1>4. /\ values \in Seq(Range(values))
      /\ \A k \in 1..Len(values) :
           /\ values[k].kind = "v" /\ values[k].to \in Int
           /\ values[k] = WholeModel => Len(values) = 1
      /\ (status = "SATISFIABLE" <=> Len(values) > 0)
  <2>1. CASE status = "SATISFIABLE"
    <3>1. PICK l \in ValueLines : values \in Process!ValuesIn(l)
      BY <2>1
    <3>2. CASE l = 1
      <4>1. values = <<WholeModel>> /\ WholeModel.kind = "v" /\ WholeModel.to \in Int
        BY <3>1, <3>2, ProcessAssumption DEF Process!ValuesIn, WholeModel, Process!Line
      <4> QED BY <2>1, <4>1 DEF Range
    <3>3. CASE l # 1
      <4>1. PICK k \in Process!VarIds :
              values = <<Process!Line("v", 1, k, FALSE), Process!Line("v", k + 1, NVars, TRUE)>>
        BY <3>1, <3>3 DEF Process!ValuesIn
      <4> DEFINE u == Process!Line("v", 1, k, FALSE)
                 w == Process!Line("v", k + 1, NVars, TRUE)
      <4>2. /\ u.kind = "v" /\ w.kind = "v" /\ u.ended = FALSE /\ w.from = k + 1
            /\ u.to = k /\ w.to = NVars
            /\ WholeModel.ended = TRUE /\ WholeModel.from = 1
        BY DEF Process!Line, WholeModel
      <4> HIDE DEF u, w
      <4>3. k \in Int /\ k >= 1
        BY DEF Process!VarIds
      <4>4. u # WholeModel /\ w # WholeModel
        BY <4>2, <4>3
      <4>5. values = <<u, w>>
        BY <4>1 DEF u, w
      <4> QED BY <2>1, <4>2, <4>3, <4>4, <4>5, ProcessAssumption DEF Range
    <3> QED BY <3>2, <3>3
  <2>2. CASE status # "SATISFIABLE"
    BY <2>2 DEF Range
  <2> QED BY <2>1, <2>2
<1>5. /\ output \in Seq(Range(output)) /\ Len(output) = n + 1 + Len(values)
      /\ \A k \in 1..Len(output) :
           \/ output[k].kind = "c"
           \/ output[k].kind = status
           \/ k - n - 1 \in 1..Len(values) /\ output[k] = values[k - n - 1]
      /\ \A k \in 1..Len(values) : output[n + 1 + k] = values[k]
  <2> DEFINE cs == Process!Comments(n)
             c  == Process!Line("c", 1, 0, FALSE)
             e  == Process!Line(status, 1, 0, FALSE)
             S  == {c, e} \cup Range(values)
  <2>1. /\ cs = [k \in 1..n |-> c] /\ c.kind = "c" /\ e.kind = status
    BY DEF Process!Comments, Process!Line
  <2>2. output = cs \o <<e>> \o values
    BY <1>2
  <2> HIDE DEF cs, c, e
  <2>3. /\ cs \in Seq(S) /\ Len(cs) = n /\ \A k \in 1..n : cs[k] = c
    BY <1>3, <2>1
  <2>4. values \in Seq(S) /\ e \in S
    BY <1>4, SeqMonotonic
  <2> HIDE DEF S
  <2>5. /\ output \in Seq(Range(output)) /\ Len(output) = n + 1 + Len(values)
        /\ \A k \in 1..Len(output) :
             \/ k \in 1..n /\ output[k] = cs[k]
             \/ output[k] = e
             \/ k - n - 1 \in 1..Len(values) /\ output[k] = values[k - n - 1]
        /\ \A k \in 1..Len(values) : output[n + 1 + k] = values[k]
    <3>1. Parts(output, cs, e, values)
      BY <2>2, <2>3, <2>4, ThreeParts
    <3> QED BY <2>3, <3>1 DEF Parts
  <2>6. ASSUME NEW k \in 1..Len(output)
        PROVE  \/ output[k].kind = "c"
               \/ output[k].kind = status
               \/ k - n - 1 \in 1..Len(values) /\ output[k] = values[k - n - 1]
    BY <2>1, <2>3, <2>5
  <2> QED BY <2>5, <2>6
<1>6. status \in {"SATISFIABLE", "UNSATISFIABLE", "UNKNOWN"}
  BY <1>1, ProcessAssumption
<1>7. ASSUME NEW k \in 1..Len(output)
      PROVE  /\ output[k].kind = "v" => /\ status = "SATISFIABLE"
                                        /\ k - n - 1 \in 1..Len(values)
                                        /\ output[k] = values[k - n - 1]
                                        /\ output[k].to \in Int
             /\ output[k].kind = "UNSATISFIABLE" => status = "UNSATISFIABLE"
             /\ output[k] = WholeModel => output[k].kind = "v"
  <2>1. WholeModel.kind = "v"
    BY DEF WholeModel, Process!Line
  <2>2. CASE output[k].kind = "c"
    BY <2>1, <2>2
  <2>3. CASE output[k].kind = status
    BY <1>6, <2>1, <2>3
  <2>4. CASE k - n - 1 \in 1..Len(values) /\ output[k] = values[k - n - 1]
    <3>1. output[k].kind = "v" /\ Len(values) > 0
      BY <1>4, <2>4
    <3> QED BY <1>4, <2>4, <3>1
  <2> QED BY <1>5, <2>2, <2>3, <2>4
<1>8. ASSUME NEW k \in 1..Len(output), output[k] = WholeModel,
             NEW j \in 1..Len(output), output[j].kind = "v"
      PROVE  j = k
  <2>1. k - n - 1 \in 1..Len(values) /\ j - n - 1 \in 1..Len(values) /\ Len(values) = 1
    <3>1. output[k].kind = "v"
      BY <1>7, <1>8
    <3>2. /\ k - n - 1 \in 1..Len(values) /\ output[k] = values[k - n - 1]
          /\ j - n - 1 \in 1..Len(values)
      BY <1>7, <1>8, <3>1
    <3> QED BY <1>4, <1>8, <3>2
  <2> QED BY <1>3, <2>1
<1>9. status = "SATISFIABLE" => \E k \in 1..Len(output) : output[k].kind = "v"
  <2>1. ASSUME status = "SATISFIABLE" PROVE n + 2 \in 1..Len(output) /\ output[n + 2].kind = "v"
    <3>1. Len(values) \in Nat /\ Len(values) > 0
      <4>1. values \in Seq(Range(values)) /\ Len(values) > 0
        BY <1>4, <2>1
      <4> QED BY <4>1, LenProperties
    <3>2. 1 \in 1..Len(values) /\ n + 2 = n + 1 + 1
      BY <1>3, <3>1
    <3> QED BY <1>3, <1>4, <1>5, <3>1, <3>2
  <2> QED BY <2>1
<1>10. OutputInv
  BY <1>1, <1>5, <1>7, <1>8, <1>9 DEF OutputInv
<1>11. NbRead = 0 /\ PipeInv
  <2>1. Len(output) \in Nat /\ Len(pipe) = 0 /\ Len(toPrint) = Len(output)
    BY <1>1, <1>5
  <2>2. NbRead = 0
    BY <2>1 DEF NbRead
  <2>3. \A k \in 1..Len(toPrint) : NbRead + Len(pipe) + k = k
    BY <2>1, <2>2
  <2>4. pipe \in Seq(Range(output))
    BY <1>1
  <2> QED BY <1>1, <1>5, <2>1, <2>2, <2>3, <2>4 DEF PipeInv
<1>12. ModelsReadInv
  <2>1. Process!LinesReported(0)
    <3> DEFINE none == [k \in DOMAIN callModels |-> 1]
    <3>1. DOMAIN callModels = {}
      BY <1>1
    <3>2. none \in [DOMAIN callModels -> 1..0]
      BY <3>1
    <3>3. \A m \in 1..0 : FALSE
      OBVIOUS
    <3> HIDE DEF none
    <3> QED BY <3>1, <3>2, <3>3 DEF Process!LinesReported
  <2> QED BY <1>1, <1>11, <2>1 DEF ModelsReadInv, ValuesRead
<1>13. EndInv
  BY <1>1 DEF EndInv
<1> QED BY <1>10, <1>11, <1>12, <1>13 DEF CallInv
----------------------------------------------------------------------------
(* One call: its steps *)

\* What the solver finds and prints is fixed before the call.
found == <<status, model, output>>

\* A step that leaves the lines where they are reads nothing.
LEMMA PipeKept ==
  ASSUME PipeInv, UNCHANGED <<output, pipe, toPrint>>
  PROVE  PipeInv' /\ NbRead' = NbRead
BY DEF PipeInv, NbRead

\* The line that is printed goes to the end of the pipe.
LEMMA PrintStep ==
  ASSUME OutputInv, PipeInv, output' = output, toPrint # << >>,
         pipe' = Append(pipe, Head(toPrint)), toPrint' = Tail(toPrint)
  PROVE  PipeInv' /\ NbRead' = NbRead
<1> DEFINE S == Range(output)
           n == Len(output)
           p == Len(pipe)
           t == Len(toPrint)
<1>1. /\ pipe \in Seq(S) /\ toPrint \in Seq(S) /\ NbRead = n - p - t /\ NbRead \in Nat
      /\ n \in Nat /\ p \in Nat /\ t \in Nat /\ t > 0
  BY LenProperties, EmptySeq DEF OutputInv, PipeInv, NbRead
<1>2. /\ \A k \in 1..p : pipe[k] = output[NbRead + k]
      /\ \A k \in 1..t : toPrint[k] = output[NbRead + p + k]
  BY DEF PipeInv
<1>3. /\ Tail(toPrint) \in Seq(S) /\ Len(Tail(toPrint)) = t - 1
      /\ \A k \in 1..(t - 1) : Tail(toPrint)[k] = toPrint[k + 1]
      /\ Head(toPrint) \in S /\ Head(toPrint) = toPrint[1]
  BY <1>1, HeadTailProperties
<1> DEFINE q == Append(pipe, Head(toPrint))
<1>4. /\ q \in Seq(S) /\ Len(q) = p + 1 /\ q[p + 1] = Head(toPrint)
      /\ \A k \in 1..p : q[k] = pipe[k]
  BY <1>1, <1>3, AppendProperties
<1>5. pipe' = q /\ toPrint' = Tail(toPrint) /\ Len(output') = n
  OBVIOUS
<1> HIDE DEF S, n, p, t, q
<1>6. NbRead' = NbRead
  <2>1. NbRead' = n - (p + 1) - (t - 1)
    BY <1>3, <1>4, <1>5 DEF NbRead
  <2> QED BY <1>1, <2>1
<1>7. ASSUME NEW k \in 1..(p + 1) PROVE q[k] = output[NbRead + k]
  <2>1. CASE k \in 1..p
    BY <1>2, <1>4, <2>1
  <2>2. CASE k = p + 1
    <3>1. 1 \in 1..t /\ NbRead + p + 1 = NbRead + (p + 1)
      BY <1>1
    <3> QED BY <1>2, <1>3, <1>4, <2>2, <3>1
  <2> QED BY <1>1, <2>1, <2>2
<1>8. ASSUME NEW k \in 1..(t - 1) PROVE Tail(toPrint)[k] = output[NbRead + (p + 1) + k]
  <2>1. k + 1 \in 1..t /\ NbRead + p + (k + 1) = NbRead + (p + 1) + k
    BY <1>1
  <2> QED BY <1>2, <1>3, <2>1
<1> QED BY <1>1, <1>3, <1>4, <1>5, <1>6, <1>7, <1>8 DEF PipeInv, S

\* The line that is read is the next one of the output.
LEMMA ReadStep ==
  ASSUME OutputInv, PipeInv, UNCHANGED <<output, toPrint>>, pipe # << >>, pipe' = Tail(pipe)
  PROVE  /\ PipeInv' /\ NbRead' = NbRead + 1
         /\ NbRead + 1 \in 1..Len(output) /\ Head(pipe) = output[NbRead + 1]
<1> DEFINE S == Range(output)
           n == Len(output)
           p == Len(pipe)
           t == Len(toPrint)
<1>1. /\ pipe \in Seq(S) /\ toPrint \in Seq(S) /\ NbRead = n - p - t /\ NbRead \in Nat
      /\ n \in Nat /\ p \in Nat /\ t \in Nat /\ p > 0
  BY LenProperties, EmptySeq DEF OutputInv, PipeInv, NbRead
<1>2. /\ \A k \in 1..p : pipe[k] = output[NbRead + k]
      /\ \A k \in 1..t : toPrint[k] = output[NbRead + p + k]
  BY DEF PipeInv
<1>3. /\ Tail(pipe) \in Seq(S) /\ Len(Tail(pipe)) = p - 1
      /\ \A k \in 1..(p - 1) : Tail(pipe)[k] = pipe[k + 1]
      /\ Head(pipe) = pipe[1]
  BY <1>1, HeadTailProperties
<1>4. pipe' = Tail(pipe) /\ toPrint' = toPrint /\ output' = output
  OBVIOUS
<1> HIDE DEF S, n, p, t
<1>5. NbRead' = NbRead + 1
  <2>1. NbRead' = n - (p - 1) - t
    BY <1>3, <1>4 DEF NbRead, n, t
  <2> QED BY <1>1, <2>1
<1>6. ASSUME NEW k \in 1..(p - 1) PROVE Tail(pipe)[k] = output[NbRead + 1 + k]
  <2>1. k + 1 \in 1..p /\ NbRead + (k + 1) = NbRead + 1 + k
    BY <1>1
  <2> QED BY <1>2, <1>3, <2>1
<1>7. ASSUME NEW k \in 1..t PROVE toPrint[k] = output[NbRead + 1 + (p - 1) + k]
  <2>1. NbRead + p + k = NbRead + 1 + (p - 1) + k
    BY <1>1
  <2> QED BY <1>2, <2>1
<1>8. PipeInv'
  BY <1>1, <1>3, <1>4, <1>5, <1>6, <1>7 DEF PipeInv, S, t
<1>9. NbRead + 1 \in 1..n /\ Head(pipe) = output[NbRead + 1]
  <2>1. NbRead + 1 \in 1..n /\ 1 \in 1..p
    BY <1>1
  <2> QED BY <1>2, <1>3, <2>1
<1> QED BY <1>5, <1>8, <1>9 DEF n

\* Without another line there is no other model.
LEMMA SameLines ==
  ASSUME UNCHANGED <<model, output, callModels>>, NbRead' = NbRead,
         Process!LinesReported(NbRead)
  PROVE  Process!LinesReported(NbRead)'
BY DEF Process!LinesReported, Process!Reported

\* The models ms, which are the lines at, become longer by x, which is the next line.
Extends(longer, ms, x, at, n) ==
  \E to \in [DOMAIN longer -> 1..(n + 1)] :
    /\ \A j, k \in DOMAIN longer : j < k => to[j] < to[k]
    /\ \A k \in DOMAIN longer :
         \/ k \in DOMAIN ms /\ to[k] = at[k] /\ longer[k] = ms[k]
         \/ to[k] = n + 1 /\ longer[k] = x
    /\ \A k \in DOMAIN ms : k \in DOMAIN longer /\ to[k] = at[k]
    /\ \E k \in DOMAIN longer : to[k] = n + 1

\* A value line is the last of the models once it is read.
LEMMA LineRead ==
  ASSUME NEW n \in Nat, NEW S, NEW ms \in Seq(S), NEW x \in S, NEW at \in [DOMAIN ms -> 1..n],
         \A j, k \in DOMAIN ms : j < k => at[j] < at[k]
  PROVE  Extends(Append(ms, x), ms, x, at, n)
<1> DEFINE l  == Len(ms)
           ap == Append(ms, x)
           to == [k \in 1..(l + 1) |-> IF k = l + 1 THEN n + 1 ELSE at[k]]
<1>1. /\ l \in Nat /\ DOMAIN ms = 1..l /\ DOMAIN ap = 1..(l + 1)
      /\ ap[l + 1] = x /\ \A k \in 1..l : ap[k] = ms[k]
  BY LenProperties, AppendProperties
<1> HIDE DEF l, ap
<1>2. \A k \in 1..(l + 1) : k = l + 1 \/ k \in 1..l
  BY <1>1
<1>3. \A k \in 1..l : k \in 1..(l + 1) /\ k # l + 1 /\ at[k] \in 1..n
  BY <1>1
<1>4. \A k \in 1..l : to[k] = at[k]
  BY <1>3
<1>5. l + 1 \in 1..(l + 1) /\ to[l + 1] = n + 1
  BY <1>1
<1>6. to \in [DOMAIN ap -> 1..(n + 1)]
  BY <1>1, <1>2, <1>3
<1> HIDE DEF to
<1>7. ASSUME NEW j \in 1..(l + 1), NEW k \in 1..(l + 1), j < k PROVE to[j] < to[k]
  <2>1. j \in 1..l
    BY <1>1, <1>7
  <2>2. CASE k = l + 1
    BY <1>3, <1>4, <1>5, <2>1, <2>2
  <2>3. CASE k \in 1..l
    BY <1>1, <1>4, <1>7, <2>1, <2>3
  <2> QED BY <1>2, <2>2, <2>3
<1>8. /\ \A j, k \in DOMAIN ap : j < k => to[j] < to[k]
      /\ \A k \in DOMAIN ap :
           \/ k \in DOMAIN ms /\ to[k] = at[k] /\ ap[k] = ms[k]
           \/ to[k] = n + 1 /\ ap[k] = x
      /\ \A k \in DOMAIN ms : k \in DOMAIN ap /\ to[k] = at[k]
      /\ \E k \in DOMAIN ap : to[k] = n + 1
  BY <1>1, <1>2, <1>3, <1>4, <1>5, <1>7
<1> QED BY <1>6, <1>8 DEF ap, Extends

\* Each step of one of the two processes keeps the invariant.
LEMMA CallStep ==
  ASSUME CallInv, [Process!Next]_processVars
  PROVE  CallInv'
<1> USE DEF CallInv
<1>0. UNCHANGED found => OutputInv'
  BY DEF found, OutputInv
<1>1. CASE Process!Exec \/ Process!Exit \/ Process!Fail \/ Process!Wait
  <2>1. /\ UNCHANGED <<status, model, output, toPrint, pipe, callModels, modelFound>>
        /\ \/ parent' = parent /\ parent = "waiting" /\ child' # "exited"
           \/ parent' = parent /\ child' = "exited" /\ toPrint = << >> /\ child = "running"
           \/ parent' = parent /\ child \in {"forked", "running"} /\ child' # "exited"
           \/ parent' = "reading" /\ child' = child /\ child \in {"exited", "failed"}
    BY <1>1 DEF Process!Exec, Process!Exit, Process!Fail, Process!Wait, Process!Ended, EndInv
  <2>2. OutputInv' /\ PipeInv' /\ NbRead' = NbRead
    BY <1>0, <2>1, PipeKept DEF found
  <2>3. ModelsReadInv'
    BY <2>1, <2>2, SameLines DEF ModelsReadInv, ValuesRead
  <2>4. EndInv'
    BY <2>1 DEF EndInv
  <2> QED BY <2>2, <2>3, <2>4
<1>2. CASE Process!PrintLine
  <2>1. /\ UNCHANGED <<status, model, output, child, parent, callModels, modelFound>>
        /\ child = "running" /\ toPrint # << >>
        /\ pipe' = Append(pipe, Head(toPrint)) /\ toPrint' = Tail(toPrint)
    BY <1>2 DEF Process!PrintLine
  <2>2. OutputInv' /\ PipeInv' /\ NbRead' = NbRead
    BY <1>0, <2>1, PrintStep DEF found
  <2>3. ModelsReadInv'
    BY <2>1, <2>2, SameLines DEF ModelsReadInv, ValuesRead
  <2>4. EndInv'
    BY <2>1 DEF EndInv
  <2> QED BY <2>2, <2>3, <2>4
<1>3. CASE Process!ReadLine
  <2> DEFINE l == Head(pipe)
  <2>1. /\ UNCHANGED <<status, model, output, toPrint, child>>
        /\ parent = "reading" /\ pipe # << >> /\ pipe' = Tail(pipe)
        /\ IF l.kind = "v" THEN callModels' = Append(callModels, Process!ValuesOf(l)) /\ modelFound' = TRUE
           ELSE UNCHANGED <<callModels, modelFound>>
        /\ parent' = IF l.kind = "UNSATISFIABLE" THEN "returned" ELSE parent
    BY <1>3 DEF Process!ReadLine, Process!StopsReading
  <2>2. /\ OutputInv' /\ PipeInv' /\ NbRead' = NbRead + 1
        /\ NbRead + 1 \in 1..Len(output) /\ l = output[NbRead + 1]
    BY <1>0, <2>1, ReadStep DEF found
  <2>3. NbRead \in Nat
    BY DEF PipeInv
  <2>4. ValuesRead' <=> (ValuesRead \/ l.kind = "v")
    <3>1. \A k : k \in 1..(NbRead + 1) <=> (k \in 1..NbRead \/ k = NbRead + 1)
      BY <2>3
    <3> QED BY <2>1, <2>2, <3>1 DEF ValuesRead
  <2>5. Process!ValuesOf(l) \in SUBSET model
    BY DEF Process!ValuesOf
  <2>6. Process!LinesReported(NbRead)'
    <3>1. PICK at \in [DOMAIN callModels -> 1..NbRead] :
            /\ \A j, k \in DOMAIN callModels : j < k => at[j] < at[k]
            /\ \A m \in 1..NbRead : output[m].kind = "v" <=> \E k \in DOMAIN callModels : at[k] = m
            /\ \A k \in DOMAIN callModels : callModels[k] = Process!Reported(output[at[k]])
      BY DEF ModelsReadInv, Process!LinesReported
    <3> DEFINE N == NbRead + 1
               Reported(m) == Process!Reported(output[m])
    <3>2. N \in Nat /\ N \in 1..N /\ \A m \in 1..N : m \in 1..NbRead \/ m = N
      BY <2>3
    <3>3. output' = output /\ NbRead' = N /\ output[N] = l /\ \A m : Reported(m)' = Reported(m)
      BY <2>1, <2>2 DEF Process!Reported
    <3>4. ASSUME NEW to \in [DOMAIN callModels' -> 1..N],
                 \A j, k \in DOMAIN callModels' : j < k => to[j] < to[k],
                 \A m \in 1..N : output[m].kind = "v" <=> \E k \in DOMAIN callModels' : to[k] = m,
                 \A k \in DOMAIN callModels' : callModels'[k] = Reported(to[k])
          PROVE  Process!LinesReported(NbRead)'
      BY <3>3, <3>4 DEF Process!LinesReported
    <3>5. CASE l.kind = "v"
      <4>1. Process!ValuesOf(l) = Reported(N)
        <5>1. l.to \in Int
          BY <2>2, <3>5 DEF OutputInv
        <5>2. \A v \in model : v \in Int
          BY DEF OutputInv, Process!VarIds
        <5>3. Reported(N) = Process!Reported(l)
          BY <3>3
        <5> HIDE DEF l
        <5> QED BY <5>1, <5>2, <5>3 DEF Process!ValuesOf, Process!Reported
      <4>2. callModels' = Append(callModels, Reported(N)) /\ Reported(N) \in SUBSET model
        BY <2>1, <2>5, <3>5, <4>1
      <4> HIDE DEF N, Reported
      <4> DEFINE x == Reported(N)
      <4>3. /\ callModels \in Seq(SUBSET model) /\ x \in SUBSET model
            /\ \A j, k \in DOMAIN callModels : j < k => at[j] < at[k]
        BY <3>1, <4>2 DEF ModelsReadInv
      <4> HIDE DEF x
      <4>4. Extends(Append(callModels, x), callModels, x, at, NbRead)
        BY <2>3, <4>3, LineRead
      <4>5. callModels' = Append(callModels, x) /\ N = NbRead + 1 /\ Reported(N) = x
        BY <4>2 DEF x, N
      <4>6. Extends(callModels', callModels, x, at, NbRead)
        BY <4>4, <4>5
      <4>7. PICK to \in [DOMAIN callModels' -> 1..(NbRead + 1)] :
              /\ \A j, k \in DOMAIN callModels' : j < k => to[j] < to[k]
              /\ \A k \in DOMAIN callModels' :
                   \/ k \in DOMAIN callModels /\ to[k] = at[k] /\ callModels'[k] = callModels[k]
                   \/ to[k] = NbRead + 1 /\ callModels'[k] = x
              /\ \A k \in DOMAIN callModels : k \in DOMAIN callModels' /\ to[k] = at[k]
              /\ \E k \in DOMAIN callModels' : to[k] = NbRead + 1
        BY <4>6 DEF Extends
      <4>8. \A k \in DOMAIN callModels' : callModels'[k] = Reported(to[k])
        BY <3>1, <4>7, <4>5 DEF Reported
      <4>9. ASSUME NEW m \in 1..N
            PROVE  output[m].kind = "v" <=> \E k \in DOMAIN callModels' : to[k] = m
        <5>1. CASE m = N
          BY <3>3, <3>5, <4>7, <4>5, <5>1
        <5>2. CASE m # N
          <6>1. m \in 1..NbRead
            BY <3>2, <5>2
          <6> QED BY <3>1, <4>7, <4>5, <5>2, <6>1
        <5> QED BY <5>1, <5>2
      <4> QED BY <3>4, <4>7, <4>8, <4>9, <4>5
    <3>6. CASE l.kind # "v"
      <4>1. callModels' = callModels
        BY <2>1, <3>6
      <4>2. at \in [DOMAIN callModels' -> 1..N]
        BY <2>3, <4>1
      <4>3. ASSUME NEW m \in 1..N
            PROVE  output[m].kind = "v" <=> \E k \in DOMAIN callModels' : at[k] = m
        <5>1. CASE m = N
          <6>1. \A k \in DOMAIN callModels : at[k] # N
            BY <2>3
          <6> QED BY <3>3, <3>6, <4>1, <5>1, <6>1
        <5>2. CASE m # N
          <6>1. m \in 1..NbRead
            BY <3>2, <5>2
          <6> QED BY <3>1, <4>1, <6>1
        <5> QED BY <5>1, <5>2
      <4> HIDE DEF N
      <4> QED BY <3>1, <3>4, <4>1, <4>2, <4>3
    <3> QED BY <3>5, <3>6
  <2>7. ModelsReadInv'
    <3>1. CASE l.kind = "v"
      <4>1. callModels' \in Seq(SUBSET model)
        BY <2>1, <2>5, <3>1, AppendProperties DEF ModelsReadInv
      <4>2. ASSUME WholeModel \in Range(output) PROVE callModels' = <<model>>
        <5>1. l = WholeModel
          <6>1. PICK k \in 1..Len(output) : output[k] = WholeModel
            BY <4>2, LenProperties DEF OutputInv, Range
          <6> QED BY <2>2, <3>1, <6>1 DEF OutputInv
        <5>2. ~ValuesRead
          <6>1. ASSUME NEW k \in 1..NbRead, output[k].kind = "v" PROVE FALSE
            <7>1. k \in 1..Len(output) /\ k # NbRead + 1
              BY <2>2, <2>3
            <7> QED BY <2>2, <5>1, <6>1, <7>1 DEF OutputInv
          <6> QED BY <6>1 DEF ValuesRead
        <5>3. Process!ValuesOf(l) = model
          <6>1. l.from = 1 /\ l.to = NVars /\ l.ended = TRUE
            BY <5>1 DEF WholeModel, Process!Line
          <6>2. \A v \in model : v >= 1 /\ v <= NVars
            BY ProcessAssumption DEF OutputInv, Process!VarIds
          <6> HIDE DEF l
          <6> QED BY <6>1, <6>2 DEF Process!ValuesOf
        <5>4. callModels = << >>
          BY <4>2, <5>2 DEF ModelsReadInv
        <5> QED BY <2>1, <3>1, <5>3, <5>4
      <4> QED BY <2>1, <2>4, <2>6, <3>1, <4>1, <4>2 DEF ModelsReadInv
    <3>2. CASE l.kind # "v"
      BY <2>1, <2>4, <2>6, <3>2 DEF ModelsReadInv
    <3> QED BY <3>1, <3>2
  <2>8. EndInv'
    <3>1. l.kind = "UNSATISFIABLE" => status = "UNSATISFIABLE"
      BY <2>2 DEF OutputInv
    <3> QED BY <2>1, <3>1 DEF EndInv
  <2> QED BY <2>2, <2>7, <2>8
<1>4. CASE Process!EndOfFile
  <2>1. /\ UNCHANGED <<status, model, output, toPrint, pipe, child, callModels, modelFound>>
        /\ parent = "reading" /\ parent' = "returned" /\ pipe = << >>
    BY <1>4 DEF Process!EndOfFile
  <2>2. OutputInv' /\ PipeInv' /\ NbRead' = NbRead
    BY <1>0, <2>1, PipeKept DEF found
  <2>3. ModelsReadInv'
    BY <2>1, <2>2, SameLines DEF ModelsReadInv, ValuesRead
  <2>4. ASSUME child = "exited", status = "SATISFIABLE" PROVE modelFound
    <3>1. toPrint = << >>
      BY <2>4 DEF EndInv
    <3>2. NbRead = Len(output)
      BY <2>1, <3>1, LenProperties DEF NbRead, OutputInv
    <3> QED BY <2>4, <3>2 DEF OutputInv, ModelsReadInv, ValuesRead
  <2>5. EndInv'
    BY <2>1, <2>4 DEF EndInv
  <2> QED BY <2>2, <2>3, <2>5
<1>5. CASE UNCHANGED processVars
  <2>1. UNCHANGED <<status, model, output, toPrint, pipe, child, parent, callModels, modelFound>>
    BY <1>5 DEF processVars
  <2>2. OutputInv' /\ PipeInv' /\ NbRead' = NbRead
    BY <1>0, <2>1, PipeKept DEF found
  <2>3. ModelsReadInv' /\ EndInv'
    BY <2>1, <2>2, SameLines DEF ModelsReadInv, ValuesRead, EndInv
  <2> QED BY <2>2, <2>3
<1> QED BY <1>1, <1>2, <1>3, <1>4, <1>5
        DEF Process!Next, Process!ChildStep, Process!ParentStep, Process!vars, processVars

\* A call takes every value line that was printed for a model, and nothing else: for
\* every formula, every model and every printing of it, when the solver or the call
\* fails as well.  So a model printed in one line is reported as it is.
THEOREM CallAlwaysTruthful == MCSpec => []CallTruthful
<1> DEFINE Inv == kind = "call" => CallInv
<1>1. MCInit => Inv
  BY StartCall DEF MCInit
<1>2. Inv /\ [MCNext]_mcVars => Inv'
  <2>1. ASSUME CallInv, UNCHANGED processVars PROVE CallInv'
    BY <2>1, CallStep
  <2>2. ASSUME CallInv, Process!Next PROVE CallInv'
    BY <2>2, CallStep
  <2> QED BY <2>1, <2>2 DEF MCNext, mcVars
<1>3. Inv => CallTruthful
  <2>1. ASSUME CallInv PROVE Process!ResultTruthful
    <3>1. status \in {"SATISFIABLE", "UNSATISFIABLE", "UNKNOWN"}
      BY <2>1, ProcessAssumption DEF CallInv, OutputInv
    <3>2. ASSUME modelFound PROVE status = "SATISFIABLE" /\ ValuesRead
      <4>1. PICK k \in 1..NbRead : output[k].kind = "v"
        BY <2>1, <3>2 DEF CallInv, ModelsReadInv, ValuesRead
      <4>2. k \in 1..Len(output)
        BY <2>1, LenProperties DEF CallInv, OutputInv, PipeInv, NbRead
      <4> QED BY <2>1, <4>1, <4>2 DEF CallInv, OutputInv, ValuesRead
    <3>3. modelFound <=> callModels # << >>
      <4>1. PICK at \in [DOMAIN callModels -> 1..NbRead] :
              \A m \in 1..NbRead : output[m].kind = "v" <=> \E k \in DOMAIN callModels : at[k] = m
        BY <2>1 DEF CallInv, ModelsReadInv, Process!LinesReported
      <4>2. ValuesRead <=> \E k \in DOMAIN callModels : TRUE
        BY <4>1 DEF ValuesRead
      <4>3. callModels \in Seq(SUBSET model)
        BY <2>1 DEF CallInv, ModelsReadInv
      <4>4. callModels # << >> <=> \E k \in DOMAIN callModels : TRUE
        BY <4>3, LenProperties, EmptySeq
      <4> QED BY <2>1, <4>2, <4>4 DEF CallInv, ModelsReadInv
    <3>4. ASSUME parent = "returned" PROVE Process!LinesReported(Len(output) - Len(toPrint))
      <4>1. /\ Process!LinesReported(NbRead) /\ Len(output) \in Nat /\ Len(pipe) \in Nat
            /\ Len(toPrint) \in Nat /\ NbRead = Len(output) - Len(pipe) - Len(toPrint)
        BY <2>1, LenProperties DEF CallInv, ModelsReadInv, OutputInv, PipeInv, NbRead
      <4>2. CASE pipe = << >>
        <5>1. NbRead = Len(output) - Len(toPrint)
          BY <4>1, <4>2
        <5> QED BY <4>1, <5>1
      <4>3. CASE status = "UNSATISFIABLE"
        <5>1. \A m \in 1..Len(output) : output[m].kind # "v"
          BY <2>1, <4>3 DEF CallInv, OutputInv
        <5>2. NbRead \in Nat /\ NbRead <= Len(output) /\ Len(output) - Len(toPrint) <= Len(output)
          BY <2>1, <4>1 DEF CallInv, PipeInv
        <5>3. PICK at \in [DOMAIN callModels -> 1..NbRead] :
                \A m \in 1..NbRead : output[m].kind = "v" <=> \E k \in DOMAIN callModels : at[k] = m
          BY <4>1 DEF Process!LinesReported
        <5>4. \A m \in 1..NbRead : m \in 1..Len(output)
          BY <4>1, <5>2
        <5>5. DOMAIN callModels = {}
          BY <5>1, <5>3, <5>4
        <5>6. at \in [DOMAIN callModels -> 1..(Len(output) - Len(toPrint))]
          BY <5>3, <5>5
        <5>7. \A m \in 1..(Len(output) - Len(toPrint)) : output[m].kind # "v"
          BY <4>1, <5>1, <5>2
        <5> QED BY <5>5, <5>6, <5>7 DEF Process!LinesReported
      <4> QED BY <2>1, <3>4, <4>2, <4>3 DEF CallInv, EndInv
    <3>5. modelFound /\ WholeModel \in Range(output) => callModels = <<model>>
      BY <2>1, <3>2 DEF CallInv, ModelsReadInv
    <3>6. parent = "returned" /\ ~modelFound /\ child = "exited" => status # "SATISFIABLE"
      BY <2>1 DEF CallInv, EndInv
    <3> QED BY <3>1, <3>2, <3>3, <3>5, <3>6, <3>4 DEF Process!ResultTruthful, WholeModel, Range, Process!Range
  <2> QED BY <2>1 DEF CallTruthful
<1> QED BY <1>1, <1>2, <1>3, PTL DEF MCSpec
----------------------------------------------------------------------------
(* The stable solver: invariants *)

\* The value of every variable in the model of the set S, when the selectors after
\* `from` and up to `last` are assumed and those up to `from` are retired.
FullReading(S, from, last) ==
  Canonical(semantics, Helper, Framework(dynStep + 1), S) \cup ((from + 1)..last)

\* The clause that blocks this model, with the next variable as its selector.
BlockedSet(S, from, last) ==
  Selected(Neg(FullReading(S, from, last)) \cup ((1..last) \ FullReading(S, from, last)),
           last + 1)

\* The text of the clauses: the encoding; the selectors up to `from` are retired;
\* each of the sets w is blocked by a clause with the next selector.
Text(from, w) ==
  LET C     == ClausesOf(semantics, Helper)
      first == NbVarsOf(Helper) + 1
  IN  /\ from \in Nat /\ NbVarsOf(Helper) <= from /\ nVars = from + Len(w)
      /\ w \in Seq(StepSets)
      /\ \A j, k \in 1..Len(w) : w[j] = w[k] => j = k
      /\ Clausal(newFormula) /\ Within(newFormula, nVars) /\ C \subseteq newFormula
      /\ \A v \in first..from : {-v} \in newFormula
      /\ \A j \in 1..Len(w) : BlockedSet(w[j], from, from + j - 1) \in newFormula
      /\ \A c \in newFormula \ C :
           \/ \E v \in first..from : -v \in c
           \/ \E j \in 1..Len(w) : c = BlockedSet(w[j], from, from + j - 1)

\* Between the calls of a task without enumerations, and up to the second
\* enumeration: all the selectors there are have been retired.
RestInv ==
  ~enumerating /\ (task = "EE" => dynStep = -1 \/ (dynStep = 0 /\ pc = "scan")) =>
    /\ Text(nVars, << >>)
    /\ task = "EE" /\ dynStep = -1 /\ pc = "scan" => nVars = NbVarsOf(Helper)

\* Inside one of the first two enumerations.
EnumerationInv ==
  enumerating =>
    /\ pc = "scan" /\ i = Len(dynAttacks) /\ task = "EE" /\ semantics = "ST"
    /\ dynStep <= 0 =>
         /\ Text(nVars - Len(written), written)
         /\ models \in Seq(SUBSET Nat) /\ Len(models) = Len(written)
         /\ dynStep = -1 => nVars = NbVarsOf(Helper) + Len(written)

\* The selectors of all the enumerations are those after the encoding's variables.
SelectorsInv ==
  task = "EE" =>
    /\ nVars \in Nat /\ NbVarsOf(Helper) <= nVars
    /\ blockingSelectors = [k \in 1..(nVars - NbVarsOf(Helper)) |-> NbVarsOf(Helper) + k]

SolverInv ==
  /\ SetupInv
  /\ ScanInv
  /\ enumerating \in BOOLEAN
  /\ RestInv
  /\ EnumerationInv
  /\ SelectorsInv
  /\ EarlyAnswersCorrect

----------------------------------------------------------------------------
(* One model for each stable extension *)

\* Every number of a stretch of two variables for each pair is one of them.
LEMMA DynVarsCover ==
  ASSUME TypeOK, Width = 2, NEW n \in Nat, NEW v \in Nat,
         v > n, v <= n + Width * Cardinality(DynPairs)
  PROVE  \E p \in DynPairs : v = FirstVar(n, p) \/ v = FirstVar(n, p) + 1
<1> DEFINE upto(r) == {q \in FirstRecords : q <= r}
<1>1. DOMAIN dynAttacks = 1..Len(dynAttacks) /\ Len(dynAttacks) \in Nat
  BY LenProperties DEF TypeOK
<1>2. FirstRecords \in SUBSET (1..Len(dynAttacks)) /\ FirstRecords \in SUBSET Nat
  BY <1>1 DEF FirstRecords
<1>3. IsFiniteSet(FirstRecords)
  <2>1. IsFiniteSet(1..Len(dynAttacks))
    BY <1>1, FS_Interval
  <2> QED BY <1>2, <2>1, FS_Subset
<1>4. DynPairs # {}
  <2>1. Cardinality({}) = 0
    BY FS_EmptySet
  <2> QED BY <2>1
<1>5. \A j, k \in FirstRecords : Pair(j) = Pair(k) => j = k
  <2>1. ASSUME NEW j \in FirstRecords, NEW k \in FirstRecords, Pair(j) = Pair(k) PROVE j = k
    <3>1. j \in Int /\ k \in Int /\ j >= 1 /\ k >= 1
      BY <1>1, <1>2
    <3>2. ~(j < k) /\ ~(k < j)
      BY <2>1, <3>1 DEF FirstRecords
    <3> QED BY <3>1, <3>2
  <2> QED BY <2>1
<1>6. Cardinality(DynPairs) \in Nat /\ Cardinality(DynPairs) = Cardinality(FirstRecords)
  <2> DEFINE f == [j \in FirstRecords |-> Pair(j)]
  <2>1. f \in Surjection(FirstRecords, DynPairs)
    <3>1. \A j \in FirstRecords : Pair(j) \in DynPairs
      BY DEF FirstRecords, DynPairs
    <3>2. \A q \in DynPairs : \E j \in FirstRecords : f[j] = q
      BY FirstRecordExists
    <3> QED BY <3>1, <3>2 DEF Surjection
  <2>2. f \in Injection(FirstRecords, DynPairs)
    <3>1. f \in [FirstRecords -> DynPairs] /\ \A j, k \in FirstRecords : f[j] = f[k] => j = k
      BY <1>5, <2>1 DEF Surjection
    <3> HIDE DEF f
    <3> QED BY <3>1 DEF Injection, IsInjective
  <2> HIDE DEF f
  <2> QED BY <1>3, <2>1, <2>2, FS_Surjection, FS_CardinalityType
<1>7. PICK k \in 1..Cardinality(DynPairs) : v = n + 2 * (k - 1) + 1 \/ v = n + 2 * (k - 1) + 2
  <2> DEFINE m == Cardinality(DynPairs)
  <2>1. m \in Nat /\ v <= n + 2 * m
    BY <1>6
  <2> HIDE DEF m
  <2>2. PICK q \in Nat : v - n = 2 * q + 1 \/ v - n = 2 * q + 2
    <3> DEFINE enough == {q \in Nat : v - n <= 2 * q + 2}
    <3>1. enough \in SUBSET Nat /\ v \in enough
      OBVIOUS
    <3>2. PICK q \in enough : \A p \in enough : q <= p
      <4> HIDE DEF enough
      <4> QED BY <3>1, LeastElement
    <3>3. q \in Nat /\ v - n <= 2 * q + 2
      OBVIOUS
    <3>4. q = 0 \/ v - n > 2 * q
      <4>1. CASE q > 0
        <5>1. q - 1 \in Nat /\ ~(q <= q - 1)
          BY <3>3, <4>1
        <5>2. q - 1 \notin enough
          BY <3>2, <5>1
        <5> QED BY <5>1, <5>2
      <4> QED BY <3>3, <4>1
    <3> QED BY <3>3, <3>4
  <2>3. q + 1 \in 1..m /\ (q + 1) - 1 = q
    BY <2>1, <2>2
  <2>4. v = n + 2 * q + 1 \/ v = n + 2 * q + 2
    BY <2>2
  <2> QED BY <2>3, <2>4 DEF m
<1>8. PICK r \in FirstRecords : Cardinality(upto(r)) = k
  <2> HIDE DEF upto
  <2> QED BY <1>2, <1>3, <1>6, <1>7, RankInSet DEF upto
<1>9. Rank(r) = k - 1
  <2> DEFINE before == {q \in FirstRecords : q < r}
  <2>1. before \in SUBSET FirstRecords /\ r \notin before /\ upto(r) = before \cup {r}
    <3>1. r \in Nat /\ ~(r < r) /\ \A q \in Nat : q <= r <=> q < r \/ q = r
      BY <1>2
    <3> QED BY <1>2, <3>1
  <2> HIDE DEF before, upto
  <2>2. IsFiniteSet(before)
    BY <1>3, <2>1, FS_Subset
  <2>3. Cardinality(upto(r)) = Cardinality(before) + 1 /\ Cardinality(before) \in Nat
    BY <2>1, <2>2, FS_AddElement, FS_CardinalityType
  <2>4. Rank(r) = Cardinality(before)
    BY DEF Rank, before
  <2> QED BY <1>8, <2>3, <2>4
<1>10. Pair(r) \in DynPairs /\ FirstRecordOf(Pair(r)) = r
  <2>1. Pair(r) \in DynPairs
    BY DEF FirstRecords, DynPairs
  <2> QED BY <1>5, <2>1, FirstRecordExists
<1>11. FirstVar(n, Pair(r)) = n + 2 * (k - 1) + 1
  BY <1>9, <1>10 DEF FirstVar
<1>12. FirstVar(n, Pair(r)) + 1 = n + 2 * (k - 1) + 2
  <2>1. k \in Int
    BY <1>7
  <2> QED BY <1>11, <2>1
<1> QED BY <1>7, <1>10, <1>11, <1>12

\* The attacks and the set give every variable of the stable encoding its value.
LEMMA StableReading ==
  ASSUME TypeOK, NEW h, NEW n, Encodes("ST", h, n),
         \A v \in 1..n : \E x \in Arg : h.var[x] = v,
         NEW A, NEW R, NEW S \in SUBSET Arg, ReadsAttacks(h, A, R, S)
  PROVE  A \cap (1..NbVarsOf(h)) = Canonical("ST", h, R, S)
<1> DEFINE C == Canonical("ST", h, R, S)
           N == NbVarsOf(h)
<1>1. C \in SUBSET (1..N) /\ ReadsAttacks(h, C, R, S)
  <2>1. \A x, y \in Arg : h.var[x] = h.var[y] => (x \in S <=> y \in S)
    BY DEF ReadsAttacks
  <2> QED BY <2>1, CanonicalReads
<1>2. n \in Nat /\ h.base = n /\ Width = 2 /\ N = n + Width * Cardinality(DynPairs)
  BY DEF Encodes, Width, NbVarsOf
<1>3. \A p \in DynPairs : Repl(h, p) = FirstVar(n, p) /\ Assump(h, p) = FirstVar(n, p) + 1
  <2>1. \A p \in DynPairs : FirstVar(n, p) \in Nat
    BY <1>2, DynVars
  <2> QED BY <1>2, <2>1 DEF Repl, Assump
<1> HIDE DEF C, N
<1>4. ASSUME NEW v \in 1..N PROVE v \in A <=> v \in C
  <2>1. v \in Nat /\ 1 <= v /\ v <= N
    <3>1. N \in Nat
      BY HelperVars DEF N
    <3> QED BY <3>1
  <2>2. CASE v \in 1..n
    BY <1>1, <2>2 DEF ReadsAttacks
  <2>3. CASE v > n
    <3>1. PICK p \in DynPairs : v = FirstVar(n, p) \/ v = FirstVar(n, p) + 1
      BY <1>2, <2>1, <2>3, DynVarsCover
    <3>2. v = Repl(h, p) \/ v = Assump(h, p)
      BY <1>3, <3>1
    <3> QED BY <1>1, <3>2 DEF ReadsAttacks
  <2> QED BY <1>2, <2>1, <2>2, <2>3
<1> QED BY <1>1, <1>4 DEF C, N

\* What the model of a set holds.
LEMMA FullReadingExact ==
  ASSUME SetupInv, ScanInv, semantics = "ST", pc = "scan", i = Len(dynAttacks),
         NEW S \in StepSets, NEW from \in Nat, NbVarsOf(Helper) <= from,
         NEW last \in Nat, from <= last
  PROVE  LET A == FullReading(S, from, last)
         IN  /\ A \in SUBSET (1..last)
             /\ ReadsAttacks(Helper, A, Framework(dynStep + 1), S)
             /\ \A x \in Arg : varOf[x] \in 1..NbVarsOf(Helper) /\ (varOf[x] \in A <=> x \in S)
             /\ Decode(A) = S
             /\ \A v \in (NbVarsOf(Helper) + 1)..last : v \in A <=> v > from
             /\ \A m \in from..last : A \cap (1..m) = FullReading(S, from, m)
<1> DEFINE A == FullReading(S, from, last)
           R == Framework(dynStep + 1)
           N == NbVarsOf(Helper)
           C == Canonical(semantics, Helper, R, S)
<1>1. /\ TypeOK /\ Encodes(semantics, Helper, nArgs) /\ Helper.var = varOf
      /\ StepFramework(R)
  BY HelperEncodes, AssumptionsExact DEF SetupInv, Base
<1>2. /\ S \in SUBSET Arg
      /\ \A x, y \in Arg : Helper.var[x] = Helper.var[y] => (x \in S <=> y \in S)
  BY <1>1, CodedExact DEF StepSets, SetupInv, MapExact
<1>3. C \in SUBSET (1..N) /\ ReadsAttacks(Helper, C, R, S)
  BY <1>1, <1>2, CanonicalReads
<1>4. /\ N \in Nat
      /\ \A x \in Arg : varOf[x] \in Nat /\ 1 <= varOf[x] /\ varOf[x] <= N
      /\ \A p \in DynPairs : /\ Repl(Helper, p) \in Nat /\ Repl(Helper, p) <= N
                             /\ Assump(Helper, p) \in Nat /\ Assump(Helper, p) <= N
  <2>1. /\ nArgs \in Nat /\ Helper.base \in Nat /\ nArgs <= Helper.base
        /\ NbVarsOf(Helper) \in Nat /\ Helper.base <= NbVarsOf(Helper)
    BY <1>1, HelperVars
  <2>2. \A x \in Arg : varOf[x] \in Nat \ {0} /\ varOf[x] <= nArgs
    BY <1>1, HelperVars
  <2> QED BY <1>1, <2>1, <2>2, HelperVars
<1>5. \A m \in Nat : FullReading(S, from, m) = C \cup ((from + 1)..m)
  BY DEF FullReading
<1> HIDE DEF C, N
<1>6. N <= from
  BY DEF N
<1>7. A = C \cup ((from + 1)..last)
  BY <1>5
<1> HIDE DEF A, R
<1>8. \A v \in Nat : v <= N => (v \in A <=> v \in C)
  BY <1>4, <1>6, <1>7
<1>9. A \in SUBSET (1..last)
  BY <1>3, <1>4, <1>6, <1>7
<1>10. ReadsAttacks(Helper, A, R, S)
  BY <1>1, <1>3, <1>4, <1>8 DEF ReadsAttacks
<1>11. \A x \in Arg : varOf[x] \in 1..N /\ (varOf[x] \in A <=> x \in S)
  BY <1>1, <1>4, <1>10 DEF ReadsAttacks
<1>12. Decode(A) = S
  BY <1>2, <1>11 DEF Decode
<1>13. \A v \in (N + 1)..last : v \in A <=> v > from
  BY <1>3, <1>4, <1>6, <1>7
<1>14. \A m \in from..last : A \cap (1..m) = FullReading(S, from, m)
  <2>1. ASSUME NEW m \in from..last PROVE A \cap (1..m) = C \cup ((from + 1)..m)
    <3>1. \A v \in C : v \in 1..m
      BY <1>3, <1>4, <1>6
    <3>2. ((from + 1)..last) \cap (1..m) = (from + 1)..m
      BY <1>4
    <3> QED BY <1>7, <3>1, <3>2
  <2> QED BY <1>5, <2>1
<1> QED BY <1>9, <1>10, <1>11, <1>12, <1>13, <1>14 DEF A, N, R

\* A blocking clause is false in the model that it is made for, while its selector
\* is assumed.
LEMMA BlocksItself ==
  ASSUME NEW last \in Nat, NEW T \in SUBSET (1..last),
         NEW A, A \cap (1..last) = T, last + 1 \in A
  PROVE  ~ \E l \in Selected(Neg(T) \cup ((1..last) \ T), last + 1) : IsTrue(A, l)
<1>1. ASSUME NEW v \in T PROVE ~IsTrue(A, -v)
  BY PositiveTrue
<1>2. ASSUME NEW v \in (1..last) \ T PROVE ~IsTrue(A, v)
  BY PositiveTrue
<1>3. ~IsTrue(A, -(last + 1))
  <2>1. last + 1 \in Nat \ {0}
    OBVIOUS
  <2> QED BY <2>1, PositiveTrue
<1> QED BY <1>1, <1>2, <1>3 DEF Selected, Neg

\* The numbers that a text speaks of.
LEMMA TextBounds ==
  ASSUME SetupInv, NEW from, NEW w, Text(from, w)
  PROVE  /\ NbVarsOf(Helper) \in Nat /\ from \in Nat /\ NbVarsOf(Helper) <= from
         /\ Len(w) \in Nat /\ nVars \in Nat /\ nVars = from + Len(w) /\ from <= nVars
         /\ \A j \in 1..Len(w) : /\ w[j] \in StepSets
                                 /\ j \in Nat /\ from + j - 1 \in Nat /\ from <= from + j - 1
                                 /\ from + j - 1 + 1 = from + j
                                 /\ from + j \in (from + 1)..nVars /\ from + j - 1 \in from..nVars
         /\ Range(w) = {w[j] : j \in 1..Len(w)}
<1>1. NbVarsOf(Helper) \in Nat
  BY ArgumentLiteralsReadable
<1>2. /\ from \in Nat /\ NbVarsOf(Helper) <= from /\ nVars = from + Len(w)
      /\ w \in Seq(StepSets)
  BY DEF Text
<1>3. Len(w) \in Nat /\ DOMAIN w = 1..Len(w) /\ \A j \in 1..Len(w) : w[j] \in StepSets
  BY <1>2, LenProperties, ElementOfSeq
<1>4. Range(w) = {w[j] : j \in 1..Len(w)}
  BY <1>3 DEF Range
<1> QED BY <1>1, <1>2, <1>3, <1>4

\* What a model of the text reads as is a set that has not been found.
LEMMA ModelIsReading ==
  ASSUME SetupInv, ScanInv, semantics = "ST", pc = "scan", i = Len(dynAttacks),
         NEW from, NEW w, Text(from, w), NEW A \in Assignments,
         Satisfies(A, newFormula), Agrees(A, Assumptions), Agrees(A, (from + 1)..nVars)
  PROVE  \E S \in StepSets \ Range(w) : A \cap (1..nVars) = FullReading(S, from, nVars)
<1> DEFINE R == Framework(dynStep + 1)
           N == NbVarsOf(Helper)
           S == {x \in Arg : varOf[x] \in A}
           C == Canonical(semantics, Helper, R, S)
<1>1. /\ TypeOK /\ Encodes(semantics, Helper, nArgs) /\ Helper.var = varOf
      /\ \A v \in 1..nArgs : \E x \in Arg : Helper.var[x] = v
      /\ StepFramework(R) /\ Switches(Helper, Assumptions, R)
  BY HelperEncodes, AssumptionsExact DEF SetupInv, Base
<1>2. /\ N \in Nat /\ from \in Nat /\ N <= from /\ nVars \in Nat /\ from <= nVars
  BY TextBounds
<1>3. Satisfies(A, ClausesOf(semantics, Helper))
  BY DEF Text, Satisfies
<1>4. S \in StepSets /\ ReadsAttacks(Helper, A, R, S)
  <2>1. \A p \in DynPairs : Assump(Helper, p) \in A <=> p \in R
    BY <1>1 DEF Switches
  <2>2. S = {x \in Arg : Helper.var[x] \in A}
    BY <1>1
  <2> HIDE DEF S, R
  <2>3. S \in Encoded(semantics, R) /\ ReadsAttacks(Helper, A, R, S)
    BY <1>1, <1>3, <2>1, <2>2, EncodingSound
  <2> QED BY <2>3 DEF StepSets, R
<1>5. S \in SUBSET Arg
  OBVIOUS
<1> HIDE DEF S
<1>6. A \cap (1..N) = C
  BY <1>1, <1>4, <1>5, StableReading
<1>7. ASSUME NEW v \in (N + 1)..from PROVE v \notin A
  <2>1. {-v} \in newFormula
    BY <1>7 DEF Text
  <2>2. IsTrue(A, -v)
    BY <2>1 DEF Satisfies
  <2>3. v \in Nat \ {0}
    BY <1>2
  <2> QED BY <2>2, <2>3, PositiveTrue
<1>8. ASSUME NEW v \in (from + 1)..nVars PROVE v \in A
  <2>1. v \in Nat \ {0}
    BY <1>2
  <2> QED BY <1>8, <2>1, PositiveTrue DEF Agrees
<1>9. A \cap (1..nVars) = C \cup ((from + 1)..nVars)
  <2>1. C \subseteq A \cap (1..nVars)
    BY <1>2, <1>6
  <2>2. (from + 1)..nVars \subseteq A \cap (1..nVars)
    BY <1>2, <1>8
  <2>3. ASSUME NEW v \in A \cap (1..nVars) PROVE v \in C \cup ((from + 1)..nVars)
    <3>1. v \in 1..N \/ v \in (N + 1)..from \/ v \in (from + 1)..nVars
      BY <1>2
    <3> QED BY <1>6, <1>7, <3>1
  <2> QED BY <2>1, <2>2, <2>3
<1>10. A \cap (1..nVars) = FullReading(S, from, nVars)
  BY <1>9 DEF FullReading
<1>11. S \notin Range(w)
  <2> SUFFICES ASSUME NEW j \in 1..Len(w), S = w[j] PROVE FALSE
    BY TextBounds
  <2> DEFINE last == from + j - 1
             T == FullReading(S, from, last)
  <2>1. last \in Nat /\ from <= last /\ last \in from..nVars /\ last + 1 \in (from + 1)..nVars
    BY TextBounds
  <2>2. T \in SUBSET (1..last) /\ FullReading(S, from, nVars) \cap (1..last) = T
    BY <1>2, <1>4, <2>1, FullReadingExact
  <2> HIDE DEF last
  <2>3. A \cap (1..last) = T /\ last + 1 \in A
    <3>1. (1..nVars) \cap (1..last) = 1..last
      BY <1>2, <2>1
    <3> QED BY <1>8, <1>10, <2>1, <2>2, <3>1
  <2>4. BlockedSet(S, from, last) \in newFormula
    BY DEF Text, last
  <2>5. BlockedSet(S, from, last) = Selected(Neg(T) \cup ((1..last) \ T), last + 1)
    BY DEF BlockedSet
  <2> HIDE DEF T
  <2>6. ~ \E l \in BlockedSet(S, from, last) : IsTrue(A, l)
    BY <2>1, <2>2, <2>3, <2>5, BlocksItself
  <2> QED BY <2>4, <2>6 DEF Satisfies
<1> QED BY <1>4, <1>10, <1>11

\* Conversely every set that has not been found has its model.
LEMMA ReadingIsModel ==
  ASSUME SetupInv, ScanInv, semantics = "ST", pc = "scan", i = Len(dynAttacks),
         NEW from, NEW w, Text(from, w), NEW S \in StepSets, S \notin Range(w)
  PROVE  LET A == FullReading(S, from, nVars)
         IN  /\ A \in Assignments /\ A \cap (1..nVars) = A
             /\ Satisfies(A, newFormula)
             /\ Agrees(A, Assumptions) /\ Agrees(A, (from + 1)..nVars)
<1> DEFINE A == FullReading(S, from, nVars)
           R == Framework(dynStep + 1)
           N == NbVarsOf(Helper)
<1>1. /\ TypeOK /\ Encodes(semantics, Helper, nArgs)
      /\ StepFramework(R) /\ Switches(Helper, Assumptions, R)
  BY HelperEncodes, AssumptionsExact DEF SetupInv, Base
<1>2. /\ N \in Nat /\ from \in Nat /\ N <= from /\ nVars \in Nat /\ from <= nVars
  BY TextBounds
<1>3. /\ A \in SUBSET (1..nVars)
      /\ ReadsAttacks(Helper, A, R, S)
      /\ \A x \in Arg : varOf[x] \in 1..N /\ (varOf[x] \in A <=> x \in S)
      /\ \A v \in (N + 1)..nVars : v \in A <=> v > from
  BY <1>2, FullReadingExact
<1> HIDE DEF A
<1>4. A \in Assignments /\ A \cap (1..nVars) = A
  <2>1. \A v \in 1..nVars : v \in Nat \ {0}
    BY <1>2
  <2> QED BY <1>3, <2>1 DEF Assignments
<1>5. Satisfies(A, ClausesOf(semantics, Helper))
  <2>1. S \in Encoded(semantics, R)
    BY DEF StepSets
  <2> QED BY <1>1, <1>3, <2>1, EncodingComplete
<1>6. Agrees(A, Assumptions)
  BY <1>1, <1>3 DEF ReadsAttacks, Switches
<1>7. ASSUME NEW v \in (from + 1)..nVars PROVE IsTrue(A, v)
  <2>1. v \in (N + 1)..nVars /\ v > from /\ v \in Nat \ {0}
    BY <1>2
  <2> QED BY <1>3, <2>1, PositiveTrue
<1>8. ASSUME NEW v \in (N + 1)..from PROVE IsTrue(A, -v)
  <2>1. v \in (N + 1)..nVars /\ ~(v > from) /\ v \in Nat \ {0}
    BY <1>2
  <2> QED BY <1>3, <2>1, PositiveTrue
<1>9. ASSUME NEW j \in 1..Len(w)
      PROVE  \E l \in BlockedSet(w[j], from, from + j - 1) : IsTrue(A, l)
  <2> DEFINE last == from + j - 1
             T == FullReading(w[j], from, last)
  <2>1. last \in Nat /\ from <= last /\ w[j] \in StepSets /\ w[j] # S
    BY TextBounds
  <2>2. \A x \in Arg : varOf[x] \in 1..N /\ (varOf[x] \in T <=> x \in w[j])
    BY <1>2, <2>1, FullReadingExact
  <2>3. BlockedSet(w[j], from, last) = Selected(Neg(T) \cup ((1..last) \ T), last + 1)
    BY DEF BlockedSet
  <2>4. PICK x \in Arg : ~(x \in S <=> x \in w[j])
    <3>1. S \in SUBSET Arg /\ w[j] \in SUBSET Arg
      BY <1>1, <2>1, CodedExact DEF StepSets
    <3> QED BY <2>1, <3>1
  <2>5. varOf[x] \in 1..last /\ varOf[x] \in Nat \ {0}
    BY <1>2, <2>1, <2>2
  <2> HIDE DEF T, last
  <2>6. CASE x \in w[j]
    <3>1. -varOf[x] \in Neg(T)
      BY <2>2, <2>6 DEF Neg
    <3>2. IsTrue(A, -varOf[x])
      BY <1>3, <2>4, <2>5, <2>6, PositiveTrue
    <3> QED BY <2>3, <3>1, <3>2 DEF Selected, last
  <2>7. CASE x \notin w[j]
    <3>1. varOf[x] \in (1..last) \ T
      BY <2>2, <2>5, <2>7
    <3>2. IsTrue(A, varOf[x])
      BY <1>3, <2>4, <2>5, <2>7, PositiveTrue
    <3> QED BY <2>3, <3>1, <3>2 DEF Selected, last
  <2> QED BY <2>6, <2>7
<1>10. Satisfies(A, newFormula)
  <2>1. \A c \in newFormula \ ClausesOf(semantics, Helper) :
          \/ \E v \in (N + 1)..from : -v \in c
          \/ \E j \in 1..Len(w) : c = BlockedSet(w[j], from, from + j - 1)
    BY DEF Text
  <2>2. ASSUME NEW c \in newFormula PROVE \E l \in c : IsTrue(A, l)
    <3>1. CASE c \in ClausesOf(semantics, Helper)
      BY <1>5, <3>1 DEF Satisfies
    <3>2. CASE c \notin ClausesOf(semantics, Helper)
      BY <1>8, <1>9, <2>1, <3>2
    <3> QED BY <3>1, <3>2
  <2> QED BY <2>2 DEF Satisfies
<1>11. Agrees(A, (from + 1)..nVars)
  BY <1>7 DEF Agrees
<1> QED BY <1>4, <1>6, <1>10, <1>11 DEF A

\* The full models of a call, under the assumptions of the step, of the selectors
\* of the enumeration and of the question Q: one for each stable extension of the
\* step that has not been found.
LEMMA CallFullModels ==
  ASSUME SetupInv, ScanInv, semantics = "ST", pc = "scan", i = Len(dynAttacks),
         NEW from, NEW w, Text(from, w), NEW Q \in SUBSET ArgumentLiterals
  PROVE  FullModelsOf(Assumptions \cup ((from + 1)..nVars) \cup Q) =
           {FullReading(S, from, nVars) :
              S \in {X \in StepSets \ Range(w) : Agrees(FullReading(X, from, nVars), Q)}}
<1> DEFINE all == Assumptions \cup ((from + 1)..nVars) \cup Q
           read(S) == FullReading(S, from, nVars)
<1>1. /\ from \in Nat /\ nVars \in Nat /\ NbVarsOf(Helper) \in Nat
      /\ NbVarsOf(Helper) <= from /\ from <= nVars
  BY TextBounds
<1>2. Q \in SUBSET Readable(Helper) /\ Helper.base \in Nat /\ Helper.base <= nVars
  BY <1>1, ArgumentLiteralsReadable
<1>3. all \in SUBSET Literal
  <2>1. (from + 1)..nVars \subseteq Literal
    BY <1>1 DEF Literal
  <2> QED BY <1>2, <2>1, AssumptionsExact DEF Readable
<1>4. \A A : Agrees(A, all) <=> /\ Agrees(A, Assumptions) /\ Agrees(A, (from + 1)..nVars)
                                   /\ Agrees(A, Q)
  BY DEF Agrees
<1> HIDE DEF all
<1>5. FullModelsOf(all) =
        {A \cap (1..nVars) : A \in {B \in Assignments : Satisfies(B, newFormula) /\ Agrees(B, all)}}
  BY <1>1, <1>3, FullModelsExact DEF FullModelsOf, Text
<1>6. ASSUME NEW A PROVE Agrees(A, Q) <=> Agrees(A \cap (1..nVars), Q)
  <2>1. ASSUME NEW l \in Q PROVE IsTrue(A, l) <=> IsTrue(A \cap (1..nVars), l)
    <3>1. /\ l \in Int /\ l # 0 /\ l <= nVars /\ -l <= nVars
      BY <1>1, <1>2 DEF Readable, Literal
    <3>2. (l > 0 => l \in 1..nVars) /\ (~(l > 0) => -l \in 1..nVars)
      BY <1>1, <3>1
    <3> QED BY <3>2 DEF IsTrue
  <2> QED BY <2>1 DEF Agrees
<1>7. ASSUME NEW A \in Assignments, Satisfies(A, newFormula), Agrees(A, all)
      PROVE  \E S \in StepSets \ Range(w) : A \cap (1..nVars) = read(S) /\ Agrees(read(S), Q)
  <2>1. PICK S \in StepSets \ Range(w) : A \cap (1..nVars) = FullReading(S, from, nVars)
    BY <1>4, <1>7, ModelIsReading
  <2> QED BY <1>4, <1>6, <1>7, <2>1
<1>8. ASSUME NEW S \in StepSets \ Range(w), Agrees(read(S), Q)
      PROVE  /\ read(S) \in Assignments /\ Satisfies(read(S), newFormula)
             /\ Agrees(read(S), all) /\ read(S) = read(S) \cap (1..nVars)
  BY <1>4, <1>8, ReadingIsModel
<1>9. \A S : read(S) = FullReading(S, from, nVars)
  OBVIOUS
<1> HIDE DEF read
<1>10. FullModelsOf(all) = {read(S) : S \in {X \in StepSets \ Range(w) : Agrees(read(X), Q)}}
  <2>1. ASSUME NEW T \in FullModelsOf(all)
        PROVE  T \in {read(S) : S \in {X \in StepSets \ Range(w) : Agrees(read(X), Q)}}
    <3>1. PICK A \in Assignments : /\ Satisfies(A, newFormula) /\ Agrees(A, all)
                                   /\ T = A \cap (1..nVars)
      BY <1>5
    <3>2. PICK S \in StepSets \ Range(w) : T = read(S) /\ Agrees(read(S), Q)
      BY <1>7, <3>1
    <3> QED BY <3>2
  <2>2. ASSUME NEW S \in StepSets \ Range(w), Agrees(read(S), Q)
        PROVE  read(S) \in FullModelsOf(all)
    <3>1. /\ read(S) \in Assignments /\ Satisfies(read(S), newFormula)
          /\ Agrees(read(S), all) /\ read(S) = read(S) \cap (1..nVars)
      BY <1>8, <2>2
    <3> QED BY <1>5, <3>1
  <2> QED BY <2>1, <2>2
<1> QED BY <1>9, <1>10 DEF all

----------------------------------------------------------------------------
(* The text from one state to the next *)

\* The blocking clauses and the models of a step depend on its framework only.
LEMMA ReadingsFixed ==
  ASSUME UNCHANGED <<problem, setup>>
  PROVE  /\ NbVarsOf(Helper)' = NbVarsOf(Helper)
         /\ ClausesOf(semantics, Helper)' = ClausesOf(semantics, Helper)
         /\ dynStep' = dynStep =>
              /\ StepSets' = StepSets
              /\ \A S, from, last : BlockedSet(S, from, last)' = BlockedSet(S, from, last)
<1>1. Helper' = Helper /\ semantics' = semantics /\ varOf' = varOf
  BY DEF setup, Helper
<1>2. \A n : Framework(n)' = Framework(n)
  BY ExtensionsFixed
<1>3. \A s, h, R, S : Canonical(s, h, R, S)' = Canonical(s, h, R, S)
  BY VariablesFixed DEF Canonical
<1>4. ASSUME dynStep' = dynStep
      PROVE  /\ StepSets' = StepSets
             /\ \A S, from, last : BlockedSet(S, from, last)' = BlockedSet(S, from, last)
  <2>1. Framework(dynStep + 1)' = Framework(dynStep + 1)
    BY <1>2, <1>4
  <2>2. \A S, from, last : FullReading(S, from, last)' = FullReading(S, from, last)
    BY <1>1, <1>3, <2>1 DEF FullReading
  <2> QED BY <1>1, <2>1, <2>2 DEF StepSets, BlockedSet
<1> QED BY <1>1, <1>4, ClausesFixed

\* With nothing to enumerate, the text is the same for every step.
LEMMA RestTextKept ==
  ASSUME Text(nVars, << >>), UNCHANGED <<problem, setup>>, newFormula' = newFormula, nVars' = nVars
  PROVE  Text(nVars, << >>)'
<1> DEFINE none == << >>
<1>1. Text(nVars, none)
  OBVIOUS
<1>2. none \in Seq(StepSets') /\ Len(none) = 0 /\ 1..Len(none) = {}
  OBVIOUS
<1> HIDE DEF none
<1>3. Text(nVars, none)'
  BY <1>1, <1>2, ReadingsFixed DEF Text, Within
<1> QED BY <1>3 DEF none

\* Inside an enumeration nothing of the text changes but by a new model.
LEMMA EnumeratedTextKept ==
  ASSUME Text(nVars - Len(written), written), UNCHANGED <<problem, setup>>,
         UNCHANGED <<newFormula, nVars, written, dynStep>>
  PROVE  Text(nVars - Len(written), written)'
BY ReadingsFixed DEF Text, Within

\* A new model: its blocking clause, with the next variable as selector.
LEMMA TextGrows ==
  ASSUME SetupInv, ScanInv, semantics = "ST", pc = "scan", i = Len(dynAttacks),
         UNCHANGED <<vars, setup>>,
         NEW from, NEW w, Text(from, w), NEW S \in StepSets, S \notin Range(w),
         newFormula' = newFormula \cup {BlockedSet(S, from, nVars)}, nVars' = nVars + 1,
         written' = Append(w, S)
  PROVE  Text(nVars - Len(written), written)' /\ nVars' - Len(written') = from
<1> DEFINE n == Len(w)
           N == NbVarsOf(Helper)
           C == ClausesOf(semantics, Helper)
           new == BlockedSet(S, from, nVars)
           T == FullReading(S, from, nVars)
<1>1. /\ w \in Seq(StepSets) /\ Clausal(newFormula) /\ Within(newFormula, nVars)
      /\ C \subseteq newFormula
      /\ \A v \in (N + 1)..from : {-v} \in newFormula
      /\ \A j, k \in 1..n : w[j] = w[k] => j = k
      /\ \A j \in 1..n : BlockedSet(w[j], from, from + j - 1) \in newFormula
      /\ \A c \in newFormula \ C :
           \/ \E v \in (N + 1)..from : -v \in c
           \/ \E j \in 1..n : c = BlockedSet(w[j], from, from + j - 1)
  BY DEF Text
<1>2. /\ N \in Nat /\ from \in Nat /\ N <= from /\ n \in Nat /\ nVars \in Nat
      /\ nVars = from + n /\ from <= nVars
      /\ Range(w) = {w[j] : j \in 1..n}
  BY TextBounds
<1>3. /\ written' \in Seq(StepSets) /\ Len(written') = n + 1
      /\ \A k \in 1..n : written'[k] = w[k]
      /\ written'[n + 1] = S
  BY <1>1, AppendProperties
<1>4. T \in SUBSET (1..nVars)
  BY <1>2, FullReadingExact
<1>5. new = Selected(Neg(T) \cup ((1..nVars) \ T), nVars + 1)
  BY DEF BlockedSet
<1> HIDE DEF T, n
<1>6. \A l \in new : /\ l \in Literal
                     /\ l <= nVars + 1 /\ -l <= nVars + 1
  <2>1. ASSUME NEW l \in new
        PROVE  (\E v \in 1..nVars : l = v \/ l = -v) \/ l = -(nVars + 1)
    BY <1>4, <1>5 DEF Selected, Neg
  <2>2. \A v \in 1..nVars : /\ v \in Literal /\ -v \in Literal
                            /\ v <= nVars + 1 /\ -v <= nVars + 1 /\ -(-v) <= nVars + 1
    BY <1>2 DEF Literal
  <2>3. /\ -(nVars + 1) \in Literal
        /\ -(nVars + 1) <= nVars + 1 /\ -(-(nVars + 1)) <= nVars + 1
    BY <1>2 DEF Literal
  <2> QED BY <2>1, <2>2, <2>3
<1>7. Clausal({new})
  <2>1. IsFiniteSet(new)
    <3>1. IsFiniteSet((-(nVars + 1))..(nVars + 1))
      <4>1. -(nVars + 1) \in Int /\ nVars + 1 \in Int
        BY <1>2
      <4> QED BY <4>1, FS_Interval
    <3>2. new \in SUBSET ((-(nVars + 1))..(nVars + 1))
      <4>1. ASSUME NEW l \in Literal, l <= nVars + 1, -l <= nVars + 1
            PROVE  l \in (-(nVars + 1))..(nVars + 1)
        BY <1>2, <4>1 DEF Literal
      <4> HIDE DEF new
      <4> QED BY <1>6, <4>1
    <3> QED BY <3>1, <3>2, FS_Subset
  <2>2. UNION {new} = new
    OBVIOUS
  <2> HIDE DEF new
  <2> QED BY <1>6, <2>1, <2>2 DEF Clausal
<1>8. Clausal(newFormula') /\ Within(newFormula', nVars')
  <2>1. Clausal(newFormula')
    BY <1>1, <1>7, ClausalUnion
  <2>2. ASSUME NEW l \in UNION newFormula PROVE l <= nVars + 1 /\ -l <= nVars + 1
    <3>1. l \in Int /\ l <= nVars /\ -l <= nVars
      BY <1>1 DEF Clausal, Literal, Within
    <3> QED BY <1>2, <3>1
  <2> HIDE DEF new
  <2>3. newFormula' = newFormula \cup {new}
    BY DEF new
  <2> QED BY <1>6, <2>1, <2>2, <2>3 DEF Within
<1>9. /\ N' = N /\ C' = C /\ StepSets' = StepSets
      /\ \A X, f, last : BlockedSet(X, f, last)' = BlockedSet(X, f, last)
  BY ReadingsFixed DEF vars
<1> HIDE DEF N, C
<1>10. /\ nVars' = from + (n + 1) /\ nVars' - Len(written') = from
       /\ from + (n + 1) - 1 = nVars
  BY <1>2, <1>3
<1>11. \A k \in 1..(n + 1) : k \in 1..n \/ k = n + 1
  BY <1>2
<1>12. 1..n \subseteq 1..(n + 1) /\ n + 1 \in 1..(n + 1)
  BY <1>2
<1>13. \A j, k \in 1..(n + 1) : written'[j] = written'[k] => j = k
  BY <1>1, <1>2, <1>3, <1>11
<1> HIDE DEF new
<1>14. newFormula' = newFormula \cup {new} /\ new = BlockedSet(S, from, from + (n + 1) - 1)
  BY <1>10 DEF new
<1>15. \A j \in 1..(n + 1) : BlockedSet(written'[j], from, from + j - 1) \in newFormula'
  BY <1>1, <1>3, <1>11, <1>14
<1>16. ASSUME NEW c \in newFormula', c \notin C
       PROVE  \/ \E v \in (N + 1)..from : -v \in c
              \/ \E j \in 1..(n + 1) : c = BlockedSet(written'[j], from, from + j - 1)
  <2>1. CASE c = new
    BY <1>3, <1>12, <1>14, <2>1
  <2>2. CASE c \in newFormula
    BY <1>1, <1>3, <1>12, <1>16, <2>2
  <2> QED BY <1>14, <2>1, <2>2
<1>17. Text(nVars - Len(written), written)'
  <2>1. /\ (nVars - Len(written))' = from /\ Len(written)' = n + 1 /\ nVars' = from + (n + 1)
        /\ C \subseteq newFormula' /\ \A v \in (N + 1)..from : {-v} \in newFormula'
    BY <1>1, <1>3, <1>10, <1>14
  <2>0. NbVarsOf(Helper)' = N /\ ClausesOf(semantics, Helper)' = C
    BY <1>9 DEF N, C
  <2>2. /\ written' \in Seq(StepSets') /\ NbVarsOf(Helper)' <= from
        /\ ClausesOf(semantics, Helper)' \subseteq newFormula'
        /\ \A v \in (NbVarsOf(Helper)' + 1)..from : {-v} \in newFormula'
    BY <1>2, <1>3, <1>9, <2>0, <2>1
  <2>3. \A j \in 1..Len(written)' :
          BlockedSet(written[j], from, from + j - 1)' \in newFormula'
    BY <1>9, <1>15, <2>1
  <2>4. \A c \in newFormula' \ ClausesOf(semantics, Helper)' :
          \/ \E v \in (NbVarsOf(Helper)' + 1)..from : -v \in c
          \/ \E j \in 1..Len(written)' : c = BlockedSet(written[j], from, from + j - 1)'
    BY <1>9, <1>16, <2>0, <2>1
  <2>5. \A j, k \in 1..Len(written)' : written'[j] = written'[k] => j = k
    BY <1>13, <2>1
  <2> DEFINE f == nVars - Len(written)
  <2>6. f' = from
    BY <2>1
  <2> HIDE DEF f
  <2>7. \A j \in 1..Len(written)' : BlockedSet(written[j], f, f + j - 1)' \in newFormula'
    BY <2>3, <2>6
  <2>8. \A c \in newFormula' \ ClausesOf(semantics, Helper)' :
          \/ \E v \in (NbVarsOf(Helper)' + 1)..f' : -v \in c
          \/ \E j \in 1..Len(written)' : c = BlockedSet(written[j], f, f + j - 1)'
    BY <2>4, <2>6
  <2>9. /\ f' \in Nat /\ NbVarsOf(Helper)' <= f' /\ nVars' = f' + Len(written)'
        /\ \A v \in (NbVarsOf(Helper)' + 1)..f' : {-v} \in newFormula'
    BY <1>2, <2>1, <2>2, <2>6
  <2>10. Text(f, written)'
    BY <1>8, <2>2, <2>5, <2>7, <2>8, <2>9 DEF Text
  <2> QED BY <2>10 DEF f
<1> QED BY <1>10, <1>17

\* The selectors are retired by unit clauses.
LEMMA TextRetired ==
  ASSUME SetupInv, UNCHANGED <<problem, setup>>, NEW from, NEW w, Text(from, w),
         newFormula' = newFormula \cup {{-v} : v \in (from + 1)..nVars}, nVars' = nVars
  PROVE  Text(nVars, << >>)'
<1> DEFINE N == NbVarsOf(Helper)
           C == ClausesOf(semantics, Helper)
           V == (from + 1)..nVars
           units == {{-v} : v \in V}
           none == << >>
<1>1. /\ Clausal(newFormula) /\ Within(newFormula, nVars) /\ C \subseteq newFormula
      /\ \A v \in (N + 1)..from : {-v} \in newFormula
      /\ \A c \in newFormula \ C :
           \/ \E v \in (N + 1)..from : -v \in c
           \/ \E j \in 1..Len(w) : c = BlockedSet(w[j], from, from + j - 1)
  BY DEF Text
<1>2. /\ N \in Nat /\ from \in Nat /\ N <= from /\ nVars \in Nat /\ from <= nVars
      /\ \A j \in 1..Len(w) : from + j - 1 + 1 = from + j /\ from + j \in V
  BY TextBounds
<1>3. N' = N /\ C' = C
  BY ReadingsFixed
<1>4. Clausal(units) /\ UNION units = {-v : v \in V}
  <2>1. UNION units = {-v : v \in V}
    OBVIOUS
  <2>2. IsFiniteSet({-v : v \in V})
    <3> DEFINE f == [v \in V |-> -v]
               U == {-v : v \in V}
    <3>1. f \in Surjection(V, U)
      BY DEF Surjection
    <3>2. IsFiniteSet(V)
      BY <1>2, FS_Interval
    <3> HIDE DEF f, V
    <3> QED BY <3>1, <3>2, FS_Surjection DEF ExistsSurjection
  <2>3. {-v : v \in V} \subseteq Literal
    BY <1>2 DEF Literal
  <2> QED BY <2>1, <2>2, <2>3 DEF Clausal
<1>5. Clausal(newFormula')
  BY <1>1, <1>4, ClausalUnion
<1>6. Within(newFormula', nVars')
  <2>1. \A v \in V : -v <= nVars /\ -(-v) <= nVars
    BY <1>2
  <2>2. UNION newFormula' = (UNION newFormula) \cup (UNION units)
    OBVIOUS
  <2> HIDE DEF V, units
  <2> QED BY <1>1, <1>4, <2>1, <2>2 DEF Within
<1>7. ASSUME NEW v \in (N + 1)..nVars PROVE {-v} \in newFormula'
  <2>1. v \in (N + 1)..from \/ v \in V
    BY <1>2
  <2> QED BY <1>1, <2>1
<1>8. ASSUME NEW c \in newFormula', c \notin C PROVE \E v \in (N + 1)..nVars : -v \in c
  <2>1. (N + 1)..from \subseteq (N + 1)..nVars /\ V \subseteq (N + 1)..nVars
    BY <1>2
  <2>2. CASE c \in units
    BY <2>1, <2>2
  <2>3. CASE c \in newFormula
    <3>1. CASE \E v \in (N + 1)..from : -v \in c
      BY <2>1, <3>1
    <3>2. CASE \E j \in 1..Len(w) : c = BlockedSet(w[j], from, from + j - 1)
      <4>1. PICK j \in 1..Len(w) : c = BlockedSet(w[j], from, from + j - 1)
        BY <3>2
      <4>2. -(from + j) \in c
        BY <1>2, <4>1 DEF BlockedSet, Selected
      <4> QED BY <1>2, <2>1, <4>2
    <3> QED BY <1>1, <1>8, <2>3, <3>1, <3>2
  <2> QED BY <2>2, <2>3
<1>9. /\ none \in Seq(StepSets') /\ Len(none) = 0 /\ 1..Len(none) = {}
      /\ nVars' \in Nat /\ N <= nVars' /\ nVars' = nVars' + 0
  BY <1>2
<1>10. C \subseteq newFormula' /\ nVars' = nVars
  BY <1>1
<1> HIDE DEF none, N, C, units
<1>11. Text(nVars, none)'
  BY <1>3, <1>5, <1>6, <1>7, <1>8, <1>9, <1>10 DEF Text, N, C
<1> QED BY <1>11 DEF none

----------------------------------------------------------------------------
(* The steps, as steps of the task *)

\* Every step is one of the decorator and dynAssumps, or leaves them alone; the
\* problem and its encoding stay.
LEMMA TaskStep ==
  ASSUME [SolverNext]_allVars
  PROVE  [Next]_vars /\ UNCHANGED <<problem, setup>>
<1>1. CASE Between
  BY <1>1 DEF Between, solverVars, Next, ScanApplied, ScanPending, NextStep, Advance, Finish
<1>2. CASE OneStable \/ CredulousStable \/ SkepticalStable
  BY <1>2 DEF OneStable, CredulousStable, SkepticalStable, Returns, Next, Call
<1>3. CASE Unavailable \/ StartEnumeration \/ EnumerateModel
  BY <1>3 DEF Unavailable, StartEnumeration, EnumerateModel, vars
<1>4. CASE EndEnumeration
  BY <1>4 DEF EndEnumeration, Next, Call
<1>5. CASE UNCHANGED allVars
  BY <1>5 DEF allVars, solverVars, vars
<1> QED BY <1>1, <1>2, <1>3, <1>4, <1>5 DEF SolverNext

\* The solvers change neither the problem nor the map, and the decorator scans as
\* it does alone.
LEMMA SetupStep ==
  ASSUME SetupInv, ScanInv, [SolverNext]_allVars
  PROVE  SetupInv' /\ ScanInv'
<1>1. [Next]_vars /\ UNCHANGED <<problem, setup>>
  BY TaskStep
<1>2. Base /\ Base'
  BY <1>1, BasePreserved DEF SetupInv
<1>3. SetupInv'
  BY <1>1, <1>2, SetupPreserved
<1>4. ScanInv'
  BY <1>1, <1>2, ScanInvPreserved
<1> QED BY <1>3, <1>4

\* What init leaves: the clauses of the encoding, with nothing to enumerate.
LEMMA StartSolverInv ==
  ASSUME SolverInit
  PROVE  SolverInv
<1> DEFINE C == ClausesOf(semantics, Helper)
           N == NbVarsOf(Helper)
           none == << >>
<1>1. /\ BackEndInit /\ enumerating = FALSE
      /\ newFormula = C /\ nVars = N /\ blockingSelectors = none
      /\ pc = "scan" /\ dynStep = -1
  BY DEF SolverInit, BackEndInit, BeforeFirstCall
<1>2. SetupInv /\ ScanInv
  BY <1>1, StartSetup
<1>3. N \in Nat /\ N - N = 0
  BY <1>2, ArgumentLiteralsReadable
<1>4. Clausal(C) /\ Within(C, N)
  <2>1. TypeOK /\ Encodes(semantics, Helper, nArgs)
    BY <1>2, HelperEncodes DEF SetupInv, Base
  <2>2. Clausal(C) /\ \A c \in C : \A l \in c : l \in (-N)..N
    BY <2>1, ClausesRange
  <2> HIDE DEF C, N
  <2>3. \A l \in (-N)..N : l <= N /\ -l <= N
    BY <1>3
  <2> QED BY <2>2, <2>3 DEF Within
<1>5. /\ none \in Seq(StepSets) /\ Len(none) = 0 /\ 1..Len(none) = {}
      /\ (N + 1)..N = {} /\ 1..0 = {} /\ N = N + 0 /\ N <= N
  BY <1>3
<1>6. none = [k \in 1..(N - N) |-> N + k] /\ N <= N
  BY <1>3, <1>5
<1> HIDE DEF C, N, none
<1>7. Text(nVars, none)
  BY <1>1, <1>3, <1>4, <1>5 DEF Text, C, N
<1>8. RestInv
  BY <1>1, <1>7 DEF RestInv, N, none
<1>9. SelectorsInv
  BY <1>1, <1>3, <1>6 DEF SelectorsInv, N
<1> QED BY <1>1, <1>2, <1>8, <1>9 DEF SolverInv, EnumerationInv, EarlyAnswersCorrect, AnswersCorrect

----------------------------------------------------------------------------
(* The answers that need no enumeration *)

\* The extensions that a call of the stable solver is asked about.
LEMMA StableExtensions ==
  ASSUME semantics = "ST"
  PROVE  ExtensionsAt(dynStep + 1) = StepSets
BY DEF ExtensionsAt, StepSets, Encoded

\* A call that is no part of an enumeration has one model for each stable
\* extension of the step that answers the question.
LEMMA SingleCall ==
  ASSUME SetupInv, ScanInv, semantics = "ST", pc = "scan", i = Len(dynAttacks),
         Text(nVars, << >>)
  PROVE  /\ FullModelsOf(Assumptions) = {FullReading(S, nVars, nVars) : S \in StepSets}
         /\ FullModelsOf(Assumptions \cup {varOf[query]}) =
              {FullReading(S, nVars, nVars) : S \in {X \in StepSets : query \in X}}
         /\ FullModelsOf(Assumptions \cup {-varOf[query]}) =
              {FullReading(S, nVars, nVars) : S \in {X \in StepSets : query \notin X}}
         /\ \A S \in StepSets : Decode(FullReading(S, nVars, nVars)) = S
<1> DEFINE none == << >>
           read(S) == FullReading(S, nVars, nVars)
<1>1. /\ nVars \in Nat /\ NbVarsOf(Helper) \in Nat /\ NbVarsOf(Helper) <= nVars
      /\ Range(none) = {}
  BY TextBounds DEF Range
<1>2. query \in Arg /\ varOf \in [Arg -> 1..nArgs] /\ nArgs \in Nat
  BY DEF SetupInv, MapExact
<1>3. \A S \in StepSets : Decode(read(S)) = S /\ (varOf[query] \in read(S) <=> query \in S)
  BY <1>1, <1>2, FullReadingExact
<1>4. varOf[query] \in Nat \ {0} /\ varOf[query] \in 1..nArgs
  BY <1>2
<1>5. \A S \in StepSets :
        /\ Agrees(read(S), {})
        /\ Agrees(read(S), {varOf[query]}) <=> query \in S
        /\ Agrees(read(S), {-varOf[query]}) <=> query \notin S
  BY <1>3, <1>4, PositiveTrue DEF Agrees
<1>6. /\ {} \in SUBSET ArgumentLiterals /\ {varOf[query]} \in SUBSET ArgumentLiterals
      /\ {-varOf[query]} \in SUBSET ArgumentLiterals
  BY <1>4 DEF ArgumentLiterals, Neg
<1>7. (nVars + 1)..nVars = {}
  BY <1>1
<1>8. Text(nVars, none)
  OBVIOUS
<1>9. \A S : read(S) = FullReading(S, nVars, nVars)
  OBVIOUS
<1> HIDE DEF none, read
<1>10. ASSUME NEW Q \in SUBSET ArgumentLiterals
       PROVE  FullModelsOf(Assumptions \cup Q) = {read(S) : S \in {X \in StepSets : Agrees(read(X), Q)}}
  <2>1. FullModelsOf(Assumptions \cup ((nVars + 1)..nVars) \cup Q) =
          {FullReading(S, nVars, nVars) :
             S \in {X \in StepSets \ Range(none) : Agrees(FullReading(X, nVars, nVars), Q)}}
    BY <1>8, CallFullModels
  <2>2. Assumptions \cup ((nVars + 1)..nVars) \cup Q = Assumptions \cup Q
    BY <1>7
  <2>3. StepSets \ Range(none) = StepSets
    BY <1>1
  <2> QED BY <1>9, <2>1, <2>2, <2>3
<1>11. FullModelsOf(Assumptions) = {read(S) : S \in StepSets}
  <2>1. Assumptions \cup {} = Assumptions
    OBVIOUS
  <2> QED BY <1>5, <1>6, <1>10, <2>1
<1>12. FullModelsOf(Assumptions \cup {varOf[query]}) =
         {read(S) : S \in {X \in StepSets : query \in X}}
  <2>1. {X \in StepSets : Agrees(read(X), {varOf[query]})} = {X \in StepSets : query \in X}
    BY <1>5
  <2> QED BY <1>6, <1>10, <2>1
<1>13. FullModelsOf(Assumptions \cup {-varOf[query]}) =
         {read(S) : S \in {X \in StepSets : query \notin X}}
  <2>1. {X \in StepSets : Agrees(read(X), {-varOf[query]})} = {X \in StepSets : query \notin X}
    BY <1>5
  <2> QED BY <1>6, <1>10, <2>1
<1> QED BY <1>3, <1>9, <1>11, <1>12, <1>13

\* The stable solver over this back end: one extension, and the two acceptances.
LEMMA StableCallsRight ==
  ASSUME SolverInv, OneStable \/ CredulousStable \/ SkepticalStable
  PROVE  RestInv' /\ SelectorsInv' /\ EarlyAnswersCorrect'
<1> DEFINE E == ExtensionsAt(dynStep + 1)
<1>0. /\ SetupInv /\ ScanInv /\ semantics = "ST" /\ pc = "scan" /\ i = Len(dynAttacks)
      /\ ~enumerating /\ task # "EE"
      /\ UNCHANGED <<problem, setup>> /\ dynStep' = dynStep
      /\ newFormula' = newFormula /\ nVars' = nVars /\ enumerating' = enumerating
  BY DEF SolverInv, OneStable, CredulousStable, SkepticalStable, Ready, Returns, Call,
         ComputeFullModel
<1>1. Text(nVars, << >>)
  BY <1>0 DEF SolverInv, RestInv
<1>2. RestInv' /\ SelectorsInv'
  <2>1. Text(nVars, << >>)'
    BY <1>0, <1>1, RestTextKept
  <2>2. task' # "EE"
    BY <1>0 DEF setup
  <2> QED BY <2>1, <2>2 DEF RestInv, SelectorsInv
<1>3. E = StepSets
  BY <1>0, StableExtensions
<1> HIDE DEF E
<1>4. CASE OneStable
  <2>1. /\ task = "SE" /\ written' = [k \in DOMAIN models' |-> Decode(models'[k])]
        /\ IF FullModelsOf(Assumptions) = {} THEN models' = << >>
           ELSE \E T \in FullModelsOf(Assumptions) : models' = <<T>>
    BY <1>4 DEF OneStable, ComputeFullModel, Write
  <2>2. IF E = {} THEN written' = << >> ELSE Len(written') = 1 /\ written'[1] \in E
    <3>1. CASE E = {}
      <4>1. FullModelsOf(Assumptions) = {}
        BY <1>0, <1>1, <1>3, <3>1, SingleCall
      <4> QED BY <2>1, <3>1, <4>1
    <3>2. CASE E # {}
      <4>1. FullModelsOf(Assumptions) = {FullReading(S, nVars, nVars) : S \in E}
        BY <1>0, <1>1, <1>3, SingleCall
      <4>2. PICK S \in E : models' = <<FullReading(S, nVars, nVars)>>
        BY <2>1, <3>2, <4>1
      <4>3. Decode(FullReading(S, nVars, nVars)) = S
        BY <1>0, <1>1, <1>3, SingleCall
      <4>4. written' = <<S>>
        BY <2>1, <4>2, <4>3
      <4> QED BY <3>2, <4>4
    <3> QED BY <3>1, <3>2
  <2>3. AnswersCorrect'
    BY <1>0, <2>1, <2>2, AnswerStep DEF E
  <2> QED BY <1>2, <2>3 DEF EarlyAnswersCorrect
<1>5. CASE CredulousStable \/ SkepticalStable
  <2> DEFINE yes == FullModelsOf(Assumptions \cup {varOf[query]})
             no  == FullModelsOf(Assumptions \cup {-varOf[query]})
  <2>1. \/ /\ task = "DC" /\ accepted' = (models' # << >>)
           /\ IF yes = {} THEN models' = << >> ELSE \E T \in yes : models' = <<T>>
        \/ /\ task = "DS" /\ accepted' = (models' = << >>)
           /\ IF no = {} THEN models' = << >> ELSE \E T \in no : models' = <<T>>
    BY <1>5 DEF CredulousStable, SkepticalStable, ComputeFullModel, Accept
  <2>2. (yes # {} <=> \E S \in E : query \in S) /\ (no = {} <=> \A S \in E : query \in S)
    <3>1. /\ yes = {FullReading(S, nVars, nVars) : S \in {X \in E : query \in X}}
          /\ no = {FullReading(S, nVars, nVars) : S \in {X \in E : query \notin X}}
      BY <1>0, <1>1, <1>3, SingleCall
    <3> HIDE DEF yes, no
    <3> QED BY <3>1
  <2> HIDE DEF yes, no
  <2>3. /\ task = "DC" => (accepted' <=> \E S \in E : query \in S)
        /\ task = "DS" => (accepted' <=> \A S \in E : query \in S)
        /\ task \in {"DC", "DS"}
    <3>1. \A T : <<T>> # << >>
      OBVIOUS
    <3>2. \/ task = "DC" /\ (accepted' <=> yes # {})
          \/ task = "DS" /\ (accepted' <=> no = {})
      BY <2>1, <3>1
    <3>3. "DC" # "DS"
      OBVIOUS
    <3> QED BY <2>2, <3>2, <3>3
  <2>4. AnswersCorrect'
    BY <1>0, <2>3, AnswerStep DEF E
  <2> QED BY <1>2, <2>4 DEF EarlyAnswersCorrect
<1> QED BY <1>4, <1>5

----------------------------------------------------------------------------
(* computeAllModels *)

\* The selectors that the enumeration assumes are those of its own models.
LEMMA AssumedExact ==
  ASSUME SetupInv, SelectorsInv, task = "EE", NEW from, NEW w, Text(from, w),
         Len(models) = Len(w)
  PROVE  AssumedSelectors = (from + 1)..nVars
<1> DEFINE N == NbVarsOf(Helper)
           m == nVars - N
<1>1. N \in Nat /\ from \in Nat /\ N <= from /\ nVars \in Nat /\ nVars = from + Len(w)
      /\ Len(w) \in Nat
  BY TextBounds
<1>2. /\ m \in Nat
      /\ blockingSelectors = [k \in 1..m |-> N + k]
  BY <1>1 DEF SelectorsInv
<1> HIDE DEF N
<1>3. Len(blockingSelectors) = m
  <2> HIDE DEF m
  <2> QED BY <1>2
<1>4. Len(blockingSelectors) - Len(models) + 1 = from - N + 1
  BY <1>1, <1>3
<1>5. AssumedSelectors = {blockingSelectors[k] : k \in (from - N + 1)..m}
  BY <1>3, <1>4 DEF AssumedSelectors
<1>6. ASSUME NEW k \in (from - N + 1)..m
      PROVE  blockingSelectors[k] \in (from + 1)..nVars
  <2>1. k \in 1..m /\ N + k \in (from + 1)..nVars
    BY <1>1
  <2> QED BY <1>2, <2>1
<1>7. ASSUME NEW v \in (from + 1)..nVars
      PROVE  \E k \in (from - N + 1)..m : blockingSelectors[k] = v
  <2>1. v - N \in (from - N + 1)..m /\ v - N \in 1..m /\ N + (v - N) = v
    BY <1>1
  <2> QED BY <1>2, <2>1
<1> QED BY <1>5, <1>6, <1>7

\* What the enumeration can still find.
LEMMA RemainingFullExact ==
  ASSUME SetupInv, ScanInv, SelectorsInv, task = "EE", semantics = "ST",
         pc = "scan", i = Len(dynAttacks),
         NEW from, NEW w, Text(from, w), Len(models) = Len(w)
  PROVE  RemainingFull = {FullReading(S, from, nVars) : S \in StepSets \ Range(w)}
<1> DEFINE none == {}
           read(S) == FullReading(S, from, nVars)
<1>1. AssumedSelectors = (from + 1)..nVars
  BY AssumedExact
<1>2. none \in SUBSET ArgumentLiterals /\ \A A : Agrees(A, none)
  BY DEF Agrees
<1>3. Assumptions \cup AssumedSelectors = Assumptions \cup ((from + 1)..nVars) \cup none
  BY <1>1
<1> HIDE DEF none
<1>4. FullModelsOf(Assumptions \cup ((from + 1)..nVars) \cup none) =
        {FullReading(S, from, nVars) :
           S \in {X \in StepSets \ Range(w) : Agrees(FullReading(X, from, nVars), none)}}
  BY <1>2, CallFullModels
<1>5. {X \in StepSets \ Range(w) : Agrees(FullReading(X, from, nVars), none)} =
        StepSets \ Range(w)
  BY <1>2
<1> QED BY <1>3, <1>4, <1>5 DEF RemainingFull

\* Every model gets the next variable as its selector.
LEMMA SelectorAdded ==
  ASSUME SetupInv, SelectorsInv, task = "EE", UNCHANGED <<problem, setup>>, nVars' = nVars + 1,
         blockingSelectors' = Append(blockingSelectors, nVars + 1)
  PROVE  SelectorsInv'
<1> DEFINE N == NbVarsOf(Helper)
           m == nVars - N
<1>1. N \in Nat
  BY ArgumentLiteralsReadable
<1>2. N' = N
  BY ReadingsFixed
<1>3. /\ nVars \in Nat /\ m \in Nat /\ N <= nVars
      /\ blockingSelectors = [k \in 1..m |-> N + k]
  BY <1>1 DEF SelectorsInv
<1> HIDE DEF N
<1>4. nVars' - N = m + 1 /\ nVars + 1 = N + (m + 1)
  BY <1>1, <1>3
<1> HIDE DEF m
<1>5. Append(blockingSelectors, N + (m + 1)) = [k \in 1..(m + 1) |-> N + k]
  <2>1. /\ blockingSelectors \in Seq(Nat) /\ Len(blockingSelectors) = m
        /\ \A k \in 1..m : blockingSelectors[k] = N + k
    BY <1>1, <1>3
  <2> DEFINE added == Append(blockingSelectors, N + (m + 1))
  <2>2. N + (m + 1) \in Nat
    BY <1>1, <1>3
  <2>3. /\ added \in Seq(Nat) /\ Len(added) = m + 1
        /\ \A k \in 1..m : added[k] = N + k
        /\ added[m + 1] = N + (m + 1)
    BY <2>1, <2>2, AppendProperties
  <2> HIDE DEF added
  <2>4. \A k \in 1..(m + 1) : k \in 1..m \/ k = m + 1
    BY <1>3
  <2>5. added = [k \in 1..(m + 1) |-> added[k]]
    BY <2>3, LenProperties
  <2>6. added = [k \in 1..(m + 1) |-> N + k]
    BY <2>3, <2>4, <2>5
  <2> QED BY <2>6 DEF added
<1>6. /\ blockingSelectors' = [k \in 1..(nVars' - N') |-> N' + k]
      /\ nVars' \in Nat /\ N' <= nVars'
  BY <1>1, <1>2, <1>3, <1>4, <1>5
<1> QED BY <1>6 DEF SelectorsInv, N

\* An enumeration starts with every extension of the step still to be found.
LEMMA StartEnumerationRight ==
  ASSUME SolverInv, StartEnumeration
  PROVE  EnumerationInv' /\ SelectorsInv'
<1>0. /\ SetupInv /\ ScanInv /\ SelectorsInv /\ RestInv
      /\ pc = "scan" /\ i = Len(dynAttacks) /\ task = "EE" /\ semantics = "ST"
      /\ ~enumerating
      /\ UNCHANGED <<vars, setup, newFormula, nVars, blockingSelectors>>
      /\ models' = << >> /\ written' = << >>
  BY DEF SolverInv, StartEnumeration, Ready
<1>1. /\ UNCHANGED <<problem, setup>>
      /\ pc' = "scan" /\ i' = Len(dynAttacks') /\ task' = "EE" /\ semantics' = "ST"
      /\ dynStep' = dynStep
  BY <1>0 DEF vars, problem, setup
<1>2. NbVarsOf(Helper)' = NbVarsOf(Helper)
  BY <1>1, ReadingsFixed
<1>3. SelectorsInv'
  BY <1>0, <1>1, <1>2 DEF SelectorsInv
<1>4. ASSUME dynStep <= 0
      PROVE  /\ Text(nVars - Len(written), written)'
             /\ models' \in Seq(SUBSET Nat) /\ Len(models') = Len(written')
             /\ dynStep = -1 => nVars' = NbVarsOf(Helper)' + Len(written')
  <2> DEFINE none == << >>
             f == nVars - Len(written)
  <2>1. dynStep = -1 \/ dynStep = 0
    BY <1>0, <1>4 DEF SetupInv, Base, TypeOK
  <2>2. Text(nVars, none) /\ (dynStep = -1 => nVars = NbVarsOf(Helper))
    BY <1>0, <2>1 DEF RestInv
  <2>3. nVars \in Nat
    BY <1>0, <2>2, TextBounds
  <2>4. Text(nVars, none)'
    BY <1>0, <1>1, <2>2, RestTextKept
  <2>5. /\ Len(none) = 0 /\ none \in Seq(SUBSET Nat)
        /\ written' = none /\ models' = none
    BY <1>0
  <2>6. f' = nVars'
    BY <1>0, <2>3
  <2> HIDE DEF f, none
  <2>7. Text(f, written)'
    BY <2>4, <2>5, <2>6 DEF Text, none
  <2>8. dynStep = -1 => nVars' = NbVarsOf(Helper)' + 0
    BY <1>0, <1>2, <2>2, <2>3
  <2> QED BY <2>5, <2>7, <2>8 DEF f
<1> QED BY <1>1, <1>3, <1>4 DEF EnumerationInv

\* In the first two enumerations each model is a stable extension of the step that
\* was not found before, and its blocking clause leaves out no other.
LEMMA EnumerateModelRight ==
  ASSUME SolverInv, EnumerateModel
  PROVE  EnumerationInv' /\ SelectorsInv'
<1>0. /\ SetupInv /\ ScanInv /\ SelectorsInv /\ EnumerationInv /\ enumerating
      /\ pc = "scan" /\ i = Len(dynAttacks) /\ task = "EE" /\ semantics = "ST"
      /\ UNCHANGED <<vars, setup>>
      /\ blockingSelectors' = Append(blockingSelectors, nVars + 1) /\ nVars' = nVars + 1
  BY DEF SolverInv, EnumerateModel, EnumerationInv
<1>1. /\ UNCHANGED <<problem, setup>>
      /\ pc' = "scan" /\ i' = Len(dynAttacks') /\ task' = "EE" /\ semantics' = "ST"
      /\ dynStep' = dynStep
  BY <1>0 DEF vars, problem, setup
<1>2. SelectorsInv'
  BY <1>0, <1>1, SelectorAdded
<1>3. ASSUME dynStep <= 0
      PROVE  /\ Text(nVars - Len(written), written)'
             /\ models' \in Seq(SUBSET Nat) /\ Len(models') = Len(written')
             /\ dynStep = -1 => nVars' = NbVarsOf(Helper)' + Len(written')
  <2> DEFINE from == nVars - Len(written)
  <2>1. /\ Text(from, written) /\ models \in Seq(SUBSET Nat) /\ Len(models) = Len(written)
        /\ dynStep = -1 => nVars = NbVarsOf(Helper) + Len(written)
    BY <1>0, <1>3 DEF EnumerationInv
  <2> HIDE DEF from
  <2>2. /\ from \in Nat /\ nVars \in Nat /\ NbVarsOf(Helper) \in Nat /\ Len(written) \in Nat
        /\ NbVarsOf(Helper) <= from /\ from <= nVars
    BY <1>0, <2>1, TextBounds
  <2>3. PICK T \in RemainingFull :
          /\ models' = Append(models, T)
          /\ written' = Append(written, Decode(T))
          /\ newFormula' = newFormula \cup {Selected(FullBlockingClause(T), nVars + 1)}
    BY DEF EnumerateModel
  <2>4. PICK S \in StepSets \ Range(written) : T = FullReading(S, from, nVars)
    BY <1>0, <2>1, RemainingFullExact
  <2>5. Decode(T) = S /\ T \in SUBSET (1..nVars)
    BY <1>0, <2>2, <2>4, FullReadingExact
  <2>6. Selected(FullBlockingClause(T), nVars + 1) = BlockedSet(S, from, nVars)
    BY <2>4 DEF FullBlockingClause, BlockedSet
  <2>7. Text(nVars - Len(written), written)'
    BY <1>0, <2>1, <2>3, <2>4, <2>5, <2>6, TextGrows
  <2>8. written \in Seq(StepSets) /\ Len(written') = Len(written) + 1
    <3>1. written \in Seq(StepSets)
      BY <2>1 DEF Text
    <3> QED BY <2>3, <2>5, <3>1, AppendProperties
  <2>9. models' \in Seq(SUBSET Nat) /\ Len(models') = Len(models) + 1
    <3>1. T \in SUBSET Nat
      BY <2>2, <2>5
    <3> QED BY <2>1, <2>3, <3>1, AppendProperties
  <2>10. dynStep = -1 => nVars' = NbVarsOf(Helper)' + Len(written')
    <3>1. NbVarsOf(Helper)' = NbVarsOf(Helper)
      BY <1>1, ReadingsFixed
    <3>2. SUFFICES ASSUME dynStep = -1 PROVE nVars' = NbVarsOf(Helper)' + Len(written')
      OBVIOUS
    <3>3. nVars' = NbVarsOf(Helper) + (Len(written) + 1)
      BY <1>0, <2>1, <2>2, <3>2
    <3> QED BY <2>8, <3>1, <3>3
  <2> QED BY <2>1, <2>7, <2>8, <2>9, <2>10
<1> QED BY <1>1, <1>2, <1>3 DEF EnumerationInv

\* When no model is left in one of the first two enumerations, all the extensions
\* have been written, each once.
LEMMA AllWritten ==
  ASSUME SolverInv, EndEnumeration, dynStep <= 0
  PROVE  AnswersCorrect'
<1> DEFINE n == Len(written)
           from == nVars - Len(written)
           E == ExtensionsAt(dynStep + 1)
<1>0. /\ SetupInv /\ ScanInv /\ SelectorsInv
      /\ pc = "scan" /\ i = Len(dynAttacks) /\ task = "EE" /\ semantics = "ST"
      /\ Text(from, written) /\ Len(models) = Len(written)
      /\ UNCHANGED <<problem, setup>> /\ dynStep' = dynStep /\ written' = written
      /\ RemainingFull = {}
  BY DEF SolverInv, EndEnumeration, EnumerationInv, Call
<1> HIDE DEF from
<1>1. /\ n \in Nat /\ written \in Seq(StepSets)
      /\ \A j \in 1..n : written[j] \in StepSets
      /\ \A j, k \in 1..n : written[j] = written[k] => j = k
      /\ Range(written) = {written[j] : j \in 1..n}
      /\ DOMAIN written = 1..n
  <2>1. n \in Nat /\ written \in Seq(StepSets)
    BY <1>0, TextBounds DEF Text
  <2>2. \A j, k \in 1..n : written[j] = written[k] => j = k
    BY <1>0 DEF Text
  <2> QED BY <2>1, <2>2, LenProperties, ElementOfSeq DEF Range
<1>2. E = StepSets
  BY <1>0, StableExtensions
<1>3. Range(written) = StepSets
  <2>1. {FullReading(S, from, nVars) : S \in StepSets \ Range(written)} = {}
    BY <1>0, RemainingFullExact
  <2> QED BY <1>1, <2>1
<1>4. n = Cardinality(E)
  <2>1. written \in [1..n -> E]
    BY <1>1, <1>2
  <2>2. \A S \in E : \E k \in 1..n : written[k] = S
    BY <1>1, <1>2, <1>3
  <2> HIDE DEF E, n
  <2>3. written \in Bijection(1..n, E)
    <3>1. written \in Injection(1..n, E)
      BY <1>1, <2>1 DEF Injection, IsInjective
    <3>2. written \in Surjection(1..n, E)
      BY <2>1, <2>2 DEF Surjection
    <3> QED BY <3>1, <3>2 DEF Bijection
  <2>4. ExistsBijection(1..n, E)
    BY <2>3 DEF ExistsBijection
  <2> QED BY <1>1, <2>4, FS_CountingElements
<1>5. Range(written') = E /\ Len(written') = Cardinality(E)
  BY <1>0, <1>2, <1>3, <1>4
<1> HIDE DEF E
<1> QED BY <1>0, <1>5, AnswerStep DEF E

\* The end of an enumeration: the selectors of the first one are retired.
LEMMA EndEnumerationRight ==
  ASSUME SolverInv, EndEnumeration
  PROVE  RestInv' /\ SelectorsInv' /\ EarlyAnswersCorrect'
<1>0. /\ SetupInv /\ SelectorsInv /\ EnumerationInv /\ enumerating /\ task = "EE"
      /\ UNCHANGED <<problem, setup>> /\ dynStep' = dynStep /\ pc' = "returned"
      /\ UNCHANGED <<nVars, blockingSelectors>>
      /\ newFormula' = newFormula \cup RetiredFirst
  BY DEF SolverInv, EndEnumeration, EnumerationInv, Call
<1>1. task' = "EE" /\ NbVarsOf(Helper)' = NbVarsOf(Helper)
  BY <1>0, ReadingsFixed DEF setup
<1>2. SelectorsInv'
  BY <1>0, <1>1 DEF SelectorsInv
<1>3. EarlyAnswersCorrect'
  BY <1>0, <1>1, AllWritten DEF EarlyAnswersCorrect
<1>4. ASSUME dynStep = -1 PROVE Text(nVars, << >>)'
  <2> DEFINE N == NbVarsOf(Helper)
             n == Len(written)
             from == nVars - Len(written)
  <2>1. /\ Text(from, written) /\ models \in Seq(SUBSET Nat) /\ Len(models) = n
        /\ nVars = N + n
    BY <1>0, <1>4 DEF EnumerationInv
  <2>2. N \in Nat /\ n \in Nat
    BY <1>0, <2>1, TextBounds
  <2>3. from = N /\ nVars - N = n
    <3> HIDE DEF N
    <3>1. N + n - n = N /\ N + n - N = n
      <4> HIDE DEF n
      <4> QED BY <2>2
    <3> QED BY <2>1, <2>2, <3>1
  <2>4. blockingSelectors = [k \in 1..n |-> N + k]
    BY <1>0, <2>3 DEF SelectorsInv
  <2>5. DOMAIN models = 1..n
    BY <2>1, LenProperties
  <2> HIDE DEF N, n, from
  <2>6. RetiredFirst = {{-v} : v \in (N + 1)..nVars}
    <3>1. RetiredFirst = {{-(N + k)} : k \in 1..n}
      BY <2>4, <2>5 DEF RetiredFirst
    <3>2. ASSUME NEW k \in 1..n PROVE N + k \in (N + 1)..nVars
      BY <2>1, <2>2
    <3>3. ASSUME NEW v \in (N + 1)..nVars PROVE v - N \in 1..n /\ N + (v - N) = v
      BY <2>1, <2>2
    <3> QED BY <3>1, <3>2, <3>3
  <2>7. newFormula' = newFormula \cup {{-v} : v \in (N + 1)..nVars}
    BY <1>0, <2>6
  <2>8. Text(N, written)
    BY <2>1, <2>3
  <2> QED BY <1>0, <2>7, <2>8, TextRetired
<1>5. RestInv'
  BY <1>0, <1>1, <1>4 DEF RestInv
<1> QED BY <1>2, <1>3, <1>5

----------------------------------------------------------------------------
(* The theorem *)

\* The state is all that these invariants speak of.
LEMMA KeptRight ==
  ASSUME SolverInv, UNCHANGED <<vars, setup, backEnd, enumerating, written, accepted>>
  PROVE  RestInv' /\ EnumerationInv' /\ SelectorsInv' /\ EarlyAnswersCorrect'
<1>1. /\ UNCHANGED <<problem, setup>>
      /\ UNCHANGED <<dynAttacks, dynStep, i, pc, task, semantics>>
      /\ UNCHANGED <<newFormula, nVars, models, blockingSelectors>>
      /\ UNCHANGED <<enumerating, written, accepted>>
  BY DEF vars, problem, setup, backEnd
<1>2. NbVarsOf(Helper)' = NbVarsOf(Helper)
  BY <1>1, ReadingsFixed
<1>3. RestInv'
  <2>1. Text(nVars, << >>) => Text(nVars, << >>)'
    BY <1>1, RestTextKept
  <2> QED BY <1>1, <1>2, <2>1 DEF SolverInv, RestInv
<1>4. EnumerationInv'
  <2>1. Text(nVars - Len(written), written) => Text(nVars - Len(written), written)'
    BY <1>1, EnumeratedTextKept
  <2> QED BY <1>1, <1>2, <2>1 DEF SolverInv, EnumerationInv
<1>5. SelectorsInv'
  BY <1>1, <1>2 DEF SolverInv, SelectorsInv
<1>6. EarlyAnswersCorrect'
  <2>1. AnswersCorrect => AnswersCorrect'
    BY <1>1, AnswersKept
  <2> QED BY <1>1, <2>1 DEF SolverInv, EarlyAnswersCorrect
<1> QED BY <1>3, <1>4, <1>5, <1>6

\* Between the calls the decorator touches nothing of the back end.
LEMMA BetweenRight ==
  ASSUME SolverInv, Between
  PROVE  RestInv' /\ EnumerationInv' /\ SelectorsInv' /\ EarlyAnswersCorrect'
<1>0. /\ SetupInv /\ ScanInv /\ EnumerationInv /\ RestInv /\ SelectorsInv
      /\ UNCHANGED <<problem, setup>>
      /\ UNCHANGED <<newFormula, nVars, blockingSelectors, enumerating>>
      /\ ScanApplied \/ ScanPending \/ NextStep \/ Finish
  BY DEF SolverInv, Between, solverVars, backEnd, ScanApplied, ScanPending, NextStep, Advance,
         Finish
<1>1. /\ dynStep \in Int /\ -1 <= dynStep /\ Len(dynAttacks) \in Nat
      /\ dynStep = -1 \/ dynStep < Len(dynAttacks)
  BY <1>0, LenProperties DEF SetupInv, Base, TypeOK
<1>2. ~enumerating
  BY <1>0, <1>1 DEF EnumerationInv, ScanApplied, ScanPending, NextStep, Finish
<1>3. /\ dynStep' = -1 => dynStep = -1 /\ (pc' = "scan" => pc = "scan")
      /\ dynStep' = 0 /\ pc' = "scan" => dynStep = -1 \/ (dynStep = 0 /\ pc = "scan")
      /\ pc' # "returned"
  <2>1. CASE ScanApplied \/ ScanPending
    BY <2>1 DEF ScanApplied, ScanPending
  <2>2. CASE NextStep
    <3>1. dynStep' = dynStep + 1 /\ pc' = "scan"
      BY <2>2 DEF NextStep, Advance
    <3> QED BY <1>1, <3>1
  <2>3. CASE Finish
    BY <2>3 DEF Finish
  <2> QED BY <1>0, <2>1, <2>2, <2>3
<1>4. task' = task /\ NbVarsOf(Helper)' = NbVarsOf(Helper)
  BY <1>0, ReadingsFixed DEF setup
<1>5. RestInv'
  <2>1. Text(nVars, << >>) => Text(nVars, << >>)'
    BY <1>0, RestTextKept
  <2> QED BY <1>0, <1>2, <1>3, <1>4, <2>1 DEF RestInv
<1>6. EnumerationInv' /\ SelectorsInv'
  BY <1>0, <1>2, <1>4 DEF EnumerationInv, SelectorsInv
<1>7. EarlyAnswersCorrect'
  BY <1>3 DEF EarlyAnswersCorrect, AnswersCorrect
<1> QED BY <1>5, <1>6, <1>7

\* Every step of the solvers keeps the invariant.
LEMMA SolverInvPreserved ==
  ASSUME SolverInv, [SolverNext]_allVars
  PROVE  SolverInv'
<1>1. SetupInv' /\ ScanInv'
  BY SetupStep DEF SolverInv
<1>2. CASE Between
  <2>1. enumerating' \in BOOLEAN
    BY <1>2 DEF Between, solverVars, SolverInv
  <2> QED BY <1>1, <1>2, <2>1, BetweenRight DEF SolverInv
<1>3. CASE OneStable \/ CredulousStable \/ SkepticalStable
  <2>1. RestInv' /\ SelectorsInv' /\ EarlyAnswersCorrect'
    BY <1>3, StableCallsRight
  <2>2. enumerating' = FALSE
    BY <1>3 DEF OneStable, CredulousStable, SkepticalStable, Returns, Ready, SolverInv
  <2> QED BY <1>1, <2>1, <2>2 DEF SolverInv, EnumerationInv
<1>4. CASE StartEnumeration \/ EnumerateModel
  <2>1. EnumerationInv' /\ SelectorsInv'
    BY <1>4, StartEnumerationRight, EnumerateModelRight
  <2>2. enumerating' = TRUE
    BY <1>4 DEF StartEnumeration, EnumerateModel, SolverInv
  <2>3. pc' = "scan"
    BY <2>1, <2>2 DEF EnumerationInv
  <2> QED BY <1>1, <2>1, <2>2, <2>3 DEF SolverInv, RestInv, EarlyAnswersCorrect, AnswersCorrect
<1>5. CASE EndEnumeration
  <2>1. RestInv' /\ SelectorsInv' /\ EarlyAnswersCorrect'
    BY <1>5, EndEnumerationRight
  <2>2. enumerating' = FALSE
    BY <1>5 DEF EndEnumeration
  <2> QED BY <1>1, <2>1, <2>2 DEF SolverInv, EnumerationInv
<1>6. CASE Unavailable \/ UNCHANGED allVars
  <2>1. UNCHANGED <<vars, setup, backEnd, enumerating, written, accepted>>
    BY <1>6 DEF Unavailable, allVars, solverVars
  <2>2. enumerating' \in BOOLEAN
    BY <2>1 DEF SolverInv
  <2> QED BY <1>1, <2>1, <2>2, KeptRight DEF SolverInv
<1> QED BY <1>2, <1>3, <1>4, <1>5, <1>6 DEF SolverNext

\* What the stable solver over the external back end writes is right at every step
\* of the tasks that call the engine once, and at the first two steps of an
\* enumeration, for every framework and every list of changes.  At later steps an
\* enumeration loses extensions (the run external_steps).
THEOREM EarlyAnswersAlwaysCorrect == MCSpec => []EarlyAnswersCorrect
<1> DEFINE Inv == /\ kind = "task" => SolverInv
                  /\ kind = "call" => pc = "done"
                  /\ kind \in {"call", "task"}
<1>1. MCInit => Inv
  BY StartSolverInv DEF MCInit, NoTask
<1>2. Inv /\ [MCNext]_mcVars => Inv'
  <2> SUFFICES ASSUME Inv, [MCNext]_mcVars PROVE Inv'
    OBVIOUS
  <2>1. kind' = kind
    BY DEF MCNext, mcVars
  <2>2. ASSUME kind = "task" PROVE SolverInv'
    <3>1. [SolverNext]_allVars
      BY <2>2 DEF MCNext, mcVars
    <3> QED BY <2>2, <3>1, SolverInvPreserved
  <2>3. ASSUME kind = "call" PROVE pc' = "done"
    BY <2>3 DEF MCNext, mcVars, allVars, vars
  <2> QED BY <2>1, <2>2, <2>3
<1>3. Inv => EarlyAnswersCorrect
  BY DEF SolverInv, EarlyAnswersCorrect, AnswersCorrect
<1> QED BY <1>1, <1>2, <1>3, PTL DEF MCSpec
=============================================================================
