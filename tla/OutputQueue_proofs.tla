------------------------- MODULE OutputQueue_proofs -------------------------
(* Proofs about the output queue, for any answer and any size of the        *)
(* buffer.                                                                  *)
EXTENDS OutputQueue, SequenceTheorems, TLAPS

----------------------------------------------------------------------------
(* Sequences *)

Char == Message \cup {QUEUE_END, UNDEFINED}

\* A sequence begins with its head.
LEMMA HeadThenTail ==
  ASSUME NEW S, NEW s \in Seq(S), s # << >>
  PROVE  s = <<Head(s)>> \o Tail(s)
<1>1. /\ Head(s) \in S /\ Tail(s) \in Seq(S) /\ Len(Tail(s)) = Len(s) - 1
      /\ \A k \in 1..Len(Tail(s)) : Tail(s)[k] = s[k + 1]
      /\ Len(s) \in Nat \ {0} /\ Head(s) = s[1]
  BY HeadTailProperties, EmptySeq
<1>2. <<Head(s)>> \in Seq(S) /\ Len(<<Head(s)>>) = 1 /\ <<Head(s)>>[1] = Head(s)
  BY <1>1
<1>3. /\ <<Head(s)>> \o Tail(s) \in Seq(S)
      /\ Len(<<Head(s)>> \o Tail(s)) = Len(s)
      /\ \A k \in 1..Len(s) : (<<Head(s)>> \o Tail(s))[k] =
                               IF k <= 1 THEN <<Head(s)>>[k] ELSE Tail(s)[k - 1]
  <2> DEFINE h == <<Head(s)>>  t == Tail(s)
  <2>1. h \in Seq(S) /\ t \in Seq(S) /\ Len(h) = 1 /\ 1 + Len(t) = Len(s)
    BY <1>1, <1>2
  <2> HIDE DEF h, t
  <2>2. h \o t \in Seq(S) /\ Len(h \o t) = Len(h) + Len(t)
        /\ \A k \in 1..Len(h) + Len(t) :
             (h \o t)[k] = IF k <= Len(h) THEN h[k] ELSE t[k - Len(h)]
    BY <2>1, ConcatProperties
  <2>3. h \o t \in Seq(S) /\ Len(h \o t) = Len(s)
        /\ \A k \in 1..Len(s) : (h \o t)[k] = IF k <= 1 THEN h[k] ELSE t[k - 1]
    BY <2>1, <2>2
  <2> QED BY <2>3 DEF h, t
<1>4. ASSUME NEW k \in 1..Len(s) PROVE s[k] = (<<Head(s)>> \o Tail(s))[k]
  <2>1. CASE k = 1
    BY <1>1, <1>2, <1>3, <2>1
  <2>2. CASE k # 1
    <3>1. k - 1 \in 1..Len(Tail(s)) /\ (k - 1) + 1 = k /\ ~(k <= 1)
      BY <1>1, <2>2
    <3> QED BY <1>1, <1>3, <3>1
  <2> QED BY <2>1, <2>2
<1> QED BY <1>3, <1>4, SeqEqual

\* One more element of a prefix.
LEMMA LongerPrefix ==
  ASSUME NEW S, NEW s \in Seq(S), NEW n \in Nat, n < Len(s)
  PROVE  SubSeq(s, 1, n + 1) = SubSeq(s, 1, n) \o <<s[n + 1]>>
<1>1. Len(s) \in Nat /\ \A k \in 1..Len(s) : s[k] \in S
  BY LenProperties, ElementOfSeq
<1>2. /\ SubSeq(s, 1, n) \in Seq(S) /\ Len(SubSeq(s, 1, n)) = n
      /\ \A k \in 1..n : SubSeq(s, 1, n)[k] = s[k]
  BY <1>1
<1>3. /\ SubSeq(s, 1, n + 1) \in Seq(S) /\ Len(SubSeq(s, 1, n + 1)) = n + 1
      /\ \A k \in 1..(n + 1) : SubSeq(s, 1, n + 1)[k] = s[k]
  BY <1>1
<1>4. SubSeq(s, 1, n) \o <<s[n + 1]>> = Append(SubSeq(s, 1, n), s[n + 1])
  BY <1>1, <1>2
<1>5. s[n + 1] \in S
  BY <1>1
<1>6. /\ Append(SubSeq(s, 1, n), s[n + 1]) \in Seq(S)
      /\ Len(Append(SubSeq(s, 1, n), s[n + 1])) = n + 1
      /\ \A k \in 1..n : Append(SubSeq(s, 1, n), s[n + 1])[k] = s[k]
      /\ Append(SubSeq(s, 1, n), s[n + 1])[n + 1] = s[n + 1]
  BY <1>2, <1>5, AppendProperties
<1>7. \A k \in 1..(n + 1) : SubSeq(s, 1, n + 1)[k] = Append(SubSeq(s, 1, n), s[n + 1])[k]
  BY <1>3, <1>6
<1> QED BY <1>3, <1>4, <1>6, <1>7, SeqEqual

\* A text that ends with the sentinel holds it nowhere else.
LEMMA SentinelEnds ==
  ASSUME NEW S, NEW e, NEW s \in Seq(S), NEW t \in Seq(S), e \notin S,
         NEW u \in Seq(S \cup {e}), (s \o <<e>>) \o u = Append(t, e)
  PROVE  s = t /\ u = << >>
<1> DEFINE T == S \cup {e}  n == Len(s)  L == s \o <<e>>
<1>1. s \in Seq(T) /\ t \in Seq(T) /\ <<e>> \in Seq(T) /\ Len(<<e>>) = 1
  BY SeqMonotonic
<1>2. /\ L \in Seq(T) /\ Len(L) = n + 1 /\ n \in Nat
      /\ \A k \in 1..n : L[k] = s[k]
      /\ L[n + 1] = e
  <2>1. s \o <<e>> = Append(s, e)
    BY <1>1
  <2> QED BY <1>1, <2>1, AppendProperties, LenProperties
<1>3. /\ Len(u) \in Nat /\ Len(L \o u) = n + 1 + Len(u)
      /\ \A k \in 1..(n + 1) : (L \o u)[k] = L[k]
  <2> HIDE DEF L, T
  <2>1. Len(u) \in Nat /\ u \in Seq(T)
    BY LenProperties DEF T
  <2>2. Len(L \o u) = Len(L) + Len(u) /\
        \A k \in 1..Len(L) + Len(u) :
           (L \o u)[k] = IF k <= Len(L) THEN L[k] ELSE u[k - Len(L)]
    <3> SUFFICES ASSUME NEW l \in Seq(T)
                 PROVE  Len(l \o u) = Len(l) + Len(u) /\
                        \A k \in 1..Len(l) + Len(u) :
                           (l \o u)[k] = IF k <= Len(l) THEN l[k] ELSE u[k - Len(l)]
      BY <1>2
    <3> QED BY <2>1, ConcatProperties, Zenon
  <2> QED BY <1>2, <2>1, <2>2
<1>4. /\ Len(t) \in Nat /\ Len(Append(t, e)) = Len(t) + 1
      /\ \A k \in 1..Len(t) : Append(t, e)[k] = t[k] /\ t[k] # e
  <2>1. \A k \in 1..Len(t) : t[k] \in S
    BY ElementOfSeq
  <2> QED BY <1>1, <2>1, AppendProperties, LenProperties
<1>5. n = Len(t) /\ Len(u) = 0
  <2>1. Len(t) = n + Len(u) /\ Append(t, e)[n + 1] = e
    <3>1. L \o u = Append(t, e)
      OBVIOUS
    <3>2. n + 1 \in 1..(n + 1)
      BY <1>2
    <3> HIDE DEF L, n
    <3> QED BY <1>2, <1>3, <1>4, <3>1, <3>2
  <2>2. n + 1 \notin 1..Len(t)
    BY <1>4, <2>1
  <2> QED BY <1>2, <1>3, <1>4, <2>1, <2>2
<1>6. u = << >>
  BY <1>5, EmptySeq
<1>7. \A k \in 1..n : s[k] = t[k]
  BY <1>2, <1>3, <1>4, <1>5
<1> QED BY <1>5, <1>6, <1>7, SeqEqual

\* The four pieces of the stream, when one of them gives to its neighbour.
LEMMA Streams ==
  ASSUME NEW S, NEW p \in Seq(S), NEW b \in Seq(S), NEW h \in Seq(S),
         NEW e \in Seq(S), NEW x \in S
  PROVE  /\ p \o b \o h \o Append(e, x) = (p \o b \o h \o e) \o <<x>>
         /\ (p \o b) \o << >> \o h \o e = p \o b \o h \o e
         /\ p \o Append(b, x) \o << >> \o e = p \o b \o <<x>> \o e
         /\ (p \o b) \o <<x>> \o << >> \o e = p \o b \o <<x>> \o e
         /\ e # << >> => p \o b \o <<Head(e)>> \o Tail(e) = p \o b \o << >> \o e
<1>1. <<x>> \in Seq(S) /\ << >> \in Seq(S)
  OBVIOUS
<1>2. p \o b \in Seq(S) /\ p \o b \o h \in Seq(S)
  BY ConcatProperties
<1>3. /\ \A s \in Seq(S) : s \o << >> = s
      /\ \A s \in Seq(S) : Append(s, x) = s \o <<x>>
      /\ \A s, t, u \in Seq(S) : (s \o t) \o u = s \o (t \o u)
  <2>1. ASSUME NEW s \in Seq(S) PROVE s \o << >> = s /\ Append(s, x) = s \o <<x>>
    BY ConcatEmptySeq, AppendIsConcat
  <2>2. ASSUME NEW s \in Seq(S), NEW t \in Seq(S), NEW u \in Seq(S)
        PROVE  (s \o t) \o u = s \o (t \o u)
    BY ConcatAssociative, SMTT(30)
  <2> QED BY <2>1, <2>2
<1>4. p \o b \o h \o Append(e, x) = (p \o b \o h \o e) \o <<x>>
  <2> DEFINE l == p \o b \o h
  <2>1. l \in Seq(S)
    BY <1>2
  <2> HIDE DEF l
  <2>2. l \o Append(e, x) = (l \o e) \o <<x>>
    <3>1. (l \o e) \o <<x>> = l \o (e \o <<x>>)
      BY <1>1, <2>1, ConcatAssociative, SMTT(30)
    <3> QED BY <1>3, <3>1
  <2> QED BY <2>2 DEF l
<1>5. (p \o b) \o << >> \o h \o e = p \o b \o h \o e
  BY <1>2, <1>3
<1>6. p \o Append(b, x) = (p \o b) \o <<x>> /\ p \o b \o <<x>> \in Seq(S)
  <2>1. p \o (b \o <<x>>) = (p \o b) \o <<x>>
    BY <1>1, <1>3
  <2>2. p \o b \o <<x>> \in Seq(S)
    BY <1>1, <1>2, ConcatProperties
  <2> QED BY <1>3, <2>1, <2>2
<1>7. p \o Append(b, x) \o << >> \o e = p \o b \o <<x>> \o e
  BY <1>3, <1>6
<1>8. (p \o b) \o <<x>> \o << >> \o e = p \o b \o <<x>> \o e
  BY <1>3, <1>6
<1>9. ASSUME e # << >>
      PROVE  p \o b \o <<Head(e)>> \o Tail(e) = p \o b \o << >> \o e
  <2>1. e = <<Head(e)>> \o Tail(e) /\ <<Head(e)>> \in Seq(S) /\ Tail(e) \in Seq(S)
    BY <1>9, HeadThenTail, HeadTailProperties
  <2>2. (p \o b) \o <<Head(e)>> \o Tail(e) = (p \o b) \o (<<Head(e)>> \o Tail(e))
    <3> DEFINE l == p \o b  x1 == <<Head(e)>>  t1 == Tail(e)
    <3>1. l \in Seq(S) /\ x1 \in Seq(S) /\ t1 \in Seq(S)
      BY <1>2, <2>1
    <3> HIDE DEF l, x1, t1
    <3>2. (l \o x1) \o t1 = l \o (x1 \o t1)
      BY <3>1, ConcatAssociative, SMTT(30)
    <3> QED BY <3>2 DEF l, x1, t1
  <2>3. p \o b \o << >> = p \o b
    BY <1>2, <1>3
  <2> QED BY <2>1, <2>2, <2>3
<1> QED BY <1>4, <1>5, <1>7, <1>8, <1>9

----------------------------------------------------------------------------
(* The invariant *)

\* Where main and the output thread can be together.
Stages ==
  /\ main = "start" <=> output = "none"
  /\ main \in {"start", "check"} => pushed = 0
  /\ main \in {"push", "locked"} => pushed < Len(Pushes)
  /\ main = "join" => pushed = Len(Pushes)
  /\ main = "returned" <=> exit \in {"success", "aborted"}
  /\ exit = "success" => printed = answer
  /\ main # "returned" => printed \in Seq(Message)

\* What the solver thread pushes is its answer and the end mark.
LEMMA PushesType ==
  ASSUME TypeOK
  PROVE  /\ Pushes \in Seq(Message \cup {QUEUE_END})
         /\ Len(Pushes) = Len(answer) + 1 /\ Len(answer) \in Nat
<1> DEFINE M == Message \cup {QUEUE_END}
<1>1. answer \in Seq(M) /\ Len(answer) \in Nat
  BY SeqMonotonic, LenProperties DEF TypeOK
<1> QED BY <1>1, AppendProperties DEF Pushes

\* The string in hand, by the place of the output thread.
LEMMA InHandType ==
  ASSUME TypeOK
  PROVE  /\ InHand \in Seq(Message \cup {QUEUE_END})
         /\ output = "popped" => InHand = <<elmt>>
         /\ output = "done" => InHand = <<QUEUE_END>>
         /\ output \notin {"popped", "done"} => InHand = << >>
<1>1. output = "popped" => InHand = <<elmt>>
  BY DEF InHand
<1>2. output = "done" => InHand = <<QUEUE_END>>
  BY DEF InHand
<1>3. output \notin {"popped", "done"} => InHand = << >>
  BY DEF InHand
<1>4. /\ <<elmt>> \in Seq(Message \cup {QUEUE_END})
      /\ <<QUEUE_END>> \in Seq(Message \cup {QUEUE_END})
      /\ << >> \in Seq(Message \cup {QUEUE_END})
  BY DEF TypeOK
<1> QED BY <1>1, <1>2, <1>3, <1>4

Inv == TypeOK /\ Stages /\ Fifo

\* The output path starts with an empty queue.
LEMMA InitInv == Init => Inv
<1> SUFFICES ASSUME Init PROVE Inv
  OBVIOUS
<1>1. PICK n \in 0..MaxPushed : answer \in Pieces(n)
  BY DEF Init, Start
<1>2. answer \in Seq(Message)
  BY <1>1, SizesAssumption DEF Pieces
<1>3. Len(Pushes) \in Nat /\ Len(Pushes) >= 1
  <2>1. Len(answer) \in Nat
    BY <1>2, LenProperties
  <2>2. answer \in Seq(Message \cup {QUEUE_END})
    BY <1>2, SeqMonotonic
  <2> QED BY <2>1, <2>2, AppendProperties DEF Pushes
<1>4. TypeOK
  BY <1>2, <1>3 DEF Init, Start, TypeOK
<1>5. Stages
  BY <1>3 DEF Init, Start, Stages
<1>6. Fifo
  <2>1. SubSeq(Pushes, 1, 0) = << >>
    BY SubSeqEmpty
  <2>2. InHand = << >>
    BY DEF Init, Start, InHand
  <2>3. << >> \o << >> = << >>
    OBVIOUS
  <2> QED BY <2>1, <2>2, <2>3 DEF Init, Start, Fifo
<1> QED BY <1>4, <1>5, <1>6 DEF Inv

\* Before main returns, Fifo speaks of four sequences of strings.
LEMMA Pieces4 ==
  ASSUME Inv, exit = "running"
  PROVE  /\ main # "returned"
         /\ printed \in Seq(Message \cup {QUEUE_END})
         /\ buffered \in Seq(Message \cup {QUEUE_END})
         /\ printed \in Seq(Message) /\ buffered \in Seq(Message)
         /\ InHand \in Seq(Message \cup {QUEUE_END})
         /\ elements \in Seq(Message \cup {QUEUE_END})
         /\ printed \o buffered \o InHand \o elements = SubSeq(Pushes, 1, pushed)
<1>1. main # "returned"
  BY DEF Inv, Stages
<1>2. printed \in Seq(Message) /\ buffered \in Seq(Message)
  BY <1>1 DEF Inv, Stages, TypeOK
<1>3. /\ printed \in Seq(Message \cup {QUEUE_END})
      /\ buffered \in Seq(Message \cup {QUEUE_END})
  BY <1>2, SeqMonotonic
<1> QED BY <1>1, <1>2, <1>3, InHandType DEF Inv, Fifo, TypeOK

\* Every step keeps the types.
LEMMA TypeStep == Inv /\ [Next]_vars => TypeOK'
<1> SUFFICES ASSUME Inv, [Next]_vars PROVE TypeOK'
  OBVIOUS
<1>1. TypeOK /\ Stages
  BY DEF Inv
<1>2. CASE UNCHANGED vars
  BY <1>1, <1>2 DEF vars, inputs, queue, stdout, TypeOK, Pushes
<1>3. ASSUME Next PROVE TypeOK'
  <2>0. exit = "running" /\ answer' = answer /\ Pushes' = Pushes
    <3>1. exit = "running" /\ answer' = answer
      BY <1>3 DEF Next, Running, PushLock, StartOutputThread,
           UnsupportedTask, UndefinedArgument, Compute, PushUnlock, Notify, Join,
           Setup, PopLock, PopWait, PopFront, Write, EndOfQueue, SpuriousWake,
           FlushOutBuffer, FlusherStops, StartTimer, Timeout, Crash, inputs
    <3> QED BY <3>1 DEF Pushes
  <2>1. CASE PushLock \/ StartOutputThread \/ UnsupportedTask \/ Compute \/ Notify
              \/ Setup \/ PopLock \/ PopWait \/ SpuriousWake \/ FlusherStops
    BY <1>1, <2>0, <2>1 DEF PushLock, StartOutputThread, UnsupportedTask, Compute,
         Notify, Setup, PopLock, PopWait, SpuriousWake, FlusherStops, TypeOK,
         inputs, queue, stdout
  <2>2. CASE UndefinedArgument
    <3>1. printed \in Seq(Message \cup {UNDEFINED}) /\ buffered \in Seq(Message \cup {UNDEFINED})
      BY <1>1, SeqMonotonic DEF TypeOK
    <3>2. printed' \in Seq(Message \cup {UNDEFINED})
      <4> DEFINE l == printed \o buffered
      <4>1. l \in Seq(Message \cup {UNDEFINED})
        BY <3>1, ConcatProperties
      <4> HIDE DEF l
      <4>2. Append(l, UNDEFINED) \in Seq(Message \cup {UNDEFINED})
        BY <4>1, AppendProperties
      <4> QED BY <2>2, <4>2 DEF UndefinedArgument, l
    <3> QED BY <1>1, <2>0, <2>2, <3>2 DEF UndefinedArgument, TypeOK, inputs, queue
  <2>3. CASE PushUnlock
    <3>1. /\ Pushes \in Seq(Message \cup {QUEUE_END}) /\ Len(Pushes) \in Nat
          /\ pushed + 1 \in 1..Len(Pushes)
      BY <1>1, <2>3, PushesType DEF PushUnlock, Stages, TypeOK
    <3>2. Pushes[pushed + 1] \in Message \cup {QUEUE_END}
      BY <3>1, ElementOfSeq
    <3>3. elements' \in Seq(Message \cup {QUEUE_END})
      BY <1>1, <2>3, <3>2 DEF PushUnlock, TypeOK
    <3>4. pushed' \in 0..Len(Pushes)
      BY <2>3, <3>1 DEF PushUnlock
    <3> QED BY <1>1, <2>0, <2>3, <3>3, <3>4 DEF PushUnlock, TypeOK, inputs, stdout
  <2>4. CASE PopFront
    <3>1. elmt' \in Message \cup {QUEUE_END} /\ elements' \in Seq(Message \cup {QUEUE_END})
      BY <1>1, <2>4, HeadTailProperties DEF PopFront, TypeOK
    <3> QED BY <1>1, <2>0, <2>4, <3>1 DEF PopFront, TypeOK, inputs, stdout
  <2>5. ASSUME Flush
        PROVE  buffered' \in Seq(Message) /\ printed' \in Seq(Message \cup {UNDEFINED})
    <3>1. printed \in Seq(Message \cup {UNDEFINED}) /\ buffered \in Seq(Message \cup {UNDEFINED})
      BY <1>1, SeqMonotonic DEF TypeOK
    <3>2. printed \o buffered \in Seq(Message \cup {UNDEFINED})
      BY <3>1, ConcatProperties
    <3> QED BY <2>5, <3>2 DEF Flush
  <2>6. CASE Join \/ EndOfQueue \/ FlushOutBuffer
    BY <1>1, <2>0, <2>5, <2>6 DEF Join, EndOfQueue, FlushOutBuffer, TypeOK, inputs, queue
  <2>7. CASE Write
    <3>1. elmt \in Message
      BY <1>1, <2>7 DEF Write, TypeOK
    <3>2. Append(buffered, elmt) \in Seq(Message) /\ <<elmt>> \in Seq(Message)
      BY <1>1, <3>1 DEF TypeOK
    <3>3. printed \in Seq(Message \cup {UNDEFINED}) /\ buffered \in Seq(Message \cup {UNDEFINED})
      BY <1>1, SeqMonotonic DEF TypeOK
    <3>4. printed \o buffered \in Seq(Message \cup {UNDEFINED})
      BY <3>3, ConcatProperties
    <3>5. buffered' \in Seq(Message) /\ printed' \in Seq(Message \cup {UNDEFINED})
      BY <2>7, <3>2, <3>3, <3>4 DEF Write
    <3> QED BY <1>1, <2>0, <2>7, <3>5 DEF Write, TypeOK, inputs, queue
  <2>8. CASE StartTimer
    BY <1>1, <2>0, <2>8 DEF StartTimer, Crash, TypeOK, inputs, queue, stdout
  <2>9. CASE Timeout
    <3>1. buffered' \in Seq(Message) /\ printed' \in Seq(Message \cup {UNDEFINED})
      BY <1>1, <2>5, <2>9 DEF Timeout, Crash, TypeOK, stdout
    <3> QED BY <1>1, <2>0, <2>9, <3>1 DEF Timeout, Crash, TypeOK, inputs, queue, stdout
  <2> QED BY <1>3, <2>1, <2>2, <2>3, <2>4, <2>6, <2>7, <2>8, <2>9
        DEF Next, Running
<1> QED BY <1>2, <1>3

\* Once main waits for the output thread and this one has met the sentinel,
\* everything has left the queue.
LEMMA WholeAtEnd ==
  ASSUME Inv, exit = "running", main = "join", output = "done"
  PROVE  printed \o buffered = answer /\ elements = << >>
<1>1. InHand = <<QUEUE_END>>
  BY InHandType DEF Inv
<1>2. printed \o buffered \in Seq(Message) /\ answer \in Seq(Message)
  BY Pieces4, ConcatProperties DEF Inv, TypeOK
<1>3. SubSeq(Pushes, 1, pushed) = Pushes
  <2>1. pushed = Len(Pushes)
    BY DEF Inv, Stages
  <2>2. Pushes \in Seq(Message \cup {QUEUE_END})
    BY PushesType DEF Inv
  <2> QED BY <2>1, <2>2
<1>4. (printed \o buffered) \o <<QUEUE_END>> \o elements = Append(answer, QUEUE_END)
  BY <1>1, <1>3, Pieces4 DEF Pushes
<1>5. elements \in Seq(Message \cup {QUEUE_END}) /\ QUEUE_END \notin Message
  BY Pieces4, MessagesAssumption
<1> DEFINE s == printed \o buffered
<1>6. s \in Seq(Message) /\ (s \o <<QUEUE_END>>) \o elements = Append(answer, QUEUE_END)
  BY <1>2, <1>4
<1> HIDE DEF s
<1>7. s = answer /\ elements = << >>
  BY <1>2, <1>5, <1>6, SentinelEnds
<1> QED BY <1>7 DEF s

\* Every step keeps what the stages of the two threads say of each other.
LEMMA StagesStep == Inv /\ [Next]_vars => Stages'
<1> SUFFICES ASSUME Inv, [Next]_vars PROVE Stages'
  OBVIOUS
<1>1. TypeOK /\ Stages
  BY DEF Inv
<1>2. Len(Pushes) \in Nat /\ pushed \in Nat /\ Len(Pushes) >= 1
  BY <1>1, PushesType DEF TypeOK
<1>3. CASE UNCHANGED vars
  BY <1>1, <1>3 DEF vars, inputs, queue, stdout, Stages, Pushes
<1>4. ASSUME answer' = answer PROVE Pushes' = Pushes
  BY <1>4 DEF Pushes
<1>5. ASSUME Flush, main # "returned" PROVE printed' \in Seq(Message)
  BY <1>1, <1>5, ConcatProperties DEF Flush, Stages, TypeOK
<1>6. ASSUME exit = "running" PROVE main # "returned"
  BY <1>1, <1>6 DEF Stages
<1>7. ASSUME exit = "running",
             StartOutputThread \/ UnsupportedTask \/ UndefinedArgument \/ Compute
      PROVE  Stages'
  BY <1>1, <1>2, <1>4, <1>7 DEF StartOutputThread, UnsupportedTask, UndefinedArgument,
       Compute, Stages, inputs, queue, stdout
<1>8. ASSUME exit = "running", PushLock \/ PushUnlock \/ Notify
      PROVE  Stages'
  BY <1>1, <1>2, <1>4, <1>8 DEF PushLock, PushUnlock, Notify, Stages, TypeOK,
       inputs, queue, stdout
<1>9. ASSUME exit = "running", Join PROVE Stages'
  <2>1. printed' = answer
    BY <1>9, WholeAtEnd DEF Join, Flush
  <2> QED BY <1>1, <1>9, <2>1 DEF Join, Stages, TypeOK, inputs
<1>10. ASSUME exit = "running",
              Setup \/ PopLock \/ PopWait \/ PopFront \/ SpuriousWake
       PROVE  Stages'
  BY <1>1, <1>4, <1>10 DEF Setup, PopLock, PopWait, PopFront, SpuriousWake, Stages,
       inputs, queue, stdout
<1>11. ASSUME exit = "running", Write PROVE Stages'
  <2>1. /\ printed \in Seq(Message) /\ buffered \in Seq(Message)
        /\ printed' = printed \/ printed' = printed \o buffered
    BY <1>1, <1>6, <1>11 DEF Write, Stages, TypeOK
  <2>2. printed' \in Seq(Message)
    BY <2>1, ConcatProperties
  <2> QED BY <1>1, <1>4, <1>6, <1>11, <2>2 DEF Write, Stages, inputs, queue
<1>12. ASSUME exit = "running", EndOfQueue \/ FlushOutBuffer PROVE Stages'
  BY <1>1, <1>4, <1>5, <1>6, <1>12 DEF EndOfQueue, FlushOutBuffer, Stages, inputs, queue
<1>13. ASSUME exit = "running", FlusherStops \/ StartTimer PROVE Stages'
  BY <1>1, <1>4, <1>6, <1>13 DEF FlusherStops, StartTimer, Crash, Stages, inputs, queue, stdout
<1>14. ASSUME exit = "running", Timeout PROVE Stages'
  <2>1. main' = main /\ printed' \in Seq(Message)
    BY <1>1, <1>5, <1>6, <1>14 DEF Timeout, Crash, stdout, Stages
  <2> QED BY <1>1, <1>4, <1>6, <1>14, <2>1 DEF Timeout, Crash, Stages, inputs, queue, stdout
<1> QED BY <1>3, <1>7, <1>8, <1>9, <1>10, <1>11, <1>12, <1>13, <1>14
      DEF Next, Running

\* Every step keeps the order of what is pushed, queued and printed.
LEMMA FifoStep == Inv /\ [Next]_vars => Fifo'
<1> SUFFICES ASSUME Inv, [Next]_vars PROVE Fifo'
  OBVIOUS
<1> DEFINE S == Message \cup {QUEUE_END}
<1>1. TypeOK /\ TypeOK' /\ Stages /\ Fifo
  BY TypeStep DEF Inv
<1>2. CASE UNCHANGED vars
  BY <1>1, <1>2 DEF vars, inputs, queue, stdout, Fifo, InHand, Pushes
<1>3. ASSUME answer' = answer PROVE Pushes' = Pushes
  BY <1>3 DEF Pushes
<1>4. ASSUME exit = "running", answer' = answer, pushed' = pushed,
             printed' \o buffered' \o InHand' \o elements'
               = printed \o buffered \o InHand \o elements
      PROVE  Fifo'
  BY <1>3, <1>4, Pieces4 DEF Fifo
<1>5. ASSUME exit = "running", answer' = answer, pushed' = pushed,
             output' = output, elmt' = elmt, elements' = elements, Flush
      PROVE  Fifo'
  <2>1. InHand' = InHand
    BY <1>5 DEF InHand
  <2>2. (printed \o buffered) \o << >> \o InHand \o elements
          = printed \o buffered \o InHand \o elements
    BY <1>5, Pieces4, Streams
  <2> QED BY <1>4, <1>5, <2>1, <2>2 DEF Flush
<1>6. ASSUME exit = "running",
             StartOutputThread \/ Compute \/ PushLock \/ Notify \/ Setup \/ PopLock
             \/ PopWait \/ SpuriousWake \/ FlusherStops \/ StartTimer
      PROVE  Fifo'
  <2>1. InHand' = InHand
    <3>1. ASSUME output \notin {"popped", "done"}, output' \notin {"popped", "done"}
          PROVE  InHand' = InHand
      BY <3>1 DEF InHand
    <3>2. ASSUME output' = output, elmt' = elmt PROVE InHand' = InHand
      BY <3>2 DEF InHand
    <3>3. CASE StartOutputThread \/ Setup \/ PopLock \/ PopWait \/ SpuriousWake
      <4>1. output \notin {"popped", "done"} /\ output' \notin {"popped", "done"}
        BY <1>1, <3>3 DEF StartOutputThread, Setup, PopLock, PopWait, SpuriousWake, Stages
      <4> QED BY <3>1, <4>1
    <3>4. CASE Compute \/ PushLock \/ FlusherStops \/ StartTimer
      BY <3>2, <3>4 DEF Compute, PushLock, FlusherStops, StartTimer, Crash
    <3>5. CASE Notify
      <4>1. CASE output = "waiting"
        BY <3>1, <3>5, <4>1 DEF Notify
      <4>2. CASE output # "waiting"
        BY <3>2, <3>5, <4>2 DEF Notify
      <4> QED BY <4>1, <4>2
    <3> QED BY <1>6, <3>3, <3>4, <3>5
  <2>2. /\ answer' = answer /\ pushed' = pushed /\ elements' = elements
        /\ printed' = printed /\ buffered' = buffered
    BY <1>6 DEF StartOutputThread, Compute, PushLock, Notify, Setup, PopLock,
         PopWait, SpuriousWake, FlusherStops, StartTimer, Crash, inputs, queue, stdout
  <2> QED BY <1>4, <1>6, <2>1, <2>2
<1>7. ASSUME exit = "running", UnsupportedTask \/ UndefinedArgument PROVE Fifo'
  BY <1>7 DEF UnsupportedTask, UndefinedArgument, Fifo
<1>8. ASSUME exit = "running", PushUnlock PROVE Fifo'
  <2>1. /\ InHand' = InHand /\ Pushes' = Pushes /\ printed' = printed
        /\ buffered' = buffered /\ pushed' = pushed + 1
        /\ elements' = Append(elements, Pushes[pushed + 1])
    BY <1>3, <1>8 DEF PushUnlock, InHand, inputs, stdout
  <2>2. Pushes \in Seq(S) /\ pushed \in Nat /\ pushed < Len(Pushes)
    BY <1>1, <1>8, PushesType DEF PushUnlock, Stages, TypeOK
  <2>3. Pushes[pushed + 1] \in S
    BY <2>2, ElementOfSeq, LenProperties
  <2>4. printed \o buffered \o InHand \o Append(elements, Pushes[pushed + 1])
          = (printed \o buffered \o InHand \o elements) \o <<Pushes[pushed + 1]>>
    BY <1>8, <2>3, Pieces4, Streams
  <2>5. SubSeq(Pushes, 1, pushed + 1) = SubSeq(Pushes, 1, pushed) \o <<Pushes[pushed + 1]>>
    BY <2>2, LongerPrefix
  <2> QED BY <1>8, <2>1, <2>4, <2>5, Pieces4 DEF Fifo
<1>9. ASSUME exit = "running", Join PROVE Fifo'
  BY <1>5, <1>9 DEF Join, inputs, queue
<1>10. ASSUME exit = "running", PopFront PROVE Fifo'
  <2>1. InHand = << >> /\ InHand' = <<Head(elements)>>
    BY <1>1, <1>10, InHandType DEF PopFront, InHand
  <2>2. elements # << >> /\ elements' = Tail(elements)
    BY <1>10 DEF PopFront
  <2>3. Head(elements) \in S
    BY <1>1, <2>2, HeadTailProperties DEF TypeOK
  <2> DEFINE e == elements
  <2>4. /\ printed \in Seq(S) /\ buffered \in Seq(S) /\ e \in Seq(S)
        /\ Head(e) \in S /\ e # << >>
    BY <1>10, <2>2, <2>3, Pieces4
  <2> HIDE DEF e, S
  <2>5. printed \o buffered \o <<Head(e)>> \o Tail(e) = printed \o buffered \o << >> \o e
    BY <2>4, Streams
  <2> QED BY <1>4, <1>10, <2>1, <2>2, <2>5 DEF e, PopFront, inputs, stdout
<1>11. ASSUME exit = "running", Write PROVE Fifo'
  <2>1. InHand = <<elmt>> /\ InHand' = << >> /\ elements' = elements
    BY <1>1, <1>11, InHandType DEF Write, InHand, queue
  <2>2. /\ printed \o Append(buffered, elmt) \o << >> \o elements
             = printed \o buffered \o <<elmt>> \o elements
        /\ (printed \o buffered) \o <<elmt>> \o << >> \o elements
             = printed \o buffered \o <<elmt>> \o elements
    <3>1. elmt \in S
      BY <1>1 DEF TypeOK
    <3>2. /\ printed \in Seq(S) /\ buffered \in Seq(S)
          /\ InHand \in Seq(S) /\ elements \in Seq(S)
      BY <1>11, Pieces4
    <3> HIDE DEF S
    <3> QED BY <3>1, <3>2, Streams, SMTT(30)
  <2>3. printed' \o buffered' \o InHand' \o elements'
          = printed \o buffered \o <<elmt>> \o elements
    BY <1>11, <2>1, <2>2 DEF Write
  <2> QED BY <1>4, <1>11, <2>1, <2>3 DEF Write, inputs
<1>12. ASSUME exit = "running", EndOfQueue PROVE Fifo'
  <2>1. InHand = <<QUEUE_END>> /\ InHand' = <<QUEUE_END>>
    BY <1>1, <1>12, InHandType DEF EndOfQueue, InHand
  <2>2. (printed \o buffered) \o << >> \o InHand \o elements
          = printed \o buffered \o InHand \o elements
    BY <1>12, Pieces4, Streams
  <2> QED BY <1>4, <1>12, <2>1, <2>2 DEF EndOfQueue, Flush, inputs, queue
<1>13. ASSUME exit = "running", FlushOutBuffer PROVE Fifo'
  BY <1>5, <1>13 DEF FlushOutBuffer, inputs, queue
<1>14. ASSUME exit = "running", Timeout PROVE Fifo'
  <2>1. CASE Crash
    <3>1. InHand' = InHand
      BY <2>1 DEF Crash, InHand
    <3> QED BY <1>4, <1>14, <2>1, <3>1 DEF Crash, inputs, queue, stdout
  <2>2. CASE ~Crash
    BY <1>5, <1>14, <2>2 DEF Timeout, inputs, queue
  <2> QED BY <2>1, <2>2
<1> QED BY <1>2, <1>6, <1>7, <1>8, <1>9, <1>10, <1>11, <1>12, <1>13, <1>14
      DEF Next, Running

\* Every step keeps the invariant.
LEMMA InvStep == Inv /\ [Next]_vars => Inv'
BY TypeStep, StagesStep, FifoStep DEF Inv

\* The invariant holds of every state of the output path.
LEMMA InvCorrect == Spec => []Inv
BY InitInv, InvStep, PTL DEF Spec

\* Every variable keeps its type.
THEOREM TypeCorrect == Spec => []TypeOK
<1>1. Inv => TypeOK
  BY DEF Inv
<1> QED BY <1>1, InvCorrect, PTL

\* The queue, the buffer and the printed text together are what was pushed.
THEOREM FifoCorrect == Spec => []Fifo
<1>1. Inv => Fifo
  BY DEF Inv
<1> QED BY <1>1, InvCorrect, PTL

\* push cannot leave the output thread asleep on a string.
THEOREM NoLostWakeupCorrect == Spec => []NoLostWakeup
<1>1. Init => NoLostWakeup
  BY DEF Init, Start, NoLostWakeup
<1>2. NoLostWakeup /\ [Next]_vars => NoLostWakeup'
  BY DEF NoLostWakeup, Next, Running, PushLock, StartOutputThread,
     UnsupportedTask, UndefinedArgument, Compute, PushUnlock, Notify, Join, Setup,
     PopLock, PopWait, PopFront, Write, EndOfQueue, SpuriousWake, FlushOutBuffer,
     FlusherStops, StartTimer, Timeout, Crash, vars, inputs, queue, stdout
<1> QED BY <1>1, <1>2, PTL DEF Spec

\* Nothing leaves before the first push.
Quiet ==
  /\ main \in {"start", "check"} =>
       /\ elements = << >> /\ output \notin {"popped", "done"}
       /\ buffered = << >> /\ printed = << >>
  /\ exit = "aborted" => printed \in {<< >>, <<UNDEFINED>>}

\* Every step keeps it: what is printed or popped was pushed before.
LEMMA QuietStep == Quiet /\ [Next]_vars => Quiet'
<1> SUFFICES ASSUME Quiet, [Next]_vars PROVE Quiet'
  OBVIOUS
<1>1. ASSUME Flush, buffered = << >>, printed = << >>
      PROVE  buffered' = << >> /\ printed' = << >>
  BY <1>1 DEF Flush
<1>2. CASE UnsupportedTask \/ UndefinedArgument
  <2>1. CASE UnsupportedTask
    BY <2>1 DEF UnsupportedTask, Quiet, stdout
  <2>2. CASE UndefinedArgument
    <3>1. Append(<< >> \o << >>, UNDEFINED) = <<UNDEFINED>>
      OBVIOUS
    <3> QED BY <2>2, <3>1 DEF UndefinedArgument, Quiet
  <2> QED BY <1>2, <2>1, <2>2
<1>3. CASE PushLock \/ StartOutputThread \/ Compute \/ PushUnlock \/ Notify \/ Join
  BY <1>3 DEF PushLock, StartOutputThread, Compute, PushUnlock, Notify, Join, Quiet,
       inputs, queue, stdout
<1>4. ASSUME exit = "running",
             Setup \/ PopLock \/ PopWait \/ PopFront \/ Write \/ SpuriousWake
             \/ FlusherStops \/ StartTimer
      PROVE  Quiet'
  BY <1>4 DEF Setup, PopLock, PopWait, PopFront, Write, SpuriousWake, FlusherStops,
       StartTimer, Crash, Quiet, inputs, queue, stdout
<1>5. ASSUME exit = "running", EndOfQueue \/ FlushOutBuffer \/ Timeout
      PROVE  Quiet'
  BY <1>1, <1>5 DEF EndOfQueue, FlushOutBuffer, Timeout, Crash, Quiet,
       inputs, queue, stdout
<1>6. CASE UNCHANGED vars
  BY <1>6 DEF vars, inputs, queue, stdout, Quiet
<1> QED BY <1>2, <1>3, <1>4, <1>5, <1>6 DEF Next, Running

\* A normal end has printed the whole answer, an early return nothing of one.
THEOREM PrintedWholeCorrect == Spec => []PrintedWhole
<1>1. Init => Quiet
  BY DEF Init, Start, Quiet
<1>2. Inv /\ Quiet => PrintedWhole
  BY DEF Inv, Stages, Quiet, PrintedWhole
<1> QED BY <1>1, <1>2, QuietStep, InvCorrect, PTL DEF Spec

=============================================================================
