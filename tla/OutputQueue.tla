----------------------------- MODULE OutputQueue -----------------------------
(***************************************************************************)
(* How an answer reaches the standard output: main computes and pushes the *)
(* pieces of the answer into a ConcurrentStrQueue, the output thread pops  *)
(* them and writes them into the stdio buffer, a third thread flushes that *)
(* buffer every five seconds, and -timeout starts a fourth one that ends   *)
(* the process.                                                            *)
(***************************************************************************)
EXTENDS Naturals, Sequences

CONSTANTS
  Message,      \* the strings a formatter passes to displayFct
  QUEUE_END,    \* the sentinel of Main.cc
  UNDEFINED,    \* what main prints for an argument the instance lacks
  MaxPushed,    \* bound: number of strings of an answer
  BufSize       \* strings the stdio buffer holds

ASSUME MessagesAssumption ==
  QUEUE_END \notin Message /\ UNDEFINED \notin Message /\ QUEUE_END # UNDEFINED
ASSUME SizesAssumption == MaxPushed \in Nat /\ BufSize \in Nat \ {0}

VARIABLES
  answer,       \* the strings the task will push
  taskDefined,  \* semantics and task are known
  argDefined,   \* no -a argument, or one of the instance
  timer,        \* "unset", or the state of the timeout thread
  pushed,       \* how many strings main has pushed
  elements,     \* ConcurrentStrQueue::elements
  mutex,        \* holder of ConcurrentStrQueue::queue_mut
  main,         \* where main is
  output,       \* where the output thread is
  elmt,         \* printOutputQueue's elmt
  flusher,      \* the state of the flushing thread
  buffered,     \* the stdio buffer of stdout
  printed,      \* what has left the process
  exit          \* how the process has ended, or "running"

inputs == <<answer, taskDefined, argDefined>>
queue  == <<elements, mutex>>
stdout == <<buffered, printed>>
vars   == <<inputs, timer, pushed, queue, main, output, elmt, flusher, stdout, exit>>

Pieces(n) == [1..n -> Message]

\* main before it starts the output thread, for any answer
Start ==
  /\ taskDefined \in BOOLEAN
  /\ argDefined \in BOOLEAN
  /\ timer \in {"unset", "created"}
  /\ pushed = 0
  /\ elements = << >>
  /\ mutex = "free"
  /\ main = "start"
  /\ output = "none"
  /\ elmt = QUEUE_END
  /\ flusher = "none"
  /\ buffered = << >>
  /\ printed = << >>
  /\ exit = "running"

Init == (\E n \in 0..MaxPushed : answer \in Pieces(n)) /\ Start

Flush == printed' = printed \o buffered /\ buffered' = << >>

----------------------------------------------------------------------------
(* main *)

StartOutputThread ==
  /\ main = "start"
  /\ main' = "check"
  /\ output' = "setup"
  /\ UNCHANGED <<inputs, timer, pushed, queue, elmt, flusher, stdout, exit>>

\* The early returns leave outputThread joinable: its destructor calls
\* std::terminate.
UnsupportedTask ==
  /\ main = "check"
  /\ ~taskDefined
  /\ exit' = "aborted"
  /\ main' = "returned"
  /\ UNCHANGED <<inputs, timer, pushed, queue, output, elmt, flusher, stdout>>

UndefinedArgument ==
  /\ main = "check"
  /\ taskDefined
  /\ ~argDefined
  /\ printed' = Append(printed \o buffered, UNDEFINED)
  /\ buffered' = << >>
  /\ exit' = "aborted"
  /\ main' = "returned"
  /\ UNCHANGED <<inputs, timer, pushed, queue, output, elmt, flusher>>

Compute ==
  /\ main = "check"
  /\ taskDefined
  /\ argDefined
  /\ main' = "push"
  /\ UNCHANGED <<inputs, timer, pushed, queue, output, elmt, flusher, stdout, exit>>

PushLock ==
  /\ main = "push"
  /\ mutex = "free"
  /\ mutex' = "main"
  /\ main' = "locked"
  /\ UNCHANGED <<inputs, timer, pushed, elements, output, elmt, flusher, stdout, exit>>

\* The answer, then the sentinel.
Pushes == Append(answer, QUEUE_END)

PushUnlock ==
  /\ main = "locked"
  /\ elements' = Append(elements, Pushes[pushed + 1])
  /\ pushed' = pushed + 1
  /\ mutex' = "free"
  /\ main' = "notify"
  /\ UNCHANGED <<inputs, timer, output, elmt, flusher, stdout, exit>>

\* Mutants: one kind of push tells nobody.
NotifySentinelOnly ==
  /\ main = "notify"
  /\ output' = IF output = "waiting" /\ pushed = Len(Pushes) THEN "woken" ELSE output
  /\ main' = IF pushed = Len(Pushes) THEN "join" ELSE "push"
  /\ UNCHANGED <<inputs, timer, pushed, queue, elmt, flusher, stdout, exit>>

NotifyPiecesOnly ==
  /\ main = "notify"
  /\ output' = IF output = "waiting" /\ pushed < Len(Pushes) THEN "woken" ELSE output
  /\ main' = IF pushed = Len(Pushes) THEN "join" ELSE "push"
  /\ UNCHANGED <<inputs, timer, pushed, queue, elmt, flusher, stdout, exit>>

Notify ==
  /\ main = "notify"
  /\ output' = IF output = "waiting" THEN "woken" ELSE output
  /\ main' = IF pushed = Len(Pushes) THEN "join" ELSE "push"
  /\ UNCHANGED <<inputs, timer, pushed, queue, elmt, flusher, stdout, exit>>

\* Mutant: main does not wait for the output thread.
JoinAtOnce ==
  /\ main = "join"
  /\ Flush
  /\ main' = "returned"
  /\ exit' = "success"
  /\ UNCHANGED <<inputs, timer, pushed, queue, output, elmt, flusher>>

Join ==
  /\ main = "join"
  /\ output = "done"
  /\ Flush
  /\ main' = "returned"
  /\ exit' = "success"
  /\ UNCHANGED <<inputs, timer, pushed, queue, output, elmt, flusher>>

MainStep == StartOutputThread \/ UnsupportedTask \/ UndefinedArgument
            \/ Compute \/ PushUnlock \/ Notify \/ Join

----------------------------------------------------------------------------
(* The output thread, printOutputQueue *)

Setup ==
  /\ output = "setup"
  /\ flusher' = "running"
  /\ output' = "lock"
  /\ UNCHANGED <<inputs, timer, pushed, queue, main, elmt, stdout, exit>>

\* pop: the first lock, or the one cond.wait takes again.
PopLock ==
  /\ output \in {"lock", "woken"}
  /\ mutex = "free"
  /\ mutex' = "output"
  /\ output' = "test"
  /\ UNCHANGED <<inputs, timer, pushed, elements, main, elmt, flusher, stdout, exit>>

PopWait ==
  /\ output = "test"
  /\ elements = << >>
  /\ mutex' = "free"
  /\ output' = "waiting"
  /\ UNCHANGED <<inputs, timer, pushed, elements, main, elmt, flusher, stdout, exit>>

\* Mutant: the string is read and stays in the queue.
PopFrontKeeps ==
  /\ output = "test"
  /\ elements # << >>
  /\ elmt' = Head(elements)
  /\ mutex' = "free"
  /\ output' = "popped"
  /\ UNCHANGED <<inputs, timer, pushed, elements, main, flusher, stdout, exit>>

PopFront ==
  /\ output = "test"
  /\ elements # << >>
  /\ elmt' = Head(elements)
  /\ elements' = Tail(elements)
  /\ mutex' = "free"
  /\ output' = "popped"
  /\ UNCHANGED <<inputs, timer, pushed, main, flusher, stdout, exit>>

\* std::cout << elmt; a full buffer is written first.
Write ==
  /\ output = "popped"
  /\ elmt # QUEUE_END
  /\ IF Len(buffered) < BufSize
       THEN buffered' = Append(buffered, elmt) /\ UNCHANGED printed
       ELSE buffered' = <<elmt>> /\ printed' = printed \o buffered
  /\ output' = "lock"
  /\ UNCHANGED <<inputs, timer, pushed, queue, main, elmt, flusher, exit>>

EndOfQueue ==
  /\ output = "popped"
  /\ elmt = QUEUE_END
  /\ Flush
  /\ flusher' = "cancelled"
  /\ output' = "done"
  /\ UNCHANGED <<inputs, timer, pushed, queue, main, elmt, exit>>

OutputStep == Setup \/ PopLock \/ PopWait \/ PopFront \/ Write \/ EndOfQueue

\* A condition variable may wake with nobody having notified it.
SpuriousWake ==
  /\ output = "waiting"
  /\ output' = "woken"
  /\ UNCHANGED <<inputs, timer, pushed, queue, main, elmt, flusher, stdout, exit>>

----------------------------------------------------------------------------
(* The flushing thread and the timeout thread *)

\* The cancellation is deferred: a flush already begun may still happen.
FlushOutBuffer ==
  /\ flusher \in {"running", "cancelled"}
  /\ Flush
  /\ UNCHANGED <<inputs, timer, pushed, queue, main, output, elmt, flusher, exit>>

FlusherStops ==
  /\ flusher = "cancelled"
  /\ flusher' = "none"
  /\ UNCHANGED <<inputs, timer, pushed, queue, main, output, elmt, stdout, exit>>

\* handleTimeout and sigIntHandler use a shared_ptr initialised with itself:
\* the process crashes there, or the call does nothing.  handleTimeout also
\* reads a string of manageTimeout that may be gone, hence any delay, and
\* gives up when the delay is not positive.
Crash ==
  /\ exit' = "crashed"
  /\ UNCHANGED <<inputs, timer, pushed, queue, main, output, elmt, flusher, stdout>>

StartTimer ==
  /\ timer = "created"
  /\ \/ Crash
     \/ /\ timer' \in {"armed", "unset"}
        /\ UNCHANGED <<inputs, pushed, queue, main, output, elmt, flusher, stdout, exit>>

\* SIGINT at the end of the delay: fflush(stdout); exit(10)
Timeout ==
  /\ timer = "armed"
  /\ \/ Crash
     \/ /\ Flush
        /\ exit' = "timeout"
        /\ UNCHANGED <<inputs, timer, pushed, queue, main, output, elmt, flusher>>

Running(A) == exit = "running" /\ A

Next ==
  \/ Running(PushLock)
  \/ Running(StartOutputThread)
  \/ Running(UnsupportedTask)
  \/ Running(UndefinedArgument)
  \/ Running(Compute)
  \/ Running(PushUnlock)
  \/ Running(Notify)
  \/ Running(Join)
  \/ Running(Setup)
  \/ Running(PopLock)
  \/ Running(PopWait)
  \/ Running(PopFront)
  \/ Running(Write)
  \/ Running(EndOfQueue)
  \/ Running(SpuriousWake)
  \/ Running(FlushOutBuffer)
  \/ Running(FlusherStops)
  \/ Running(StartTimer)
  \/ Running(Timeout)

Spec == Init /\ [][Next]_vars

\* Each thread is scheduled; the mutex does not starve main for ever while
\* the output thread keeps waking for nothing.
FairSpec == /\ Spec
            /\ WF_vars(Running(MainStep))
            /\ SF_vars(Running(PushLock))
            /\ WF_vars(Running(OutputStep))

----------------------------------------------------------------------------
TypeOK ==
  /\ answer \in Seq(Message)
  /\ taskDefined \in BOOLEAN
  /\ argDefined \in BOOLEAN
  /\ timer \in {"unset", "created", "armed"}
  /\ pushed \in 0..Len(Pushes)
  /\ elements \in Seq(Message \cup {QUEUE_END})
  /\ mutex \in {"free", "main", "output"}
  /\ main \in {"start", "check", "push", "locked", "notify", "join", "returned"}
  /\ output \in {"none", "setup", "lock", "test", "waiting", "woken", "popped", "done"}
  /\ elmt \in Message \cup {QUEUE_END}
  /\ flusher \in {"none", "running", "cancelled"}
  /\ buffered \in Seq(Message)
  /\ printed \in Seq(Message \cup {UNDEFINED})
  /\ exit \in {"running", "success", "aborted", "crashed", "timeout"}

\* The string the output thread has taken and not yet written.
InHand == CASE output = "popped" -> <<elmt>>
            [] output = "done"   -> <<QUEUE_END>>
            [] OTHER             -> << >>

\* What has been printed, what the buffer holds, the string in hand and the
\* queue are, in this order, exactly what main has pushed: nothing is lost,
\* repeated or overtaken, whatever the threads do and wherever they stop.
Fifo ==
  main # "returned" \/ exit = "success" =>
    printed \o buffered \o InHand \o elements = SubSeq(Pushes, 1, pushed)

\* A process that ends normally has printed the whole answer; one that was
\* asked about an argument it does not know has printed nothing else.
PrintedWhole ==
  /\ exit = "success" => printed = answer
  /\ exit = "aborted" => printed \in {<< >>, <<UNDEFINED>>}

\* The output thread never sleeps on a string that nobody will tell it of:
\* push releases the lock before it notifies, so the wake-up is still due.
NoLostWakeup ==
  output = "waiting" /\ elements # << >> => main = "notify"

\* A run of the program ends, and without a timeout it ends with the answer.
Terminates ==
  /\ <>(exit # "running")
  /\ timer = "unset" /\ taskDefined /\ argDefined ~> exit = "success"
=============================================================================
