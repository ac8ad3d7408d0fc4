----------------------------- MODULE Containers -----------------------------
(***************************************************************************)
(* The data structures under the two engines, that Cdcl and SimpSolver     *)
(* take for sequences and sets: the ring of the subsumption queue, the     *)
(* bounded queue of the restarts of Glucose, the lists that are cleaned    *)
(* when they are read, the region of the clauses, the vectors, the sort;   *)
(* and the codes of the literals, of their values and of the lengths       *)
(* between restarts.                                                       *)
(*                                                                         *)
(* A behaviour makes a sequence of calls on one structure, box; promise is *)
(* what its users take it for.  Unsigned integers are modulo UintRange.    *)
(***************************************************************************)
EXTENDS Integers, FiniteSetsExt, SequencesExt

CONSTANTS
  Elements,         \* bound: what is put in a queue
  Calls,            \* bound: the calls on a structure
  BoundedSize,      \* bound: the size of a bounded queue
  UintRange,        \* bound: the 2^32 of uint32_t; an int is below half of it
  ClauseSizes,      \* bound: the clauses that are allocated
  StartCap,         \* bound: the 1024 * 1024 of RegionAllocator
  SmallSize,        \* bound: the 15 of sort
  Arrays,           \* bound: the arrays to sort
  LubyTerms         \* bound: the terms of Luby's sequence

VARIABLES box, promise, calls

boxVars == <<box, promise, calls>>

\* Any number of structures, none of which has the fields of another.
OfKind(kind) == box.kind = kind /\ calls < Calls /\ calls' = calls + 1

----------------------------------------------------------------------------
(* Queue: elements first to end of buf, around its end; one is always free *)

NewQueue == [kind |-> "queue", buf |-> <<0>>, first |-> 0, end |-> 0]

QueueSize(q) ==
  IF q.end >= q.first THEN q.end - q.first ELSE q.end - q.first + Len(q.buf)

QueueAt(q, k) == q.buf[((q.first + k) % Len(q.buf)) + 1]

\* Mutant: the elements stay where they are.
ResizedInPlace(q) ==
  LET free == ((3 * Len(q.buf) + 1) \div 2) - Len(q.buf)
  IN  [q EXCEPT !.buf = @ \o [k \in 1..free |-> 0], !.first = 0, !.end = Len(q.buf)]

Resized(q) ==
  LET free == ((3 * Len(q.buf) + 1) \div 2) - Len(q.buf)
  IN  [q EXCEPT !.buf = SubSeq(@, q.first + 1, Len(@)) \o SubSeq(@, 1, q.end)
                        \o [k \in 1..free |-> 0],
                !.first = 0,
                !.end = Len(q.buf)]

Inserted(q, x) ==
  LET t == [q EXCEPT !.buf[q.end + 1] = x, !.end = (@ + 1) % Len(q.buf)]
  IN  IF t.first = t.end THEN Resized(t) ELSE t

QueueInsert ==
  /\ OfKind("queue")
  /\ \E x \in Elements : box' = Inserted(box, x) /\ promise' = Append(promise, x)

QueuePop ==
  /\ OfKind("queue")
  /\ box.first # box.end
  /\ box' = [box EXCEPT !.first = (@ + 1) % Len(box.buf)]
  /\ promise' = Tail(promise)

QueueExact ==
  /\ QueueSize(box) = Len(promise)
  /\ \A k \in DOMAIN promise : QueueAt(box, k - 1) = promise[k]

----------------------------------------------------------------------------
(* bqueue: the last values, and their sum *)

NewBounded ==
  [kind |-> "bqueue", elems |-> [k \in 1..BoundedSize |-> 0],
   first |-> 0, last |-> 0, sumofqueue |-> 0, queuesize |-> 0]

maxsize == BoundedSize

isvalid(b) == b.queuesize = maxsize

\* Both ends start again when the first does.
Advanced(b) == IF b.first + 1 = maxsize THEN [b EXCEPT !.first = 0, !.last = 0]
               ELSE [b EXCEPT !.first = @ + 1]

Replacing(b) ==
  IF isvalid(b)
    THEN [b EXCEPT !.sumofqueue = @ - b.elems[b.last + 1], !.last = (@ + 1) % maxsize]
    ELSE [b EXCEPT !.queuesize = @ + 1]

BoundedPush ==
  /\ OfKind("bqueue")
  /\ \E x \in Elements :
       /\ box' = Advanced([Replacing(box) EXCEPT !.sumofqueue = @ + x,
                                                  !.elems[box.first + 1] = x])
       /\ promise' = IF Len(promise) = maxsize THEN Append(Tail(promise), x)
                     ELSE Append(promise, x)

fastclear ==
  /\ OfKind("bqueue")
  /\ box' = [box EXCEPT !.first = 0, !.last = 0, !.queuesize = 0, !.sumofqueue = 0]
  /\ promise' = << >>

BoundedExact ==
  /\ box.queuesize = Len(promise)
  /\ box.sumofqueue = FoldLeft(LAMBDA n, x : n + x, 0, promise)

----------------------------------------------------------------------------
(* OccLists: a removed clause leaves its lists when they are cleaned *)

Lists == 1..2

NewOccLists ==
  [kind |-> "lists", occs |-> [i \in Lists |-> << >>], dirty |-> {}, dirties |-> << >>,
   clauses |-> 0, deleted |-> {}]

Left(cs, crs) == SelectSeq(cs, LAMBDA cr : cr \notin crs)

smudge(b, i) ==
  IF i \in b.dirty THEN b
  ELSE [b EXCEPT !.dirty = @ \cup {i}, !.dirties = Append(@, i)]

clean(b, i) == [b EXCEPT !.occs[i] = Left(@, b.deleted), !.dirty = @ \ {i}]

lookup(b, i) == IF i \in b.dirty THEN clean(b, i) ELSE b

\* dirties may hold a list twice, or one that lookup has cleaned.
cleanAll(b) == [FoldLeft(lookup, b, b.dirties) EXCEPT !.dirties = << >>]

\* A new clause, in some of the lists: operator [] does not clean them.
ListClause ==
  /\ OfKind("lists")
  /\ LET cr == box.clauses + 1
     IN  \E into \in SUBSET Lists \ {{}} :
           /\ box' = [box EXCEPT !.clauses = cr,
                                 !.occs = [i \in Lists |-> IF i \in into THEN Append(@[i], cr)
                                                           ELSE @[i]]]
           /\ promise' = [i \in Lists |-> IF i \in into THEN Append(promise[i], cr) ELSE promise[i]]

\* The clause is marked and its lists are smudged (detachClause, removeClause).
ListRemove ==
  /\ OfKind("lists")
  /\ \E cr \in (1..box.clauses) \ box.deleted :
       /\ box' = FoldSet(LAMBDA i, b : smudge(b, i), [box EXCEPT !.deleted = @ \cup {cr}],
                         {i \in Lists : cr \in Range(promise[i])})
       /\ promise' = [i \in Lists |-> Left(promise[i], {cr})]

ListLookup ==
  /\ OfKind("lists")
  /\ \E i \in box.dirty : box' = lookup(box, i)
  /\ UNCHANGED promise

\* The references of the clauses that are left after a garbage collection, which
\* cleans the lists before it follows them.
NewRef(b, cr) == cr - Cardinality({d \in b.deleted : d < cr})

Moved(b, lists) == [i \in Lists |-> [k \in DOMAIN lists[i] |-> NewRef(b, lists[i][k])]]

ListsRelocated ==
  /\ OfKind("lists")
  /\ box.deleted # {}
  /\ LET b == cleanAll(box)
     IN  box' = [b EXCEPT !.occs = Moved(b, @),
                          !.clauses = @ - Cardinality(b.deleted), !.deleted = {}]
  /\ promise' = Moved(box, promise)

\* A list that is read holds the clauses that are left, in order.
ListsExact ==
  /\ \A i \in Lists : lookup(box, i).occs[i] = promise[i]
  /\ box.dirty \subseteq Range(box.dirties)

----------------------------------------------------------------------------
(* RegionAllocator and ClauseAllocator: clauses in one array of words that *)
(* grows, and is copied when enough of it is wasted                        *)

Even(n) == n - (n % 2)

OutOfMemory == -1

\* capacity: cap grows from prev_cap until it is min_cap or more; a sum that
\* wraps around is seen by being no more than prev_cap.
RECURSIVE Grown(_, _, _)
Grown(prev_cap, cap, min_cap) ==
  LET delta == Even((cap \div 2) + (cap \div 8) + 2)
      next  == (cap + delta) % UintRange
  IN  IF cap >= min_cap THEN cap
      ELSE IF next <= prev_cap THEN OutOfMemory
      ELSE Grown(prev_cap, next, min_cap)

capacity(cap, min_cap) == Grown(cap, cap, min_cap % UintRange)

\* The header is three words; a learnt clause has one more, and so have all the
\* clauses of a preprocessor (extra_clause_field).
clauseWord32Size(size, has_extra) == 3 + size + (IF has_extra THEN 1 ELSE 0)

NewRegion(start_cap, extra) ==
  [kind |-> "region", sz |-> 0, cap |-> capacity(0, start_cap), wasted |-> 0,
   extra_clause_field |-> extra, clauses |-> << >>]

\* alloc: the clause c, a record of its size and of whether it is learnt; r.cap is
\* OutOfMemory if it throws.
Allocated(r, c) ==
  LET has_extra == c.learnt \/ r.extra_clause_field
      words     == clauseWord32Size(c.size, has_extra)
      cap       == capacity(r.cap, r.sz + words)
  IN  IF r.cap = OutOfMemory \/ cap = OutOfMemory \/ r.sz + words >= UintRange
        THEN [r EXCEPT !.cap = OutOfMemory]
      ELSE [r EXCEPT !.cap = cap, !.sz = @ + words,
                     !.clauses = Append(@, [size |-> c.size, learnt |-> c.learnt,
                                            has_extra |-> has_extra, ref |-> r.sz,
                                            words |-> words])]

Contents(cs) == [k \in DOMAIN cs |-> [size |-> cs[k].size, learnt |-> cs[k].learnt]]

AllocClause ==
  /\ OfKind("region")
  /\ box.cap # OutOfMemory
  /\ \E size \in ClauseSizes, learnt \in BOOLEAN :
       LET c == [size |-> size, learnt |-> learnt]
       IN  /\ box' = Allocated(box, c)
           /\ promise' = IF box'.cap = OutOfMemory THEN promise ELSE Append(promise, c)

\* free, with the size that the clause has now.
FreeClause ==
  /\ OfKind("region")
  /\ box.cap # OutOfMemory
  /\ \E k \in DOMAIN box.clauses :
       /\ box' = [box EXCEPT !.wasted = @ + clauseWord32Size(box.clauses[k].size,
                                                             box.clauses[k].has_extra),
                             !.clauses = RemoveAt(@, k)]
       /\ promise' = RemoveAt(promise, k)

\* shrink, by one literal: the word that is left is not counted.
ShrinkClause ==
  /\ OfKind("region")
  /\ box.cap # OutOfMemory
  /\ \E k \in DOMAIN box.clauses :
       /\ box.clauses[k].size > 2
       /\ box' = [box EXCEPT !.clauses[k].size = @ - 1]
       /\ promise' = [promise EXCEPT ![k].size = @ - 1]

\* garbageCollect: the clauses are allocated again in a region that starts with
\* the words that are not wasted; after an elimination without their extra word.
CollectRegion ==
  /\ OfKind("region")
  /\ box.cap # OutOfMemory
  /\ box.wasted > 0
  /\ \E extra \in {box.extra_clause_field, FALSE} :
       box' = FoldLeft(Allocated, NewRegion(box.sz - box.wasted, extra), box.clauses)
  /\ UNCHANGED promise

Words(r, k) == clauseWord32Size(r.clauses[k].size, r.clauses[k].has_extra)

\* The capacities follow one another from 0; the sum that comes after the last of
\* them wraps around.
RECURSIVE LastCap(_)
LastCap(cap) ==
  LET more == capacity(cap, cap + 1) IN IF more = OutOfMemory THEN cap ELSE LastCap(more)

\* The clauses are those that were allocated, one after the other and without
\* overlap; what is wasted leaves room for them; and memory is out only when the
\* largest capacity is too small.
RegionExact ==
  /\ Contents(box.clauses) = promise
  /\ \A k \in DOMAIN box.clauses :
       LET end == box.clauses[k].ref + Words(box, k)
       IN  IF k = Len(box.clauses) THEN end <= box.sz ELSE end <= box.clauses[k + 1].ref
  /\ MapThenSumSet(LAMBDA k : Words(box, k), DOMAIN box.clauses) <= box.sz - box.wasted
  /\ IF box.cap = OutOfMemory
       THEN box.sz + clauseWord32Size(Max(ClauseSizes), TRUE) > LastCap(0)
       ELSE box.sz <= box.cap /\ box.cap <= LastCap(0)

----------------------------------------------------------------------------
(* vec: capacities *)

IntMax == (UintRange \div 2) - 1

NewVec == [kind |-> "vec", sz |-> 0, cap |-> 0]

vecCapacity(cap, min_cap) ==
  LET add == Max({Even(min_cap - cap + 1), Even((cap \div 2) + 2)})
  IN  IF cap >= min_cap THEN cap
      ELSE IF add > IntMax - cap THEN OutOfMemory ELSE cap + add

\* growTo and push ask for min_cap elements.
VecGrows ==
  /\ OfKind("vec")
  /\ box.cap # OutOfMemory
  /\ \E min_cap \in {box.sz + 1, box.sz + 2, 2 * box.sz + 1} :
       /\ min_cap <= IntMax
       /\ box' = [box EXCEPT !.sz = IF vecCapacity(box.cap, min_cap) = OutOfMemory THEN @
                                    ELSE min_cap,
                             !.cap = vecCapacity(@, min_cap)]
  /\ UNCHANGED promise

\* "all capacities are even, but INT_MAX is odd", so that push never asks for more
\* than an int can tell.
VecExact ==
  box.cap # OutOfMemory => box.sz <= box.cap /\ box.cap < IntMax /\ box.cap % 2 = 0

----------------------------------------------------------------------------
(* sort *)

\* A comparison that leaves some elements equal, as those of clauses do.
lt(x, y) == x \div 2 < y \div 2

Exchanged(a, i, j) == [a EXCEPT ![i] = a[j], ![j] = a[i]]

\* The first of the smallest elements from i on comes to i.
Selected(a, i) ==
  LET best_i == CHOOSE j \in i..Len(a) :
                  /\ \A k \in i..Len(a) : ~lt(a[k], a[j])
                  /\ \A k \in i..(j - 1) : lt(a[j], a[k])
  IN  Exchanged(a, i, best_i)

selectionSort(a) == FoldLeft(Selected, a, [i \in 1..(Len(a) - 1) |-> i])

\* What the loop leaves: the array, and where its second part begins.
RECURSIVE Partition(_, _, _, _)
Partition(a, pivot, from, to) ==
  LET i == Min({k \in from..Len(a) : ~lt(a[k], pivot)})
      j == Max({k \in 1..to : ~lt(pivot, a[k])})
  IN  IF i >= j THEN [array |-> a, second |-> i]
      ELSE Partition(Exchanged(a, i, j), pivot, i + 1, j - 1)

RECURSIVE Sort(_)
Sort(a) ==
  LET p    == Partition(a, a[(Len(a) \div 2) + 1], 1, Len(a))
      Both == Sort(SubSeq(p.array, 1, p.second - 1))
              \o Sort(SubSeq(p.array, p.second, Len(a)))
  IN  IF Len(a) <= SmallSize THEN selectionSort(a) ELSE Both

NewSort(a) == [kind |-> "sort", array |-> a]

SortArray == OfKind("sort") /\ calls = 0 /\ box' = [box EXCEPT !.array = Sort(@)] /\ UNCHANGED promise

SortExact ==
  calls > 0 =>
    /\ \A i, j \in DOMAIN box.array : i < j => ~lt(box.array[j], box.array[i])
    /\ \A x \in Range(promise) :
         Cardinality({i \in DOMAIN promise : promise[i] = x})
           = Cardinality({i \in DOMAIN box.array : box.array[i] = x})

----------------------------------------------------------------------------
(* Codes: literals, their values, and Luby's sequence *)

mkLit(v, sign) == v + v + (IF sign THEN 1 ELSE 0)
Xor(n, b)      == IF b THEN (IF n % 2 = 0 THEN n + 1 ELSE n - 1) ELSE n
signOf(p)      == p % 2 = 1
varOf(p)       == p \div 2

\* lbool: 0 is true, 1 is false, 2 and 3 are l_Undef.
Equal(x, y) == (y >= 2 /\ x >= 2) \/ (y < 2 /\ x = y)

\* Two bits of a 32-bit table, from its hexadecimal digits.
TwoBits(digits, sel) == (digits[8 - (sel \div 4)] \div (IF sel % 4 = 0 THEN 1 ELSE 4)) % 4

And(x, y) == TwoBits(<<15, 7, 15, 7, 5, 5, 15, 4>>, 2 * x + 8 * y)
Or(x, y)  == TwoBits(<<15, 12, 15, 12, 15, 4, 0, 0>>, 2 * x + 8 * y)

\* Solver::value of a literal, from the value of each variable.
value(assigns, p) == Xor(assigns[varOf(p)], signOf(p))

\* Kleene's logic: 1 for true, -1 for false.
Truth(x) == IF x >= 2 THEN 0 ELSE IF x = 0 THEN 1 ELSE -1

ValuesExact ==
  /\ \A x, y \in 0..3 :
       /\ Equal(x, y) <=> Truth(x) = Truth(y)
       /\ Truth(And(x, y)) = Min({Truth(x), Truth(y)})
       /\ Truth(Or(x, y)) = Max({Truth(x), Truth(y)})
  /\ \A v \in 0..2, sign \in BOOLEAN, x \in 0..2 :
       LET p       == mkLit(v, sign)
           assigns == [u \in 0..2 |-> x]
       IN  /\ varOf(p) = v /\ signOf(p) = sign
           /\ Xor(p, TRUE) = mkLit(v, ~sign)
           /\ Truth(value(assigns, p)) = IF sign THEN -Truth(x) ELSE Truth(x)

\* luby(2, x): the subsequence of size elements, the last of which is the seq-th
\* power, is the shortest that holds index x, counted from 0.
RECURSIVE Subsequence(_, _, _), Narrowed(_, _, _)
Subsequence(size, seq, x) ==
  IF size < x + 1 THEN Subsequence(2 * size + 1, seq + 1, x) ELSE <<size, seq>>
Narrowed(size, seq, x) ==
  IF size - 1 = x THEN 2 ^ seq
  ELSE Narrowed((size - 1) \div 2, seq - 1, x % ((size - 1) \div 2))

luby(x) == LET s == Subsequence(1, 0, x) IN Narrowed(s[1], s[2], x)

\* LocalSearch::super, counted from 1.
RECURSIVE LeastPower(_, _), super(_)
LeastPower(power, n) == IF power < n THEN LeastPower(2 * power, n) ELSE power
super(i) ==
  LET power == LeastPower(2, i + 1)
  IN  IF power = i + 1 THEN (power \div 2) ELSE super(i - (power \div 2) + 1)

NewCodes == [kind |-> "codes", x |-> 0]

NextTerm ==
  /\ OfKind("codes")
  /\ box.x < LubyTerms
  /\ box' = [box EXCEPT !.x = @ + 1]
  /\ UNCHANGED promise

\* The engine and the local search restart by the same sequence.
LubyExact == luby(box.x) = super(box.x + 1)

CodesExact == ValuesExact /\ LubyExact

----------------------------------------------------------------------------

BoxesInit ==
  /\ calls = 0
  /\ \/ box \in {NewQueue, NewBounded, NewVec, NewCodes} /\ promise = << >>
     \/ box = NewOccLists /\ promise = [i \in Lists |-> << >>]
     \/ box \in {NewRegion(StartCap, extra) : extra \in BOOLEAN} /\ promise = << >>
     \/ promise \in Arrays /\ box = NewSort(promise)

BoxesNext ==
  \/ QueueInsert \/ QueuePop
  \/ BoundedPush \/ fastclear
  \/ ListClause \/ ListRemove \/ ListLookup \/ ListsRelocated
  \/ AllocClause \/ FreeClause \/ ShrinkClause \/ CollectRegion
  \/ VecGrows
  \/ SortArray
  \/ NextTerm

\* A structure is what its users take it for, after any sequence of calls.
BoxExact ==
  CASE box.kind = "queue"  -> QueueExact
    [] box.kind = "bqueue" -> BoundedExact
    [] box.kind = "lists"  -> ListsExact
    [] box.kind = "region" -> RegionExact
    [] box.kind = "vec"    -> VecExact
    [] box.kind = "sort"   -> SortExact
    [] box.kind = "codes"  -> CodesExact
=============================================================================
