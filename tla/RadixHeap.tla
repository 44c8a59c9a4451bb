------------------------------ MODULE RadixHeap ------------------------------
(***************************************************************************)
(* The priority queue of the flood, pair_radix_heap.  An element lies in   *)
(* the bucket numbered by the highest bit in which its key differs from    *)
(* the key pulled last; when bucket 0 runs dry the first other bucket is   *)
(* spread over the ones below it.                                          *)
(***************************************************************************)
EXTENDS FloatKeys, Sequences, SequencesExt

CONSTANTS Values, MaxSize, Void

VARIABLES
  heap,  \* [size, last, buckets, mins, flags]
  got    \* what the last call returned

vars == <<heap, got>>

Buckets == 0 .. Width

EmptyHeap ==
  [size |-> 0, last |-> 0, buckets |-> [k \in Buckets |-> <<>>],
   mins |-> [k \in Buckets |-> MaxKey], flags |-> {}]

Init == heap = EmptyHeap /\ got = Void

\* Width - clz(x ^ last), or 0 if the two are equal.
FindBucket(x, last) ==
  IF x = last THEN 0
  ELSE CHOOSE k \in 1 .. Width : x \div 2 ^ k = last \div 2 ^ k /\ x \div 2 ^ (k - 1) # last \div 2 ^ (k - 1)

\* An element goes to its bucket; bucket 0 has no flag.
Put(h, x, value) ==
  LET k == FindBucket(x, h.last)
  IN  [h EXCEPT !.buckets[k] = Append(@, <<x, value>>),
                !.mins[k] = IF x < @ THEN x ELSE @,
                !.flags = IF k = 0 THEN @ ELSE @ \cup {k}]

SortedByValue(bucket) == SortSeq(bucket, LAMBDA a, b : a[2] < b[2])

FirstNonEmpty(h) == CHOOSE k \in h.flags : \A m \in h.flags : k <= m

\* Fault: the elements come out in the order of the bucket.
SpreadUnsorted(h) ==
  IF h.buckets[0] # <<>> THEN h
  ELSE LET i == FirstNonEmpty(h)
           low == [h EXCEPT !.mins[0] = MaxKey, !.last = h.mins[i]]
           spread == FoldLeft(LAMBDA g, e : Put(g, e[1], e[2]), low, h.buckets[i])
       IN  [spread EXCEPT !.buckets[i] = <<>>, !.flags = @ \ {i}, !.mins[i] = MaxKey]

\* pull.
Spread(h) ==
  IF h.buckets[0] # <<>> THEN h
  ELSE LET i == FirstNonEmpty(h)
           low == [h EXCEPT !.mins[0] = MaxKey, !.last = h.mins[i]]
           spread == FoldLeft(LAMBDA g, e : Put(g, e[1], e[2]), low, h.buckets[i])
       IN  [spread EXCEPT !.buckets[i] = <<>>, !.flags = @ \ {i}, !.mins[i] = MaxKey,
                          !.buckets[0] = SortedByValue(@)]

-----------------------------------------------------------------------------
\* The assertion is a duty of the caller.
Emplace(key, value) ==
  /\ heap.last <= Encode(key)
  /\ heap.size < MaxSize
  /\ heap' = Put([heap EXCEPT !.size = @ + 1], Encode(key), value)
  /\ got' = Void

ReadMinKey ==
  /\ heap.size > 0
  /\ got' = Decode(heap.mins[IF heap.buckets[0] = <<>> THEN FirstNonEmpty(heap) ELSE 0])
  /\ UNCHANGED heap

ReadTopKey ==
  /\ heap.size > 0
  /\ heap' = Spread(heap)
  /\ got' = Decode(heap'.last)

ReadTopValue ==
  /\ heap.size > 0
  /\ heap' = Spread(heap)
  /\ got' = Last(heap'.buckets[0])[2]

PopTop ==
  /\ heap.size > 0
  /\ heap' = [Spread(heap) EXCEPT !.buckets[0] = Front(@), !.size = @ - 1]
  /\ got' = Void

PopTopValues ==
  /\ heap.size > 0
  /\ LET h == Spread(heap)
     IN  heap' = [h EXCEPT !.size = @ - Len(h.buckets[0]), !.buckets[0] = <<>>]
  /\ got' = Void

Clear == heap' = EmptyHeap /\ got' = Void

Next ==
  \/ \E key \in Keys, value \in Values : Emplace(key, value)
  \/ ReadMinKey \/ ReadTopKey \/ ReadTopValue \/ PopTop \/ PopTopValues \/ Clear

Spec == Init /\ [][Next]_vars

-----------------------------------------------------------------------------
\* Each element lies in the bucket its key calls for, the minima and the
\* flags are those of the buckets, and size counts every element: the sum of
\* small updates spread over push, pull and pop.
HeapShape ==
  /\ \A k \in Buckets : \A e \in ToSet(heap.buckets[k]) :
       e[1] \in Keys /\ e[2] \in Values /\ FindBucket(e[1], heap.last) = k
  /\ heap.flags = {k \in 1 .. Width : heap.buckets[k] # <<>>}
  /\ \A k \in Buckets : heap.buckets[k] # <<>> =>
       heap.mins[k] = CHOOSE x \in Keys : /\ \E e \in ToSet(heap.buckets[k]) : e[1] = x
                                          /\ \A e \in ToSet(heap.buckets[k]) : x <= e[1]
  /\ heap.size = FoldLeft(LAMBDA n, k : n + Len(heap.buckets[k - 1]), 0, [k \in 1 .. Width + 1 |-> k])

\* The unsigned keys compare the way the elevations do, negative ones
\* included: whatever the assertion in push lets through is no lower than the
\* key pulled last, whatever is higher it lets through, and top_key gives
\* back the very pattern pushed.
EncodingKeepsOrder ==
  \A x \in Keys :
    LET last == ValueOf(Decode(heap.last))
    IN  /\ heap.last <= Encode(x) => last <= ValueOf(x)
        /\ last < ValueOf(x) => heap.last <= Encode(x)
        /\ Decode(Encode(x)) = x

\* The assertion in push guards what it should, and nothing is misfiled.
HeapIsSound == HeapShape /\ EncodingKeepsOrder

\* Bags of the elements outside bucket 0, the way PriorityQueue sees them.
Count(e) == FoldLeft(LAMBDA n, k : n + Cardinality({i \in DOMAIN heap.buckets[k] : heap.buckets[k][i] = e}),
                     0, [k \in 1 .. Width |-> k])
Rest == [e \in UNION {ToSet(heap.buckets[k]) : k \in 1 .. Width} |-> Count(e)]

\* Seen from outside, the buckets are a MonotoneQueue: the elements come out
\* by ascending key, equal keys by descending value, but what was pushed at
\* the key being popped first, the last one first.
Abstract == INSTANCE PriorityQueue WITH
  queue <- [last |-> heap.last, front |-> [i \in DOMAIN heap.buckets[0] |-> heap.buckets[0][i][2]],
            rest |-> Rest]
QueueOrder == Abstract!Spec
=============================================================================
