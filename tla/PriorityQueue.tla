---------------------------- MODULE PriorityQueue ----------------------------
(***************************************************************************)
(* What the flood may expect of its priority queue: the calls of           *)
(* pair_radix_heap on one MonotoneQueue.                                   *)
(***************************************************************************)
EXTENDS MonotoneQueue, FloatKeys

CONSTANTS
  Values,   \* what is queued
  MaxSize,  \* bound: elements queued at once
  Void      \* no result

VARIABLES
  queue,  \* what is queued, in which order
  got     \* what the last call returned

vars == <<queue, got>>

Size == Len(queue.front) + BagCardinality(queue.rest)

Init == queue = EmptyQueue(0) /\ got = Void

Emplace(key, value) ==
  /\ queue.last <= Encode(key)
  /\ Size < MaxSize
  /\ queue' = Push(queue, Encode(key), value)
  /\ got' = Void

ReadMinKey ==
  /\ ~ IsEmpty(queue)
  /\ got' = Decode(TopKey(queue))
  /\ UNCHANGED queue

ReadTopKey ==
  /\ ~ IsEmpty(queue)
  /\ got' = Decode(TopKey(queue))
  /\ queue' = Pulled(queue)

ReadTopValue ==
  /\ ~ IsEmpty(queue)
  /\ got' = TopValue(queue)
  /\ queue' = Pulled(queue)

PopTop ==
  /\ ~ IsEmpty(queue)
  /\ queue' = Pop(queue)
  /\ got' = Void

PopTopValues ==
  /\ ~ IsEmpty(queue)
  /\ queue' = [Pulled(queue) EXCEPT !.front = <<>>]
  /\ got' = Void

Clear == queue' = EmptyQueue(0) /\ got' = Void

Next ==
  \/ \E key \in Keys, value \in Values : Emplace(key, value)
  \/ ReadMinKey \/ ReadTopKey \/ ReadTopValue \/ PopTop \/ PopTopValues \/ Clear

Spec == Init /\ [][Next]_vars
=============================================================================
