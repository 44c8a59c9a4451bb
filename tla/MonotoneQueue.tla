---------------------------- MODULE MonotoneQueue ----------------------------
(***************************************************************************)
(* The order in which the priority queue of the flood gives its elements   *)
(* back.  `front` holds the values at the key pulled last, in the order of *)
(* the vector that is popped at its back; `rest` is the bag of all other   *)
(* <<key, value>> pairs.  Values of the smallest key are sorted when they  *)
(* are pulled; what is pushed at that key later comes out first.           *)
(***************************************************************************)
EXTENDS Integers, Sequences, Bags, FiniteSetsExt, SequencesExt

EmptyQueue(last) == [last |-> last, front |-> <<>>, rest |-> EmptyBag]

IsEmpty(q) == q.front = <<>> /\ q.rest = EmptyBag

\* A bag of numbers in ascending order.
Ascending(b) ==
  LET copies == UNION {{v} \X (1 .. b[v]) : v \in DOMAIN b}
      upTo(v) == Cardinality({e \in copies : e[1] <= v})
  IN  [i \in 1 .. Cardinality(copies) |-> Min({v \in DOMAIN b : i <= upTo(v)})]

Push(q, key, value) ==
  IF key = q.last THEN [q EXCEPT !.front = Append(@, value)]
  ELSE [q EXCEPT !.rest = @ (+) SetToBag({<<key, value>>})]

\* Fault: what is pushed at the current key waits for the next pull.
PushAllBehind(q, Key, s, T) == [q EXCEPT !.rest = @ (+) SetToBag({<<Key[v], v>> : v \in T})]

\* The values of s that are in T, one after the other, with the keys that Key
\* gives them.
PushAll(q, Key, s, T) ==
  FoldLeft(LAMBDA p, v : IF v \in T THEN Push(p, Key[v], v) ELSE p, q, s)

\* The values of the smallest key, once the front is used up.
Pulled(q) ==
  IF q.front # <<>> THEN q
  ELSE LET key == Min({e[1] : e \in DOMAIN q.rest})
           lowest == {e \in DOMAIN q.rest : e[1] = key}
       IN  [last |-> key,
            front |-> Ascending([v \in {e[2] : e \in lowest} |-> q.rest[<<key, v>>]]),
            rest |-> Restrict(q.rest, DOMAIN q.rest \ lowest)]

TopKey(q) == Pulled(q).last
TopValue(q) == Last(Pulled(q).front)
Pop(q) == [Pulled(q) EXCEPT !.front = Front(@)]

\* Everything queued, as a set of <<key, value>> pairs.
Queued(q) == {<<q.last, q.front[i]>> : i \in DOMAIN q.front} \cup DOMAIN q.rest
=============================================================================
