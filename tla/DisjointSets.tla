----------------------------- MODULE DisjointSets -----------------------------
(***************************************************************************)
(* The promise of class DisjointDenseIntSet: a partition of the ids made   *)
(* so far, each part with one representative, whatever the calls before.   *)
(***************************************************************************)
EXTENDS Partition

CONSTANTS
  MaxId,                   \* bound: the ids the callers use are 0..MaxId
  Void, Thrown, Yes, No    \* no result, an exception, the two truth values

Ids == 0 .. MaxId

VARIABLES
  rep,  \* the representative of each id
  ret   \* what the last call returned

vars == <<rep, ret>>

Known == DOMAIN rep

Init == \E n \in Ids : rep = Singletons({i \in Ids : i < n}) /\ ret = Void

MakeSet(n) == rep' = Grow(rep, n) /\ ret' = Void

FindSet(n) ==
  /\ ret' = IF n \in Known THEN rep[n] ELSE Thrown
  /\ UNCHANGED rep

SameSet(a, b) ==
  /\ ret' = IF {a, b} \subseteq Known THEN IF rep[a] = rep[b] THEN Yes ELSE No ELSE Thrown
  /\ UNCHANGED rep

\* "We cannot predict the id of the resulting set ahead of time."
UnionSet(a, b) ==
  IF {a, b} \subseteq Known
    THEN /\ rep' \in {MergeInto(rep, rep[a], rep[b]), MergeInto(rep, rep[b], rep[a])}
         /\ ret' = Void
    ELSE ret' = Thrown /\ UNCHANGED rep

\* "Preserves parenthood": b represents the result.
MergeAintoB(a, b) == rep' = MergeInto(rep, a, b) /\ ret' = Void

Next ==
  \/ \E n \in Ids : MakeSet(n) \/ FindSet(n)
  \/ \E a, b \in Ids : SameSet(a, b) \/ UnionSet(a, b) \/ MergeAintoB(a, b)

Spec == Init /\ [][Next]_vars
=============================================================================
