------------------------------ MODULE Partition ------------------------------
(***************************************************************************)
(* What DisjointDenseIntSet means to its callers: every set id has a       *)
(* representative, r[id], and the representatives represent themselves.    *)
(* Ranks, parent chains and path compression are the business of module    *)
(* DisjointDenseIntSet, which implements these operators.                  *)
(***************************************************************************)
EXTENDS Naturals

\* The constructor: preallocated ids, each its own representative.
Singletons(ids) == [i \in ids |-> i]

\* checkSize: the ids up to and including n exist afterwards.
Grow(r, n) == [i \in DOMAIN r \cup 0 .. n |-> IF i \in DOMAIN r THEN r[i] ELSE i]

\* Fault: mergeAintoB without checkSize.
MergeIntoUnsized(r, a, b) == [i \in DOMAIN r |-> IF r[i] = a THEN b ELSE r[i]]

\* mergeAintoB for two representatives: b now speaks for a's set.
MergeInto(r, a, b) ==
  LET g == Grow(Grow(r, a), b)
  IN  [i \in DOMAIN g |-> IF g[i] = a THEN b ELSE g[i]]

\* Every id has a representative, which represents itself.
IsPartition(r) == \A i \in DOMAIN r : r[i] \in DOMAIN r /\ r[r[i]] = r[i]
=============================================================================
