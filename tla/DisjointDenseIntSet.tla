-------------------------- MODULE DisjointDenseIntSet --------------------------
(***************************************************************************)
(* The union-find of the hierarchy: two vectors, `rank` and `parent`, that *)
(* grow on demand.  findSet compresses the chain it follows, unionSet      *)
(* joins by rank, and mergeAintoB, which the hierarchy needs because it    *)
(* chooses the representative itself, pays with the depth of the chains.   *)
(***************************************************************************)
EXTENDS Integers

CONSTANTS
  MaxId,                   \* bound: the ids the callers use are 0..MaxId
  Void, Thrown, Yes, No    \* no result, an exception, the two truth values

ASSUME MaxIdAssumption == MaxId \in Nat

Ids == 0 .. MaxId

VARIABLES
  rank,    \* the rank of each id
  parent,  \* the parent of each id
  ret      \* what the last call returned

vars == <<rank, parent, ret>>

Known == DOMAIN parent

\* The ultimate parent of each id, and the chain that leads there.
Roots(p) == LET root[i \in DOMAIN p] == IF p[i] = i THEN i ELSE root[p[i]] IN root
Chains(p) == LET chain[i \in DOMAIN p] == IF p[i] = i THEN {i} ELSE {i} \cup chain[p[i]] IN chain

\* findSet as it leaves the parents: the whole chain points at its end.
Compressed(p, n) ==
  LET end == Roots(p)[n]
  IN  [i \in DOMAIN p |-> IF i \in Chains(p)[n] THEN end ELSE p[i]]

\* The parents after findSet(a) and findSet(b), in this order; a call on an
\* id that does not exist throws before it changes anything.
Found(p, a, b) ==
  IF a \notin DOMAIN p THEN p
  ELSE IF b \notin DOMAIN p THEN Compressed(p, a)
  ELSE Compressed(Compressed(p, a), b)

Init == \E n \in Ids :
  /\ rank = [i \in {j \in Ids : j < n} |-> 0]
  /\ parent = [i \in {j \in Ids : j < n} |-> i]
  /\ ret = Void

\* checkSize.
Resize(n) ==
  /\ rank' = [i \in Known \cup 0 .. n |-> IF i \in Known THEN rank[i] ELSE 0]
  /\ parent' = [i \in Known \cup 0 .. n |-> IF i \in Known THEN parent[i] ELSE i]

MakeSet(n) == Resize(n) /\ ret' = Void

FindSet(n) ==
  /\ parent' = Found(parent, n, n)
  /\ ret' = IF n \in Known THEN Roots(parent)[n] ELSE Thrown
  /\ UNCHANGED rank

SameSet(a, b) ==
  /\ parent' = Found(parent, a, b)
  /\ ret' = IF {a, b} \subseteq Known
              THEN IF Roots(parent)[a] = Roots(parent)[b] THEN Yes ELSE No
              ELSE Thrown
  /\ UNCHANGED rank

\* Fault: the ids are joined rather than their roots.
UnionOfIds(a, b) ==
  /\ {a, b} \subseteq Known
  /\ parent' = IF Roots(parent)[a] = Roots(parent)[b] THEN parent
               ELSE [parent EXCEPT ![b] = Roots(parent)[a]]
  /\ UNCHANGED rank
  /\ ret' = Void

UnionSet(a, b) ==
  LET p == Found(parent, a, b)
      roota == Roots(parent)[a]
      rootb == Roots(parent)[b]
  IN  IF {a, b} \subseteq Known
        THEN /\ parent' = IF roota = rootb THEN p
                          ELSE IF rank[roota] < rank[rootb] THEN [p EXCEPT ![roota] = rootb]
                          ELSE [p EXCEPT ![rootb] = roota]
             /\ rank' = IF roota # rootb /\ rank[roota] = rank[rootb]
                          THEN [rank EXCEPT ![roota] = @ + 1] ELSE rank
             /\ ret' = Void
        ELSE /\ parent' = p
             /\ ret' = Thrown
             /\ UNCHANGED rank

\* The callers pass two different representatives, or ids that are new.
IsRoot(i) == i \in Known => parent[i] = i
RankOf(i) == IF i \in Known THEN rank[i] ELSE 0

\* Fault: the rank of b does not follow.
MergeWithoutRank(a, b) ==
  LET all == Known \cup 0 .. a \cup 0 .. b
  IN  /\ a # b /\ IsRoot(a) /\ IsRoot(b)
      /\ parent' = [i \in all |-> IF i = a THEN b ELSE IF i \in Known THEN parent[i] ELSE i]
      /\ rank' = [i \in all |-> RankOf(i)]
      /\ ret' = Void

MergeAintoB(a, b) ==
  LET all == Known \cup 0 .. a \cup 0 .. b
      risen == IF RankOf(a) >= RankOf(b) THEN RankOf(a) + 1 ELSE RankOf(b)
  IN  /\ a # b /\ IsRoot(a) /\ IsRoot(b)
      /\ parent' = [i \in all |-> IF i = a THEN b ELSE IF i \in Known THEN parent[i] ELSE i]
      /\ rank' = [i \in all |-> IF i = b THEN risen ELSE RankOf(i)]
      /\ ret' = Void

Next ==
  \/ \E n \in Ids : MakeSet(n) \/ FindSet(n)
  \/ \E a, b \in Ids : SameSet(a, b) \/ UnionSet(a, b) \/ MergeAintoB(a, b)

Spec == Init /\ [][Next]_vars

-----------------------------------------------------------------------------
\* The two vectors have the same length and every parent exists.  Ranks rise
\* along every chain, whatever mixture of calls made it: findSet ends, because
\* no id comes back to itself.
TypeOK ==
  /\ Known \subseteq Ids
  /\ \A i \in Known : 0 .. i \subseteq Known
  /\ rank \in [Known -> Nat]
  /\ parent \in [Known -> Known]
  /\ \A i \in Known : parent[i] # i => rank[i] < rank[parent[i]]
  /\ ret \in Ids \cup {Void, Thrown, Yes, No}

\* Chains, ranks and path compression never show: seen through the
\* representatives, the class keeps the promise of DisjointSets.
Abstract == INSTANCE DisjointSets WITH rep <- Roots(parent)
KeepsPartition == Abstract!Spec
=============================================================================
