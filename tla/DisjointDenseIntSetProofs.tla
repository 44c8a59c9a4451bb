---------------------- MODULE DisjointDenseIntSetProofs ----------------------
(***************************************************************************)
(* The union-find implements a partition: chains of parents end, because   *)
(* ranks rise along them, and the representatives that they lead to change *)
(* only as DisjointSets allows.                                            *)
(***************************************************************************)
EXTENDS DisjointDenseIntSet, DataLemmas

\* Parents over a set of ids, and ranks that rise along them.
Rising(D, p, r) ==
  /\ D \subseteq Ids /\ p \in [D -> D] /\ r \in [D -> Nat]
  /\ \A i \in D : p[i] # i => r[i] < r[p[i]]

\* Ranks are bounded.
LEMMA RanksEnd ==
  ASSUME NEW D, NEW p, NEW r, Rising(D, p, r)
  PROVE  \E m \in Nat : \A i \in D : r[i] <= m
<1> DEFINE T == {k \in 0 .. MaxId : \E m \in Nat : \A i \in D : i <= k => r[i] <= m}
<1>1. D \subseteq 0 .. MaxId /\ r \in [D -> Nat] /\ MaxId \in Nat
  BY MaxIdAssumption DEF Rising, Ids
<1>2. 0 \in T
  <2> DEFINE m == IF 0 \in D THEN r[0] ELSE 0
  <2>1. m \in Nat /\ \A i \in D : i <= 0 => r[i] <= m
    BY <1>1
  <2> QED BY <1>1, <2>1
<1>3. ASSUME NEW k \in 0 .. MaxId - 1, k \in T PROVE k + 1 \in T
  <2>1. PICK m \in Nat : \A i \in D : i <= k => r[i] <= m
    BY <1>3
  <2> DEFINE h == IF k + 1 \in D /\ r[k + 1] > m THEN r[k + 1] ELSE m
  <2>2. h \in Nat /\ h >= m /\ (k + 1 \in D => r[k + 1] <= h)
    BY <1>1
  <2>3. ASSUME NEW i \in D, i <= k + 1 PROVE r[i] <= h
    <3>1. i \in Nat /\ r[i] \in Nat
      BY <1>1
    <3>2. CASE i = k + 1
      BY <2>2, <3>2
    <3>3. CASE i <= k
      BY <2>1, <2>2, <3>1, <3>3
    <3> HIDE DEF h
    <3> QED BY <2>3, <3>1, <3>2, <3>3
  <2> HIDE DEF h
  <2>4. k + 1 \in 0 .. MaxId
    BY <1>1
  <2> QED BY <2>2, <2>3, <2>4
<1>4. MaxId \in T
  <2> HIDE DEF T
  <2>1. 0 .. MaxId \subseteq T
    BY <1>1, <1>2, <1>3, Upwards
  <2> QED BY <1>1, <2>1
<1> QED BY <1>1, <1>4

\* What holds at the roots, and of an id if it does of its parent, holds of all.
LEMMA ChainInduction ==
  ASSUME NEW D, NEW p, NEW r, Rising(D, p, r), NEW T,
         \A i \in D : p[i] = i => i \in T,
         \A i \in D : p[i] \in T => i \in T
  PROVE  D \subseteq T
<1> SUFFICES ASSUME ~ (D \subseteq T) PROVE FALSE
  OBVIOUS
<1> DEFINE H == {r[i] : i \in D \ T}
<1>1. PICK m \in Nat : \A i \in D : r[i] <= m
  BY RanksEnd
<1>2. r \in [D -> Nat] /\ p \in [D -> D]
  BY DEF Rising
<1>3. PICK h \in H : \A g \in H : g <= h
  <2>1. H \subseteq 0 .. m /\ H # {}
    BY <1>1, <1>2
  <2> HIDE DEF H
  <2> QED BY <2>1, Greatest
<1>4. PICK i \in D \ T : r[i] = h
  BY <1>3
<1>5. p[i] \in D \ T /\ r[i] < r[p[i]] /\ r[p[i]] \in Nat /\ r[i] \in Nat
  BY <1>2, <1>4 DEF Rising
<1>6. r[p[i]] <= h
  BY <1>3, <1>5
<1> QED BY <1>4, <1>5, <1>6

\* The ids that the parents lead to from i.
Reached(D, p, i) ==
  {x \in D : \A Q \in SUBSET D : i \in Q /\ (\A y \in Q : p[y] \in Q) => x \in Q}

\* What is reached from i is i and what is reached from its parent.
LEMMA ReachedSteps ==
  ASSUME NEW D, NEW p \in [D -> D], NEW i \in D
  PROVE  Reached(D, p, i) = IF p[i] = i THEN {i} ELSE {i} \cup Reached(D, p, p[i])
<1> DEFINE A == Reached(D, p, i)
           B == Reached(D, p, p[i])
<1>1. i \in A /\ p[i] \in B
  BY DEF Reached
<1>2. \A y \in A : p[y] \in A
  <2> SUFFICES ASSUME NEW y \in A, NEW Q \in SUBSET D, i \in Q, \A z \in Q : p[z] \in Q
               PROVE  p[y] \in Q /\ p[y] \in D
    BY <1>1 DEF Reached
  <2>1. y \in Q
    BY DEF Reached
  <2> QED BY <2>1
<1>3. \A y \in B : p[y] \in B
  <2> SUFFICES ASSUME NEW y \in B, NEW Q \in SUBSET D, p[i] \in Q, \A z \in Q : p[z] \in Q
               PROVE  p[y] \in Q /\ p[y] \in D
    BY <1>1 DEF Reached
  <2>1. y \in Q
    BY DEF Reached
  <2> QED BY <2>1
<1>4. A \subseteq {i} \cup B
  <2>1. {i} \cup B \in SUBSET D /\ \A y \in {i} \cup B : p[y] \in {i} \cup B
    BY <1>1, <1>3 DEF Reached
  <2>2. \A Q \in SUBSET D : i \in Q /\ (\A y \in Q : p[y] \in Q) => A \subseteq Q
    BY DEF Reached
  <2> HIDE DEF A, B
  <2> QED BY <2>1, <2>2
<1>5. B \subseteq A
  <2>1. A \in SUBSET D /\ p[i] \in A
    BY <1>1, <1>2 DEF Reached
  <2>2. \A Q \in SUBSET D : p[i] \in Q /\ (\A y \in Q : p[y] \in Q) => B \subseteq Q
    BY DEF Reached
  <2> HIDE DEF A, B
  <2> QED BY <1>2, <2>1, <2>2
<1>6. ASSUME p[i] = i PROVE A \subseteq {i}
  <2>1. {i} \in SUBSET D /\ \A y \in {i} : p[y] \in {i}
    BY <1>6
  <2> QED BY <2>1 DEF Reached
<1> HIDE DEF A, B
<1> QED BY <1>1, <1>4, <1>5, <1>6 DEF A, B

\* The equation that defines Roots, and that it has one solution.
IsRoots(R, D, p) == R = [i \in D |-> IF p[i] = i THEN i ELSE R[p[i]]]

LEMMA RootsAgree ==
  ASSUME NEW D, NEW p, NEW r, Rising(D, p, r), NEW R, IsRoots(R, D, p), NEW S, IsRoots(S, D, p)
  PROVE  R = S
<1> DEFINE T == {i \in D : R[i] = S[i]}
<1>1. p \in [D -> D]
  BY DEF Rising
<1>2. \A i \in D : /\ R[i] = IF p[i] = i THEN i ELSE R[p[i]]
                   /\ S[i] = IF p[i] = i THEN i ELSE S[p[i]]
  BY DEF IsRoots
<1>3. (\A i \in D : p[i] = i => i \in T) /\ \A i \in D : p[i] \in T => i \in T
  BY <1>1, <1>2
<1>4. D \subseteq T
  <2> HIDE DEF T
  <2> QED BY <1>3, ChainInduction
<1>5. R = [i \in D |-> R[i]] /\ S = [i \in D |-> S[i]]
  BY DEF IsRoots
<1> QED BY <1>4, <1>5

\* Following parents ends at one root: the recursive function Roots exists.
LEMMA RootsDefined ==
  ASSUME NEW D, NEW p, NEW r, Rising(D, p, r)
  PROVE  IsRoots(Roots(p), D, p)
<1>1. p \in [D -> D] /\ DOMAIN p = D
  BY DEF Rising
<1> DEFINE Ends(i) == {x \in Reached(D, p, i) : p[x] = x}
           T == {i \in D : \E x \in D : Ends(i) = {x}}
<1>2. ASSUME NEW i \in D, p[i] = i PROVE Ends(i) = {i}
  BY <1>1, <1>2, ReachedSteps
<1>3. ASSUME NEW i \in D, p[i] # i PROVE Ends(i) = Ends(p[i])
  BY <1>1, <1>3, ReachedSteps
<1>4. D \subseteq T
  <2>1. (\A i \in D : p[i] = i => i \in T) /\ \A i \in D : p[i] \in T => i \in T
    <3> HIDE DEF Ends
    <3> QED BY <1>1, <1>2, <1>3
  <2> HIDE DEF T
  <2> QED BY <2>1, ChainInduction
<1> DEFINE R == [i \in D |-> CHOOSE x \in D : Ends(i) = {x}]
<1>5. IsRoots(R, D, p)
  <2>1. ASSUME NEW i \in D PROVE R[i] = IF p[i] = i THEN i ELSE R[p[i]]
    <3>1. CASE p[i] = i
      <4>1. Ends(i) = {i}
        BY <1>2, <3>1
      <4> HIDE DEF Ends
      <4> QED BY <3>1, <4>1
    <3>2. CASE p[i] # i
      <4>1. Ends(i) = Ends(p[i]) /\ p[i] \in D
        BY <1>1, <1>3, <3>2
      <4> HIDE DEF Ends
      <4> QED BY <3>2, <4>1
    <3> QED BY <3>1, <3>2
  <2>2. R = [i \in D |-> R[i]]
    OBVIOUS
  <2> HIDE DEF R
  <2> QED BY <2>1, <2>2 DEF IsRoots
<1>6. \E f : f = [i \in D |-> IF p[i] = i THEN i ELSE f[p[i]]]
  <2> HIDE DEF R
  <2> QED BY <1>5 DEF IsRoots
<1> QED BY <1>1, <1>6 DEF IsRoots, Roots

\* The equation that defines Chains.
IsChains(C, D, p) == C = [i \in D |-> IF p[i] = i THEN {i} ELSE {i} \cup C[p[i]]]

\* The recursive function Chains exists.
LEMMA ChainsDefined ==
  ASSUME NEW D, NEW p, NEW r, Rising(D, p, r)
  PROVE  IsChains(Chains(p), D, p)
<1>1. p \in [D -> D] /\ DOMAIN p = D
  BY DEF Rising
<1> DEFINE C == [i \in D |-> Reached(D, p, i)]
<1>2. IsChains(C, D, p)
  <2>1. \A i \in D : C[i] = IF p[i] = i THEN {i} ELSE {i} \cup C[p[i]]
    BY <1>1, ReachedSteps
  <2>2. C = [i \in D |-> C[i]]
    OBVIOUS
  <2> HIDE DEF C
  <2> QED BY <2>1, <2>2 DEF IsChains
<1>3. \E f : f = [i \in D |-> IF p[i] = i THEN {i} ELSE {i} \cup f[p[i]]]
  <2> HIDE DEF C
  <2> QED BY <1>2 DEF IsChains
<1> QED BY <1>1, <1>3 DEF IsChains, Chains

-----------------------------------------------------------------------------
\* Roots are where the chains end, of the highest rank on them, and the same for
\* all ids of a chain.
LEMMA RootsHold ==
  ASSUME NEW D, NEW p, NEW r, Rising(D, p, r), NEW R, R = Roots(p)
  PROVE  /\ R \in [D -> D]
         /\ \A i \in D : /\ p[R[i]] = R[i] /\ R[R[i]] = R[i]
                         /\ (p[i] = i <=> R[i] = i)
                         /\ p[i] # i => R[i] = R[p[i]]
                         /\ R[i] # i => r[i] < r[R[i]]
<1>1. p \in [D -> D] /\ r \in [D -> Nat] /\ \A i \in D : p[i] # i => r[i] < r[p[i]]
  BY DEF Rising
<1>2. R = [i \in D |-> IF p[i] = i THEN i ELSE R[p[i]]]
  BY RootsDefined DEF IsRoots
<1>3. \A i \in D : R[i] = IF p[i] = i THEN i ELSE R[p[i]]
  BY <1>2
<1> DEFINE T == {i \in D : /\ R[i] \in D /\ p[R[i]] = R[i]
                           /\ p[i] # i => r[i] < r[R[i]]}
<1>4. \A i \in D : p[i] = i => i \in T
  BY <1>1, <1>3
<1>5. ASSUME NEW i \in D, p[i] \in T PROVE i \in T
  <2>1. CASE p[i] = i
    BY <1>4, <2>1
  <2>2. CASE p[i] # i
    <3>1. R[i] = R[p[i]] /\ p[i] \in D /\ R[p[i]] \in D /\ p[R[p[i]]] = R[p[i]]
      BY <1>3, <1>5, <2>2
    <3>2. r[i] \in Nat /\ r[p[i]] \in Nat /\ r[R[i]] \in Nat /\ r[i] < r[p[i]]
      BY <1>1, <2>2, <3>1
    <3>3. r[i] < r[R[i]]
      <4>1. CASE p[p[i]] = p[i]
        <5>1. R[i] = p[i]
          BY <1>3, <3>1, <4>1
        <5> QED BY <3>2, <5>1
      <4>2. CASE p[p[i]] # p[i]
        <5>1. r[p[i]] < r[R[p[i]]]
          BY <1>5, <4>2
        <5> QED BY <3>1, <3>2, <5>1
      <4> QED BY <4>1, <4>2
    <3> QED BY <3>1, <3>3
  <2> QED BY <2>1, <2>2
<1>6. D \subseteq T
  <2> HIDE DEF T
  <2> QED BY <1>4, <1>5, ChainInduction
<1>7. \A i \in D : R[i] \in D /\ p[R[i]] = R[i] /\ (p[i] # i => r[i] < r[R[i]])
  BY <1>6
<1>8. R \in [D -> D]
  BY <1>2, <1>7
<1>9. ASSUME NEW i \in D PROVE R[R[i]] = R[i] /\ (p[i] = i <=> R[i] = i)
  BY <1>3, <1>7
<1> QED BY <1>3, <1>7, <1>8, <1>9

\* A chain starts at its id, and all ids on it have the same root.
LEMMA ChainsHold ==
  ASSUME NEW D, NEW p, NEW r, Rising(D, p, r), NEW i \in D
  PROVE  /\ i \in Chains(p)[i] /\ Chains(p)[i] \subseteq D
         /\ \A x \in Chains(p)[i] : Roots(p)[x] = Roots(p)[i]
<1>1. PICK R, C : R = Roots(p) /\ C = Chains(p)
  OBVIOUS
<1>2. \A j \in D : C[j] = IF p[j] = j THEN {j} ELSE {j} \cup C[p[j]]
  <2>1. IsChains(C, D, p)
    BY <1>1, ChainsDefined
  <2> QED BY <2>1, Zenon DEF IsChains
<1>3. \A j \in D : p[j] # j => R[j] = R[p[j]]
  BY <1>1, RootsHold
<1>4. p \in [D -> D]
  BY DEF Rising
<1> DEFINE T == {j \in D : C[j] \subseteq D /\ \A x \in C[j] : R[x] = R[j]}
<1>5. (\A j \in D : p[j] = j => j \in T) /\ \A j \in D : p[j] \in T => j \in T
  <2>1. ASSUME NEW j \in D, p[j] = j PROVE j \in T
    <3>1. C[j] = {j}
      BY <1>2, <2>1
    <3> QED BY <3>1
  <2>2. ASSUME NEW j \in D, p[j] \in T PROVE j \in T
    BY <1>2, <1>3, <2>2
  <2> QED BY <2>1, <2>2
<1>6. D \subseteq T
  <2> HIDE DEF T
  <2> QED BY <1>5, ChainInduction
<1>7. i \in C[i]
  BY <1>2
<1> QED BY <1>1, <1>6, <1>7

-----------------------------------------------------------------------------
\* Path compression keeps the ranks rising, and shows in no root.
LEMMA CompressedHolds ==
  ASSUME NEW D, NEW p, NEW r, Rising(D, p, r), NEW n \in D
  PROVE  Rising(D, Compressed(p, n), r) /\ Roots(Compressed(p, n)) = Roots(p)
<1>1. PICK R, S, q : R = Roots(p) /\ S = Chains(p)[n] /\ q = Compressed(p, n)
  OBVIOUS
<1>2. D \subseteq Ids /\ p \in [D -> D] /\ r \in [D -> Nat] /\ DOMAIN p = D
      /\ \A i \in D : p[i] # i => r[i] < r[p[i]]
  BY DEF Rising
<1>3. q = [i \in D |-> IF i \in S THEN R[n] ELSE p[i]]
  BY <1>1, <1>2 DEF Compressed
<1>4. /\ R \in [D -> D]
      /\ \A i \in D : /\ R[R[i]] = R[i]
                      /\ (p[i] = i <=> R[i] = i)
                      /\ p[i] # i => R[i] = R[p[i]]
                      /\ R[i] # i => r[i] < r[R[i]]
  BY <1>1, RootsHold
<1>5. S \subseteq D /\ \A x \in S : R[x] = R[n]
  BY <1>1, ChainsHold
<1>6. \A i \in D : /\ i \in S => q[i] = R[i]
                   /\ i \notin S => q[i] = p[i]
  BY <1>3, <1>5
<1>7. Rising(D, q, r)
  <2>1. q \in [D -> D]
    BY <1>2, <1>3, <1>4
  <2>2. \A i \in D : q[i] # i => r[i] < r[q[i]]
    BY <1>2, <1>4, <1>6
  <2> QED BY <1>2, <2>1, <2>2 DEF Rising
<1>8. IsRoots(R, D, q)
  <2>1. \A i \in D : R[i] = IF q[i] = i THEN i ELSE R[q[i]]
    BY <1>4, <1>6
  <2>2. R = [i \in D |-> R[i]]
    BY <1>4
  <2> QED BY <2>1, <2>2 DEF IsRoots
<1>9. IsRoots(Roots(q), D, q)
  BY <1>7, RootsDefined
<1>10. R = Roots(q)
  BY <1>7, <1>8, <1>9, RootsAgree
<1> QED BY <1>1, <1>7, <1>10

\* Two calls of findSet, the second after the first did not throw, show in no root.
LEMMA FoundHolds ==
  ASSUME NEW D, NEW p, NEW r, Rising(D, p, r), NEW a, NEW b
  PROVE  Rising(D, Found(p, a, b), r) /\ Roots(Found(p, a, b)) = Roots(p)
<1>1. DOMAIN p = D
  BY DEF Rising
<1>2. CASE a \in D /\ b \in D
  <2>1. PICK q : q = Compressed(p, a)
    OBVIOUS
  <2>2. Rising(D, q, r) /\ Roots(q) = Roots(p)
    BY <1>2, <2>1, CompressedHolds
  <2>3. Rising(D, Compressed(q, b), r) /\ Roots(Compressed(q, b)) = Roots(q)
    BY <1>2, <2>2, CompressedHolds
  <2>4. Found(p, a, b) = Compressed(q, b)
    BY <1>1, <1>2, <2>1 DEF Found
  <2> QED BY <2>2, <2>3, <2>4
<1>3. CASE a \in D /\ b \notin D
  <2>1. Found(p, a, b) = Compressed(p, a)
    BY <1>1, <1>3 DEF Found
  <2> QED BY <1>3, <2>1, CompressedHolds
<1>4. CASE a \notin D
  BY <1>1, <1>4 DEF Found
<1> QED BY <1>2, <1>3, <1>4

\* New ids are roots of rank 0.
LEMMA GrownHolds ==
  ASSUME NEW D, NEW p, NEW r, Rising(D, p, r), NEW E, D \subseteq E, E \subseteq Ids
  PROVE  LET q == [i \in E |-> IF i \in D THEN p[i] ELSE i]
             s == [i \in E |-> IF i \in D THEN r[i] ELSE 0]
         IN  Rising(E, q, s) /\ Roots(q) = [i \in E |-> IF i \in D THEN Roots(p)[i] ELSE i]
<1> DEFINE q == [i \in E |-> IF i \in D THEN p[i] ELSE i]
           s == [i \in E |-> IF i \in D THEN r[i] ELSE 0]
<1>1. PICK R : R = Roots(p)
  OBVIOUS
<1>2. p \in [D -> D] /\ r \in [D -> Nat] /\ \A i \in D : p[i] # i => r[i] < r[p[i]]
  BY DEF Rising
<1>3. R \in [D -> D] /\ \A i \in D : (p[i] = i => R[i] = i) /\ (p[i] # i => R[i] = R[p[i]])
  BY <1>1, RootsHold
<1> DEFINE S == [i \in E |-> IF i \in D THEN R[i] ELSE i]
<1>4. Rising(E, q, s)
  BY <1>2 DEF Rising
<1>5. IsRoots(S, E, q)
  <2>1. \A i \in E : S[i] = IF q[i] = i THEN i ELSE S[q[i]]
    BY <1>2, <1>3
  <2>2. S = [i \in E |-> S[i]]
    OBVIOUS
  <2> HIDE DEF S
  <2> QED BY <2>1, <2>2 DEF IsRoots
<1>6. S = Roots(q)
  <2> HIDE DEF S, q, s
  <2>1. IsRoots(Roots(q), E, q)
    BY <1>4, RootsDefined
  <2> QED BY <1>4, <1>5, <2>1, RootsAgree
<1> QED BY <1>1, <1>4, <1>6

\* A function with one value for another.
Replaces(F, D, R, a, b) == F = [i \in D |-> IF R[i] = a THEN b ELSE R[i]]

\* A root put under another of higher rank gives all it stood for to that one.
LEMMA LinkedHolds ==
  ASSUME NEW D, NEW p, NEW r, Rising(D, p, r), NEW a \in D, NEW b \in D, a # b,
         p[a] = a, p[b] = b,
         NEW s \in [D -> Nat], \A i \in D \ {b} : s[i] = r[i], s[b] >= r[b], s[a] < s[b],
         NEW q, q = [p EXCEPT ![a] = b]
  PROVE  Rising(D, q, s) /\ Replaces(Roots(q), D, Roots(p), a, b)
<1>1. PICK R : R = Roots(p)
  OBVIOUS
<1>2. D \subseteq Ids /\ p \in [D -> D] /\ r \in [D -> Nat] /\ \A i \in D : p[i] # i => r[i] < r[p[i]]
  BY DEF Rising
<1>3. R \in [D -> D] /\ \A i \in D : (p[i] = i => R[i] = i) /\ (p[i] # i => R[i] = R[p[i]])
  BY <1>1, RootsHold
<1>4. q \in [D -> D] /\ \A i \in D : q[i] = IF i = a THEN b ELSE p[i]
  BY <1>2
<1>5. Rising(D, q, s)
  <2> SUFFICES ASSUME NEW i \in D, q[i] # i PROVE s[i] < s[q[i]]
    BY <1>2, <1>4 DEF Rising
  <2>1. CASE i = a
    BY <1>4, <2>1
  <2>2. CASE i # a
    <3>1. q[i] = p[i] /\ i # b /\ s[i] = r[i] /\ r[i] < r[p[i]] /\ p[i] \in D
      BY <1>2, <1>4, <2>2
    <3>2. r[p[i]] <= s[p[i]] /\ r[i] \in Nat /\ r[p[i]] \in Nat /\ s[p[i]] \in Nat
      BY <1>2, <3>1
    <3> QED BY <3>1, <3>2
  <2> QED BY <2>1, <2>2
<1> DEFINE S == [i \in D |-> IF R[i] = a THEN b ELSE R[i]]
<1>6. IsRoots(S, D, q)
  <2>1. \A i \in D : S[i] = IF q[i] = i THEN i ELSE S[q[i]]
    BY <1>2, <1>3, <1>4
  <2>2. S = [i \in D |-> S[i]]
    OBVIOUS
  <2> HIDE DEF S
  <2> QED BY <2>1, <2>2 DEF IsRoots
<1>7. S = Roots(q)
  <2> HIDE DEF S
  <2>1. IsRoots(Roots(q), D, q)
    BY <1>5, RootsDefined
  <2> QED BY <1>5, <1>6, <2>1, RootsAgree
<1> QED BY <1>1, <1>5, <1>7 DEF Replaces

-----------------------------------------------------------------------------
\* What every operation assumes of the state, and what it makes of it: the vectors
\* keep their type, the ranks rise, and the roots are those that DisjointSets asks
\* for.
LEMMA TypeMeansRising ==
  ASSUME TypeOK
  PROVE  /\ Rising(Known, parent, rank)
         /\ \A i \in Known : i \in Nat /\ i \in Ids
BY DEF TypeOK, Rising, Ids

\* Rising ranks over ids without a gap are the type invariant.
LEMMA RisingMeansType ==
  ASSUME NEW D, Rising(D, parent', rank'), \A i \in D : 0 .. i \subseteq D,
         ret' \in Ids \cup {Void, Thrown, Yes, No}
  PROVE  TypeOK' /\ Known' = D
BY DEF TypeOK, Rising, Known

\* The calls that look for roots.
LEMMA FindSetHolds ==
  ASSUME TypeOK, NEW n \in Ids, FindSet(n)
  PROVE  TypeOK' /\ Abstract!FindSet(n)
<1>1. Rising(Known, parent, rank)
  BY TypeMeansRising
<1>2. Rising(Known, parent', rank') /\ Roots(parent') = Roots(parent)
  BY <1>1, FoundHolds DEF FindSet
<1>3. Roots(parent) \in [Known -> Known]
  BY <1>1, RootsHold
<1>4. \A i \in Known : 0 .. i \subseteq Known
  BY DEF TypeOK
<1>5. Known \subseteq Ids
  BY DEF TypeOK
<1>6. ret' \in Ids \cup {Void, Thrown, Yes, No}
  BY <1>3, <1>5 DEF FindSet
<1>7. Abstract!Known = Known
  BY <1>3 DEF Abstract!Known
<1> QED BY <1>2, <1>4, <1>6, <1>7, RisingMeansType DEF FindSet, Abstract!FindSet

\* sameSet: neither throw nor compression shows in the roots.
LEMMA SameSetHolds ==
  ASSUME TypeOK, NEW a \in Ids, NEW b \in Ids, SameSet(a, b)
  PROVE  TypeOK' /\ Abstract!SameSet(a, b)
<1>1. Rising(Known, parent, rank)
  BY TypeMeansRising
<1>2. Rising(Known, parent', rank') /\ Roots(parent') = Roots(parent)
  BY <1>1, FoundHolds DEF SameSet
<1>3. Abstract!Known = Known
  <2>1. Roots(parent) \in [Known -> Known]
    BY <1>1, RootsHold
  <2> QED BY <2>1 DEF Abstract!Known
<1>4. \A i \in Known : 0 .. i \subseteq Known
  BY DEF TypeOK
<1>5. ret' \in Ids \cup {Void, Thrown, Yes, No}
  BY DEF SameSet
<1> QED BY <1>2, <1>3, <1>4, <1>5, RisingMeansType DEF SameSet, Abstract!SameSet

\* The call that makes ids.
LEMMA MakeSetHolds ==
  ASSUME TypeOK, NEW n \in Ids, MakeSet(n)
  PROVE  TypeOK' /\ Abstract!MakeSet(n)
<1>1. PICK E : E = Known \cup 0 .. n
  OBVIOUS
<1>2. Rising(Known, parent, rank) /\ Known \subseteq E /\ E \subseteq Ids
      /\ \A i \in E : 0 .. i \subseteq E
  BY <1>1, TypeMeansRising, MaxIdAssumption DEF TypeOK, Ids
<1>3. /\ Rising(E, parent', rank')
      /\ Roots(parent') = [i \in E |-> IF i \in Known THEN Roots(parent)[i] ELSE i]
  BY <1>1, <1>2, GrownHolds DEF MakeSet, Resize
<1>4. DOMAIN Roots(parent) = Known
  BY <1>2, RootsHold
<1>5. Abstract!Grow(Roots(parent), n) = [i \in E |-> IF i \in Known THEN Roots(parent)[i] ELSE i]
  BY <1>1, <1>4 DEF Abstract!Grow
<1> QED BY <1>2, <1>3, <1>5, RisingMeansType DEF MakeSet, Resize, Abstract!MakeSet

\* What DisjointSets asks of a merge: checkSize, and b for a.
IsGrown(G, E, D, R) == G = [i \in E |-> IF i \in D THEN R[i] ELSE i]

\* MergeInto of DisjointSets replaces a by b in the grown vector.
LEMMA MergeIntoIs ==
  ASSUME NEW D, NEW R, DOMAIN R = D, NEW a, NEW b,
         NEW E, E = D \cup 0 .. a \cup 0 .. b, NEW G, IsGrown(G, E, D, R)
  PROVE  Replaces(Abstract!MergeInto(R, a, b), E, G, a, b)
<1> DEFINE f == [i \in D \cup 0 .. a |-> IF i \in D THEN R[i] ELSE i]
           g == [i \in D \cup 0 .. a \cup 0 .. b |-> IF i \in D \cup 0 .. a THEN f[i] ELSE i]
<1>1. Abstract!Grow(R, a) = f
  BY DEF Abstract!Grow
<1>2. DOMAIN f = D \cup 0 .. a
  OBVIOUS
<1>3. Abstract!Grow(f, b) = g
  <2> HIDE DEF f
  <2> QED BY <1>2 DEF Abstract!Grow
<1>4. DOMAIN g = E /\ \A i \in E : g[i] = G[i]
  BY DEF IsGrown
<1>5. Abstract!MergeInto(R, a, b) = [i \in DOMAIN g |-> IF g[i] = a THEN b ELSE g[i]]
  <2> HIDE DEF f, g
  <2> QED BY <1>1, <1>3 DEF Abstract!MergeInto
<1> HIDE DEF g
<1> QED BY <1>4, <1>5 DEF Replaces

\* unionSet: union by rank puts one root under the other, as DisjointSets allows.
LEMMA UnionSetHolds ==
  ASSUME TypeOK, NEW a \in Ids, NEW b \in Ids, UnionSet(a, b)
  PROVE  TypeOK' /\ Abstract!UnionSet(a, b)
<1>1. PICK D, R, p : D = Known /\ R = Roots(parent) /\ p = Found(parent, a, b)
  OBVIOUS
<1>2. Rising(D, p, rank) /\ Roots(p) = R /\ R \in [D -> D]
  BY <1>1, TypeMeansRising, FoundHolds, RootsHold
<1>3. rank \in [D -> Nat] /\ \A i \in D : 0 .. i \subseteq D
  BY <1>1 DEF TypeOK
<1>4. Abstract!Known = D
  BY <1>1, <1>2 DEF Abstract!Known
<1>5. ret' \in Ids \cup {Void, Thrown, Yes, No}
  BY DEF UnionSet
<1>6. CASE ~ ({a, b} \subseteq D)
  <2>1. parent' = p /\ rank' = rank /\ ret' = Thrown
    BY <1>1, <1>6 DEF UnionSet
  <2> QED BY <1>1, <1>2, <1>3, <1>4, <1>5, <1>6, <2>1, RisingMeansType DEF Abstract!UnionSet
<1>7. CASE {a, b} \subseteq D
  <2>1. PICK x, y : x = R[a] /\ y = R[b]
    OBVIOUS
  <2>2. x \in D /\ y \in D /\ p[x] = x /\ p[y] = y
    BY <1>2, <1>7, <2>1, RootsHold
  <2>3. Replaces(Abstract!MergeInto(R, x, y), D, R, x, y) /\ Replaces(Abstract!MergeInto(R, y, x), D, R, y, x)
    <3>1. D = D \cup 0 .. x \cup 0 .. y /\ D = D \cup 0 .. y \cup 0 .. x
      BY <1>3, <2>2
    <3>2. DOMAIN R = D /\ IsGrown(R, D, D, R)
      BY <1>2 DEF IsGrown
    <3> QED BY <3>1, <3>2, MergeIntoIs
  <2>4. /\ parent' = IF x = y THEN p
                     ELSE IF rank[x] < rank[y] THEN [p EXCEPT ![x] = y] ELSE [p EXCEPT ![y] = x]
        /\ rank' = IF x # y /\ rank[x] = rank[y] THEN [rank EXCEPT ![x] = @ + 1] ELSE rank
        /\ ret' = Void
    BY <1>1, <1>7, <2>1 DEF UnionSet
  <2>5. /\ Rising(D, parent', rank')
        /\ Replaces(Roots(parent'), D, R, x, y) \/ Replaces(Roots(parent'), D, R, y, x)
    <3>1. CASE x = y
      <4>1. Replaces(R, D, R, x, y)
        BY <1>2, <3>1 DEF Replaces
      <4> QED BY <1>2, <2>4, <3>1, <4>1
    <3>2. CASE x # y /\ rank[x] < rank[y]
      <4>1. rank[x] \in Nat /\ rank[y] \in Nat
        BY <1>3, <2>2
      <4>2. parent' = [p EXCEPT ![x] = y] /\ rank' = rank
        BY <2>4, <3>2, <4>1
      <4>3. rank[y] >= rank[y] /\ \A i \in D \ {y} : rank[i] = rank[i]
        BY <4>1
      <4>4. Rising(D, parent', rank) /\ Replaces(Roots(parent'), D, R, x, y)
        <5>1. PICK q : q = parent'
          OBVIOUS
        <5>2. /\ Rising(D, p, rank) /\ x \in D /\ y \in D /\ x # y /\ p[x] = x /\ p[y] = y
              /\ rank \in [D -> Nat] /\ (\A i \in D \ {y} : rank[i] = rank[i])
              /\ rank[y] >= rank[y] /\ rank[x] < rank[y] /\ q = [p EXCEPT ![x] = y]
          BY <1>2, <1>3, <2>2, <3>2, <4>2, <4>3, <5>1
        <5>3. Rising(D, q, rank) /\ Replaces(Roots(q), D, Roots(p), x, y)
          BY <5>2, LinkedHolds
        <5> QED BY <1>2, <5>1, <5>3
      <4> QED BY <1>2, <4>2, <4>4
    <3>3. CASE x # y /\ ~ (rank[x] < rank[y])
      <4>1. rank[x] \in Nat /\ rank[y] \in Nat
        BY <1>3, <2>2
      <4>2. parent' = [p EXCEPT ![y] = x]
        BY <2>4, <3>3
      <4>3. PICK s : s = rank'
        OBVIOUS
      <4>4. /\ s \in [D -> Nat] /\ (\A i \in D \ {x} : s[i] = rank[i])
            /\ s[x] >= rank[x] /\ s[y] < s[x]
        BY <1>3, <2>2, <2>4, <3>3, <4>1, <4>3
      <4>5. Rising(D, parent', s) /\ Replaces(Roots(parent'), D, R, y, x)
        <5>1. PICK q : q = parent'
          OBVIOUS
        <5>2. /\ Rising(D, p, rank) /\ x \in D /\ y \in D /\ y # x /\ p[x] = x /\ p[y] = y
              /\ s \in [D -> Nat] /\ (\A i \in D \ {x} : s[i] = rank[i])
              /\ s[x] >= rank[x] /\ s[y] < s[x] /\ q = [p EXCEPT ![y] = x]
          BY <1>2, <2>2, <3>3, <4>2, <4>4, <5>1
        <5>3. Rising(D, q, s) /\ Replaces(Roots(q), D, Roots(p), y, x)
          <6>1. (\A i \in D \ {x} : s[i] = rank[i]) /\ s[x] >= rank[x] /\ s[y] < s[x]
            BY <5>2
          <6> QED BY <5>2, <6>1, LinkedHolds
        <5> QED BY <1>2, <5>1, <5>3
      <4> QED BY <1>2, <4>3, <4>5
    <3> QED BY <3>1, <3>2, <3>3
  <2>6. Roots(parent') \in {Abstract!MergeInto(R, R[a], R[b]), Abstract!MergeInto(R, R[b], R[a])}
    BY <2>1, <2>3, <2>5 DEF Replaces
  <2>7. TypeOK'
    BY <1>3, <1>5, <2>5, RisingMeansType
  <2> QED BY <1>1, <1>4, <1>7, <2>4, <2>6, <2>7 DEF Abstract!UnionSet
<1> QED BY <1>6, <1>7

\* mergeAintoB: the caller's choice of the root survives, whatever the ranks were.
LEMMA MergeAintoBHolds ==
  ASSUME TypeOK, NEW a \in Ids, NEW b \in Ids, MergeAintoB(a, b)
  PROVE  TypeOK' /\ Abstract!MergeAintoB(a, b)
<1>1. PICK D, E, R : D = Known /\ E = D \cup 0 .. a \cup 0 .. b /\ R = Roots(parent)
  OBVIOUS
<1>2. PICK q, s : /\ q = [i \in E |-> IF i \in D THEN parent[i] ELSE i]
                  /\ s = [i \in E |-> IF i \in D THEN rank[i] ELSE 0]
  OBVIOUS
<1>3. /\ D \subseteq E /\ E \subseteq Ids /\ a \in E /\ b \in E
      /\ \A i \in E : 0 .. i \subseteq E
  BY <1>1, MaxIdAssumption DEF TypeOK, Ids
<1>4. Rising(D, parent, rank)
  BY <1>1, TypeMeansRising
<1>5. Rising(E, q, s) /\ Roots(q) = [i \in E |-> IF i \in D THEN R[i] ELSE i]
  BY <1>1, <1>2, <1>3, <1>4, GrownHolds
<1>6. a # b /\ q[a] = a /\ q[b] = b
  BY <1>1, <1>2, <1>3 DEF MergeAintoB, IsRoot
<1>7. s \in [E -> Nat]
  BY <1>5 DEF Rising
<1>8. parent' = [q EXCEPT ![a] = b] /\ ret' = Void
  BY <1>1, <1>2 DEF MergeAintoB
<1>9. PICK t : t = rank'
  OBVIOUS
<1>10. /\ t \in [E -> Nat] /\ (\A i \in E \ {b} : t[i] = s[i])
       /\ t[b] >= s[b] /\ t[a] < t[b]
  <2>1. RankOf(a) = s[a] /\ RankOf(b) = s[b] /\ \A i \in E : RankOf(i) = s[i]
    BY <1>1, <1>2, <1>3 DEF RankOf
  <2>2. t = [i \in E |-> IF i = b THEN IF s[a] >= s[b] THEN s[a] + 1 ELSE s[b] ELSE s[i]]
    BY <1>1, <1>9, <2>1 DEF MergeAintoB
  <2>3. s[a] \in Nat /\ s[b] \in Nat
    BY <1>3, <1>7
  <2> QED BY <1>3, <1>6, <1>7, <2>2, <2>3
<1>11. /\ Rising(E, parent', t)
       /\ Replaces(Roots(parent'), E, Roots(q), a, b)
  <2>1. PICK u : u = parent'
    OBVIOUS
  <2>2. /\ Rising(E, q, s) /\ a \in E /\ b \in E /\ a # b /\ q[a] = a /\ q[b] = b
        /\ t \in [E -> Nat] /\ (\A i \in E \ {b} : t[i] = s[i])
        /\ t[b] >= s[b] /\ t[a] < t[b] /\ u = [q EXCEPT ![a] = b]
    BY <1>3, <1>5, <1>6, <1>8, <1>10, <2>1
  <2>3. Rising(E, u, t) /\ Replaces(Roots(u), E, Roots(q), a, b)
    BY <2>2, LinkedHolds
  <2> QED BY <2>1, <2>3
<1>12. DOMAIN R = D
  <2>1. R \in [D -> D]
    BY <1>1, <1>4, RootsHold
  <2> QED BY <2>1
<1>13. Roots(parent') = Abstract!MergeInto(R, a, b)
  <2>1. IsGrown(Roots(q), E, D, R)
    BY <1>5 DEF IsGrown
  <2>2. Replaces(Abstract!MergeInto(R, a, b), E, Roots(q), a, b)
    BY <1>1, <1>12, <2>1, MergeIntoIs
  <2> QED BY <1>11, <2>2 DEF Replaces
<1>14. TypeOK'
  BY <1>3, <1>8, <1>9, <1>11, RisingMeansType
<1> QED BY <1>1, <1>8, <1>13, <1>14 DEF Abstract!MergeAintoB

-----------------------------------------------------------------------------
\* The constructor: every id is a root, and a set of its own.
LEMMA InitHolds == Init => TypeOK /\ Abstract!Init
<1> SUFFICES ASSUME Init PROVE TypeOK /\ Abstract!Init
  OBVIOUS
<1>1. PICK n \in Ids : /\ rank = [i \in {j \in Ids : j < n} |-> 0]
                       /\ parent = [i \in {j \in Ids : j < n} |-> i]
                       /\ ret = Void
  BY DEF Init
<1>2. PICK D : D = {j \in Ids : j < n}
  OBVIOUS
<1>3. Known = D /\ D \subseteq Ids /\ \A i \in D : 0 .. i \subseteq D
  BY <1>1, <1>2, MaxIdAssumption DEF Known, Ids
<1>4. Rising(D, parent, rank)
  BY <1>1, <1>2 DEF Rising
<1>5. TypeOK
  BY <1>1, <1>3, <1>4 DEF TypeOK, Rising
<1>6. IsRoots(parent, D, parent)
  BY <1>1, <1>2 DEF IsRoots
<1>7. Roots(parent) = parent
  BY <1>4, <1>6, RootsDefined, RootsAgree
<1> QED BY <1>1, <1>5, <1>7 DEF Abstract!Init, Abstract!Singletons, Abstract!Ids, Ids

\* Every call keeps the type and is a call of DisjointSets.
LEMMA NextHolds == TypeOK /\ [Next]_vars => TypeOK' /\ [Abstract!Next]_(Abstract!vars)
<1> SUFFICES ASSUME TypeOK, [Next]_vars PROVE TypeOK' /\ [Abstract!Next]_(Abstract!vars)
  OBVIOUS
<1>1. ASSUME NEW n \in Ids, MakeSet(n) PROVE TypeOK' /\ Abstract!Next
  BY <1>1, MakeSetHolds DEF Abstract!Next, Abstract!Ids, Ids
<1>2. ASSUME NEW n \in Ids, FindSet(n) PROVE TypeOK' /\ Abstract!Next
  BY <1>2, FindSetHolds DEF Abstract!Next, Abstract!Ids, Ids
<1>3. ASSUME NEW a \in Ids, NEW b \in Ids, SameSet(a, b) PROVE TypeOK' /\ Abstract!Next
  BY <1>3, SameSetHolds DEF Abstract!Next, Abstract!Ids, Ids
<1>4. ASSUME NEW a \in Ids, NEW b \in Ids, UnionSet(a, b) PROVE TypeOK' /\ Abstract!Next
  BY <1>4, UnionSetHolds DEF Abstract!Next, Abstract!Ids, Ids
<1>5. ASSUME NEW a \in Ids, NEW b \in Ids, MergeAintoB(a, b) PROVE TypeOK' /\ Abstract!Next
  BY <1>5, MergeAintoBHolds DEF Abstract!Next, Abstract!Ids, Ids
<1>6. CASE UNCHANGED vars
  <2>1. TypeOK'
    BY <1>6 DEF TypeOK, vars, Known
  <2>2. UNCHANGED Abstract!vars
    BY <1>6 DEF vars, Abstract!vars
  <2> QED BY <2>1, <2>2
<1> QED BY <1>1, <1>2, <1>3, <1>4, <1>5, <1>6 DEF Next

\* Ranks rise along every chain, whatever mixture of calls made it: findSet ends.
THEOREM TypesHold == Spec => []TypeOK
<1> QED BY InitHolds, NextHolds, PTL DEF Spec

\* Seen through the representatives, the class keeps the promise of DisjointSets:
\* chains, ranks and path compression never show.
THEOREM ImplementsPartition == Spec => KeepsPartition
<1> QED BY InitHolds, NextHolds, PTL DEF Spec, KeepsPartition, Abstract!Spec
=============================================================================
