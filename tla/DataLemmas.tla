----------------------------- MODULE DataLemmas -----------------------------
(***************************************************************************)
(* Facts about numbers, sets, folds and the messages under way that the    *)
(* proofs of the components share.  Induction over data is done by the     *)
(* least counterexample: the set of the numbers that refute a claim, if it *)
(* had a member, would have a least one.                                   *)
(***************************************************************************)
EXTENDS Mail, Integers, FiniteSets, FiniteSetsExt, SequencesExt, TLAPS,
        WellFoundedInduction, FiniteSetTheorems

\* Every non-empty set of natural numbers has a least member.
LEMMA Least ==
  ASSUME NEW T, T \subseteq Nat, T # {}
  PROVE  \E n \in T : \A m \in T : n <= m
<1> DEFINE R == OpToRel(<, Nat)
<1>1. IsWellFoundedOn(R, Nat)
  BY NatLessThanWellFounded
<1>2. PICK n \in T : \A m \in T : ~ (<<m, n>> \in R)
  <2> HIDE DEF R
  <2> QED BY <1>1, WFMin
<1>3. ASSUME NEW m \in T PROVE n <= m
  <2>1. ~ (<<m, n>> \in OpToRel(<, Nat))
    BY <1>2
  <2>2. ~ (m < n)
    BY <2>1 DEF OpToRel
  <2> QED BY <2>2
<1> QED BY <1>3

\* A non-empty set of numbers up to a bound has a greatest member.
LEMMA Greatest ==
  ASSUME NEW N \in Nat, NEW T, T \subseteq 0 .. N, T # {}
  PROVE  \E n \in T : \A m \in T : m <= n
<1> DEFINE D == {N - m : m \in T}
<1>1. D \subseteq Nat /\ D # {}
  <2>1. \A m \in T : N - m \in Nat
    OBVIOUS
  <2> QED BY <2>1
<1>2. PICK d \in D : \A e \in D : d <= e
  <2> HIDE DEF D
  <2> QED BY <1>1, Least
<1>3. PICK n \in T : d = N - n
  BY <1>2
<1>4. \A m \in T : N - n <= N - m
  BY <1>2, <1>3
<1> QED BY <1>4

\* Min and Max are members and bounds of such sets.
LEMMA MinOfNats ==
  ASSUME NEW T, T \subseteq Nat, T # {}
  PROVE  Min(T) \in T /\ \A m \in T : Min(T) <= m
<1>1. \E n \in T : \A m \in T : n <= m
  BY Least
<1> QED BY <1>1 DEF Min

\* The same for Max.
LEMMA MaxOfBounded ==
  ASSUME NEW N \in Nat, NEW T, T \subseteq 0 .. N, T # {}
  PROVE  Max(T) \in T /\ \A m \in T : m <= Max(T)
<1>1. PICK n \in T : \A m \in T : m <= n
  BY Greatest
<1>2. \E x \in T : \A y \in T : x >= y
  BY <1>1
<1>3. Max(T) \in T /\ \A y \in T : Max(T) >= y
  BY <1>2 DEF Max
<1> QED BY <1>3

\* A finite set with a member has a positive count.
LEMMA NonEmptyCount ==
  ASSUME NEW S, IsFiniteSet(S), S # {}
  PROVE  Cardinality(S) \in Nat /\ Cardinality(S) > 0
BY FS_EmptySet, FS_CardinalityType

\* Min of a set that has a least member.
LEMMA MinIs ==
  ASSUME NEW T, T \subseteq Nat, NEW x \in T, \A y \in T : x <= y
  PROVE  Min(T) = x
<1>1. Min(T) \in T /\ \A m \in T : Min(T) <= m
  BY MinOfNats
<1>2. x <= Min(T) /\ Min(T) <= x /\ x \in Nat /\ Min(T) \in Nat
  BY <1>1
<1> QED BY <1>2

\* Max of two numbers.
LEMMA MaxOfTwo ==
  ASSUME NEW a \in Nat, NEW b \in Nat
  PROVE  Max({a, b}) = IF b > a THEN b ELSE a
<1>1. \E x \in {a, b} : \A y \in {a, b} : x >= y
  OBVIOUS
<1>2. Max({a, b}) \in {a, b} /\ \A y \in {a, b} : Max({a, b}) >= y
  BY <1>1 DEF Max
<1> QED BY <1>2

\* Induction up to N: a set of numbers that holds 0 and with every number below N
\* the next one holds them all.
LEMMA Upwards ==
  ASSUME NEW N \in Nat, NEW T, 0 \in T,
         \A n \in 0 .. N - 1 : n \in T => n + 1 \in T
  PROVE  0 .. N \subseteq T
<1> SUFFICES ASSUME ~ (0 .. N \subseteq T)
             PROVE  FALSE
  OBVIOUS
<1> DEFINE B == {n \in 0 .. N : n \notin T}
<1>1. PICK n \in B : \A m \in B : n <= m
  <2>1. B \subseteq Nat /\ B # {}
    OBVIOUS
  <2> HIDE DEF B
  <2> QED BY <2>1, Least
<1>2. n # 0 /\ n - 1 \in 0 .. N - 1 /\ n - 1 \notin B
  BY <1>1
<1>3. n - 1 \in T
  BY <1>2
<1> QED BY <1>1, <1>2, <1>3

\* Appending a value adds it to the members of a sequence.
LEMMA AppendSet ==
  ASSUME NEW S, NEW s \in Seq(S), NEW v \in S
  PROVE  Append(s, v) \in Seq(S) /\ ToSet(Append(s, v)) = ToSet(s) \cup {v}
<1>1. /\ Append(s, v) \in Seq(S)
      /\ DOMAIN Append(s, v) = 1 .. Len(s) + 1 /\ DOMAIN s = 1 .. Len(s) /\ Len(s) \in Nat
  OBVIOUS
<1>2. \A i \in 1 .. Len(s) : Append(s, v)[i] = s[i]
  OBVIOUS
<1>3. Append(s, v)[Len(s) + 1] = v
  OBVIOUS
<1>4. {Append(s, v)[i] : i \in 1 .. Len(s) + 1} = {s[i] : i \in 1 .. Len(s)} \cup {v}
  BY <1>1, <1>2, <1>3
<1> QED BY <1>1, <1>4 DEF ToSet

-----------------------------------------------------------------------------
\* The function by which a fold over 1 .. N is defined, and that it exists.
IsFold(F, N, V, base, Op) ==
  /\ F \in [SUBSET (1 .. N) -> V]
  /\ \A S \in SUBSET (1 .. N) :
       F[S] = IF S = {} THEN base ELSE Op[<<Max(S), F[S \ {Max(S)}]>>]

\* By induction on the largest index: the fold is defined on every set.
LEMMA FoldExists ==
  ASSUME NEW N \in Nat, NEW V, NEW base \in V, NEW Op \in [(1 .. N) \X V -> V]
  PROVE  \E F : IsFold(F, N, V, base, Op)
<1> DEFINE Folds(n, F) ==
             \A S \in SUBSET (1 .. n) :
               F[S] = IF S = {} THEN base ELSE Op[<<Max(S), F[S \ {Max(S)}]>>]
           T == {n \in 0 .. N : \E F \in [SUBSET (1 .. n) -> V] : Folds(n, F)}
<1>1. 0 \in T
  <2>1. [S \in SUBSET (1 .. 0) |-> base] \in [SUBSET (1 .. 0) -> V]
    OBVIOUS
  <2>2. Folds(0, [S \in SUBSET (1 .. 0) |-> base])
    <3>1. \A S \in SUBSET (1 .. 0) : S = {}
      OBVIOUS
    <3> QED BY <3>1
  <2>3. \E F \in [SUBSET (1 .. 0) -> V] : Folds(0, F)
    <3> HIDE DEF Folds
    <3> QED BY <2>1, <2>2
  <2>4. 0 \in 0 .. N
    OBVIOUS
  <2> HIDE DEF Folds
  <2> QED BY <2>3, <2>4
<1>2. ASSUME NEW k \in 0 .. N - 1, k \in T PROVE k + 1 \in T
  <2> DEFINE n == k + 1
  <2>1. PICK F \in [SUBSET (1 .. k) -> V] : Folds(k, F)
    BY <1>2
  <2> DEFINE G == [S \in SUBSET (1 .. n) |-> IF n \in S THEN Op[<<n, F[S \ {n}]>>] ELSE F[S]]
  <2>2. \A S \in SUBSET (1 .. n) : S \ {n} \in SUBSET (1 .. k)
    OBVIOUS
  <2>3. \A S \in SUBSET (1 .. n) : n \notin S => S \in SUBSET (1 .. k)
    OBVIOUS
  <2>4. n \in 1 .. N
    OBVIOUS
  <2>5. G \in [SUBSET (1 .. n) -> V]
    <3>1. ASSUME NEW S \in SUBSET (1 .. n)
          PROVE  (IF n \in S THEN Op[<<n, F[S \ {n}]>>] ELSE F[S]) \in V
      <4>1. CASE n \in S
        <5>1. F[S \ {n}] \in V
          BY <2>2
        <5> QED BY <5>1, <4>1, <2>4
      <4>2. CASE n \notin S
        BY <4>2, <2>3
      <4> QED BY <4>1, <4>2
    <3> QED BY <3>1
  <2>6. ASSUME NEW S \in SUBSET (1 .. n), S # {}
        PROVE  G[S] = Op[<<Max(S), G[S \ {Max(S)}]>>]
    <3>1. Max(S) \in S /\ \A m \in S : m <= Max(S)
      <4>1. n \in Nat /\ S \subseteq 0 .. n
        OBVIOUS
      <4> HIDE DEF n, G
      <4> QED BY <4>1, <2>6, MaxOfBounded
    <3>2. CASE n \in S
      <4>1. Max(S) = n
        <5>1. n <= Max(S) /\ Max(S) \in 1 .. n
          BY <3>1, <3>2
        <5> HIDE DEF G
        <5> QED BY <5>1
      <4>2. G[S \ {n}] = F[S \ {n}]
        BY <2>2
      <4> QED BY <3>2, <4>1, <4>2
    <3>3. CASE n \notin S
      <4>1. S \in SUBSET (1 .. k) /\ G[S] = F[S]
        BY <2>3, <3>3
      <4>2. F[S] = Op[<<Max(S), F[S \ {Max(S)}]>>]
        BY <4>1, <2>1, <2>6
      <4>3. G[S \ {Max(S)}] = F[S \ {Max(S)}]
        BY <3>3
      <4> QED BY <4>1, <4>2, <4>3
    <3> QED BY <3>2, <3>3
  <2>7. G[{}] = base
    BY <2>1
  <2>8. Folds(n, G)
    <3> HIDE DEF G
    <3> QED BY <2>6, <2>7
  <2>9. \E H \in [SUBSET (1 .. n) -> V] : Folds(n, H)
    <3> HIDE DEF Folds, G
    <3> QED BY <2>5, <2>8
  <2>10. n \in 0 .. N
    OBVIOUS
  <2> HIDE DEF n, Folds
  <2> QED BY <2>9, <2>10 DEF n
<1>3. N \in T
  <2> HIDE DEF T
  <2> QED BY <1>1, <1>2, Upwards
<1>4. \E F \in [SUBSET (1 .. N) -> V] : Folds(N, F)
  <2> HIDE DEF Folds
  <2> QED BY <1>3
<1>5. PICK F \in [SUBSET (1 .. N) -> V] : Folds(N, F)
  <2> HIDE DEF Folds
  <2> QED BY <1>4
<1>6. IsFold(F, N, V, base, Op)
  BY <1>5 DEF IsFold
<1> QED BY <1>6

\* What a prefix folds to: the set 1 .. n loses its greatest member n.
LEMMA Prefix ==
  ASSUME NEW n \in Nat \ {0}
  PROVE  1 .. n # {} /\ Max(1 .. n) = n /\ (1 .. n) \ {n} = 1 .. n - 1
<1>1. Max(1 .. n) \in 1 .. n /\ \A m \in 1 .. n : m <= Max(1 .. n)
  <2>1. 1 .. n \subseteq 0 .. n /\ 1 .. n # {}
    OBVIOUS
  <2> QED BY <2>1, MaxOfBounded
<1>2. Max(1 .. n) = n
  BY <1>1
<1> QED BY <1>2

-----------------------------------------------------------------------------
\* A step taken n times from a base: the function a fold over 1 .. n defines when it
\* does not look at the index, and the values it goes through.
IsRepeat(F, n, V, base, Step) ==
  /\ F = [S \in SUBSET (1 .. n) |-> F[S]] /\ F[{}] = base
  /\ \A S \in SUBSET (1 .. n) : F[S] \in V
  /\ \A S \in SUBSET (1 .. n) : S # {} => F[S] = Step[F[S \ {Max(S)}]]

IsRun(g, n, V, base, Step) ==
  /\ g \in [0 .. n -> V] /\ g[0] = base
  /\ \A i \in 1 .. n : g[i] = Step[g[i - 1]]

\* There is the function of a fold that does not look at the index.
LEMMA RepeatExists ==
  ASSUME NEW n \in Nat, NEW V, NEW base \in V, NEW Step \in [V -> V]
  PROVE  \E F : IsRepeat(F, n, V, base, Step)
<1> DEFINE Op == [a \in (1 .. n) \X V |-> Step[a[2]]]
<1>1. Op \in [(1 .. n) \X V -> V]
  OBVIOUS
<1>2. PICK F : IsFold(F, n, V, base, Op)
  <2> HIDE DEF Op
  <2> QED BY <1>1, FoldExists
<1>3. F \in [SUBSET (1 .. n) -> V] /\ F[{}] = base
  BY <1>2 DEF IsFold
<1>4. ASSUME NEW S \in SUBSET (1 .. n), S # {} PROVE F[S] = Step[F[S \ {Max(S)}]]
  <2>1. Max(S) \in 1 .. n
    <3>1. S \subseteq 0 .. n
      OBVIOUS
    <3>2. Max(S) \in S
      BY <1>4, <3>1, MaxOfBounded
    <3> QED BY <3>2
  <2>2. F[S] = Op[<<Max(S), F[S \ {Max(S)}]>>]
    BY <1>2, <1>4 DEF IsFold
  <2>3. F[S \ {Max(S)}] \in V
    BY <1>3
  <2> QED BY <2>1, <2>2, <2>3
<1>5. IsRepeat(F, n, V, base, Step)
  <2> HIDE DEF Op
  <2> QED BY <1>3, <1>4 DEF IsRepeat
<1> QED BY <1>5

\* Its values at 1 .. i, for every i, are the run of the step.
LEMMA RunMade ==
  ASSUME NEW n \in Nat, NEW V, NEW base \in V, NEW Step \in [V -> V], NEW it,
         it[{}] = base,
         \A i \in 1 .. n : it[1 .. i - 1] \in V => it[1 .. i] = Step[it[1 .. i - 1]]
  PROVE  \E g : IsRun(g, n, V, base, Step) /\ g[n] = it[1 .. n]
<1> DEFINE g == [i \in 0 .. n |-> it[1 .. i]]
           T == {i \in 0 .. n : it[1 .. i] \in V}
<1>1. 1 .. 0 = {} /\ 0 \in 0 .. n /\ n \in 0 .. n
  OBVIOUS
<1>2. 0 \in T
  BY <1>1
<1>3. ASSUME NEW i \in 0 .. n - 1, i \in T PROVE i + 1 \in T
  <2>1. i + 1 \in 1 .. n /\ i + 1 \in 0 .. n /\ (i + 1) - 1 = i
    OBVIOUS
  <2>2. it[1 .. i + 1] = Step[it[1 .. i]]
    BY <1>3, <2>1
  <2> QED BY <1>3, <2>1, <2>2
<1>4. 0 .. n \subseteq T
  <2> HIDE DEF T
  <2> QED BY <1>2, <1>3, Upwards
<1>5. g \in [0 .. n -> V]
  BY <1>4
<1>6. g[0] = base /\ g[n] = it[1 .. n]
  BY <1>1
<1>7. ASSUME NEW i \in 1 .. n PROVE g[i] = Step[g[i - 1]]
  <2>1. i \in 0 .. n /\ i - 1 \in 0 .. n
    OBVIOUS
  <2>2. it[1 .. i - 1] \in V
    BY <1>4, <2>1
  <2> QED BY <2>1, <2>2
<1>8. IsRun(g, n, V, base, Step)
  <2> HIDE DEF g
  <2> QED BY <1>5, <1>6, <1>7 DEF IsRun
<1> QED BY <1>6, <1>8

\* What a run never leaves.
LEMMA RunStays ==
  ASSUME NEW n \in Nat, NEW V, NEW base, NEW Step, NEW g, IsRun(g, n, V, base, Step),
         NEW Q, base \in Q, \A v \in V \cap Q : Step[v] \in Q
  PROVE  g[n] \in Q /\ g[n] \in V
<1> DEFINE T == {i \in 0 .. n : g[i] \in Q}
<1>1. 0 \in T
  BY DEF IsRun
<1>2. ASSUME NEW i \in 0 .. n - 1, i \in T PROVE i + 1 \in T
  <2>1. i + 1 \in 1 .. n /\ i + 1 \in 0 .. n /\ (i + 1) - 1 = i
    OBVIOUS
  <2>2. g[i + 1] = Step[g[i]] /\ g[i] \in V
    BY <2>1 DEF IsRun
  <2> QED BY <1>2, <2>1, <2>2
<1>3. 0 .. n \subseteq T
  <2> HIDE DEF T
  <2> QED BY <1>1, <1>2, Upwards
<1> QED BY <1>3 DEF IsRun

\* A set that only grows has stopped growing after as many steps as it may have
\* members.
LEMMA GrowthEnds ==
  ASSUME NEW n \in Nat, NEW U, IsFiniteSet(U), Cardinality(U) <= n,
         NEW V, \A S \in V : S \subseteq U,
         NEW Step \in [V -> V], \A S \in V : S \subseteq Step[S],
         NEW base, NEW g, IsRun(g, n, V, base, Step)
  PROVE  Step[g[n]] = g[n] /\ base \subseteq g[n] /\ g[n] \in V
<1> DEFINE T == {i \in 0 .. n : base \subseteq g[i] /\ (Step[g[i]] = g[i] \/ Cardinality(g[i]) >= i)}
<1>1. \A i \in 0 .. n : /\ g[i] \in V /\ g[i] \subseteq U /\ IsFiniteSet(g[i])
                        /\ Cardinality(g[i]) \in Nat /\ Cardinality(g[i]) <= Cardinality(U)
  BY FS_Subset, FS_CardinalityType DEF IsRun
<1>2. 0 \in T
  BY <1>1 DEF IsRun
<1>3. ASSUME NEW i \in 0 .. n - 1, i \in T PROVE i + 1 \in T
  <2>1. i + 1 \in 1 .. n /\ i + 1 \in 0 .. n /\ (i + 1) - 1 = i /\ i \in 0 .. n
    OBVIOUS
  <2>2. g[i + 1] = Step[g[i]] /\ g[i] \subseteq g[i + 1]
    BY <1>1, <2>1 DEF IsRun
  <2>3. CASE Step[g[i]] = g[i]
    BY <1>3, <2>1, <2>2, <2>3
  <2>4. CASE Step[g[i]] # g[i]
    <3>1. Cardinality(g[i]) >= i
      BY <1>3, <2>4
    <3>2. /\ Cardinality(g[i]) <= Cardinality(g[i + 1])
          /\ Cardinality(g[i]) # Cardinality(g[i + 1])
      BY <1>1, <2>1, <2>2, <2>4, FS_Subset
    <3>3. Cardinality(g[i]) \in Nat /\ Cardinality(g[i + 1]) \in Nat
      BY <1>1, <2>1
    <3>4. Cardinality(g[i + 1]) >= i + 1
      BY <3>1, <3>2, <3>3
    <3> QED BY <1>3, <2>1, <2>2, <3>4
  <2> QED BY <2>3, <2>4
<1>4. n \in T
  <2>1. 0 .. n \subseteq T
    <3> HIDE DEF T
    <3> QED BY <1>2, <1>3, Upwards
  <2> QED BY <2>1
<1>5. CASE Cardinality(g[n]) >= n
  <2>1. g[n] = U
    <3>1. Cardinality(g[n]) = Cardinality(U)
      BY <1>1, <1>5, FS_CardinalityType
    <3> QED BY <1>1, <3>1, FS_Subset
  <2>2. U \in V
    BY <1>1, <2>1
  <2>3. Step[U] \subseteq U /\ U \subseteq Step[U]
    BY <2>2
  <2>4. Step[U] = U
    BY <2>3
  <2> QED BY <1>4, <2>1, <2>2, <2>4
<1> QED BY <1>1, <1>4, <1>5

-----------------------------------------------------------------------------
\* Sums over finite sets.

\* Induction over a finite set: a family that holds the empty set and with every
\* set of it the set with one member more holds the whole.
LEMMA Gathering ==
  ASSUME NEW S, IsFiniteSet(S), NEW F, {} \in F,
         \A s \in F : \A x \in S \ s : s \subseteq S => s \cup {x} \in F
  PROVE  S \in F
<1> DEFINE T == {n \in 0 .. Cardinality(S) : \E s \in SUBSET S : s \in F /\ Cardinality(s) = n}
<1>1. Cardinality(S) \in Nat
  BY FS_CardinalityType
<1>2. 0 \in T
  BY <1>1, FS_EmptySet
<1>3. ASSUME NEW n \in 0 .. Cardinality(S) - 1, n \in T PROVE n + 1 \in T
  <2>1. PICK s \in SUBSET S : s \in F /\ Cardinality(s) = n
    BY <1>3
  <2>2. IsFiniteSet(s)
    BY FS_Subset
  <2>3. s # S
    BY <1>1, <2>1
  <2>4. PICK x \in S : x \notin s
    BY <2>3
  <2>5. s \cup {x} \in SUBSET S /\ s \cup {x} \in F /\ Cardinality(s \cup {x}) = n + 1
    BY <2>1, <2>2, <2>4, FS_AddElement
  <2> QED BY <1>1, <2>5
<1>4. Cardinality(S) \in T
  <2> HIDE DEF T
  <2> QED BY <1>1, <1>2, <1>3, Upwards
<1>5. PICK s \in SUBSET S : s \in F /\ Cardinality(s) = Cardinality(S)
  BY <1>4
<1>6. s = S
  BY <1>5, FS_Subset
<1> QED BY <1>5, <1>6

\* The function by which a sum over S is defined.
IsSum(f, g, S) ==
  f = [s \in SUBSET S |-> IF s = {} THEN 0
                          ELSE g[CHOOSE x \in s : TRUE] + f[s \ {CHOOSE x \in s : TRUE}]]

\* The members a sum takes first, and the set that is left.
Taken(s) == CHOOSE x \in s : TRUE
Untaken(s) == s \ {Taken(s)}

LEMMA TakingOne ==
  ASSUME NEW s, IsFiniteSet(s), s # {}
  PROVE  /\ Taken(s) \in s /\ Untaken(s) \subseteq s
         /\ Cardinality(s) \in Nat /\ Cardinality(s) > 0
         /\ Cardinality(Untaken(s)) = Cardinality(s) - 1
<1>1. Taken(s) \in s
  BY DEF Taken
<1>2. Untaken(s) \subseteq s
  BY DEF Untaken
<1>3. Cardinality(Untaken(s)) = Cardinality(s) - 1
  BY <1>1, FS_RemoveElement DEF Untaken
<1> QED BY <1>1, <1>2, <1>3, NonEmptyCount

\* It sums up the sets of at most n members.
SumsUpTo(f, g, S, n) ==
  \A s \in SUBSET S : Cardinality(s) <= n =>
    f[s] \in Int /\ f[s] = IF s = {} THEN 0 ELSE g[Taken(s)] + f[Untaken(s)]

\* There is one.
LEMMA SumExists ==
  ASSUME NEW S, IsFiniteSet(S), NEW g, \A x \in S : g[x] \in Int
  PROVE  \E f : IsSum(f, g, S) /\ \A s \in SUBSET S : f[s] \in Int
<1> DEFINE T == {n \in 0 .. Cardinality(S) : \E f : SumsUpTo(f, g, S, n)}
<1>1. Cardinality(S) \in Nat
  BY FS_CardinalityType
<1>2. \A s \in SUBSET S : IsFiniteSet(s) /\ Cardinality(s) \in Nat /\ Cardinality(s) <= Cardinality(S)
  BY FS_Subset, FS_CardinalityType
<1>3. 0 \in T
  <2> DEFINE f == [s \in SUBSET S |-> 0]
  <2>1. \A s \in SUBSET S : Cardinality(s) <= 0 => s = {}
    BY <1>2, NonEmptyCount
  <2>2. SumsUpTo(f, g, S, 0)
    BY <2>1 DEF SumsUpTo
  <2> QED BY <1>1, <2>2
<1>4. ASSUME NEW n \in 0 .. Cardinality(S) - 1, n \in T PROVE n + 1 \in T
  <2>1. PICK f : SumsUpTo(f, g, S, n)
    BY <1>4
  <2> DEFINE h == [s \in SUBSET S |-> IF s = {} THEN 0 ELSE g[Taken(s)] + f[Untaken(s)]]
  <2>2. n \in Nat /\ n + 1 \in 0 .. Cardinality(S)
    BY <1>1
  <2>3. \A s \in SUBSET S : Cardinality(s) <= n => h[s] = f[s]
    BY <2>1 DEF SumsUpTo
  <2>4. ASSUME NEW s \in SUBSET S, Cardinality(s) <= n + 1, s # {}
        PROVE  h[s] \in Int /\ h[s] = g[Taken(s)] + h[Untaken(s)]
    <3>1. /\ Taken(s) \in S /\ Untaken(s) \in SUBSET S
          /\ Cardinality(Untaken(s)) = Cardinality(s) - 1 /\ Cardinality(s) \in Nat
      BY <1>2, <2>4, TakingOne
    <3>2. Cardinality(Untaken(s)) <= n
      BY <2>2, <2>4, <3>1
    <3>3. f[Untaken(s)] \in Int /\ h[Untaken(s)] = f[Untaken(s)]
      BY <2>1, <2>3, <3>1, <3>2 DEF SumsUpTo
    <3>4. h[s] = g[Taken(s)] + f[Untaken(s)]
      BY <2>4
    <3> HIDE DEF h
    <3> QED BY <3>1, <3>3, <3>4
  <2>5. h[{}] = 0
    OBVIOUS
  <2> HIDE DEF h
  <2>6. ASSUME NEW s \in SUBSET S, Cardinality(s) <= n + 1
        PROVE  h[s] \in Int /\ h[s] = IF s = {} THEN 0 ELSE g[Taken(s)] + h[Untaken(s)]
    <3>1. CASE s = {}
      BY <2>5, <3>1
    <3>2. CASE s # {}
      BY <2>4, <2>6, <3>2
    <3> QED BY <3>1, <3>2
  <2>7. SumsUpTo(h, g, S, n + 1)
    BY <2>6 DEF SumsUpTo
  <2> QED BY <2>2, <2>7
<1>5. Cardinality(S) \in T
  <2> HIDE DEF T
  <2> QED BY <1>1, <1>3, <1>4, Upwards
<1>6. PICK f : SumsUpTo(f, g, S, Cardinality(S))
  BY <1>5
<1> DEFINE h == [s \in SUBSET S |-> f[s]]
<1>7. \A s \in SUBSET S : h[s] \in Int /\ h[s] = IF s = {} THEN 0 ELSE g[Taken(s)] + h[Untaken(s)]
  <2>1. \A s \in SUBSET S : Untaken(s) \in SUBSET S
    BY DEF Untaken
  <2> QED BY <1>2, <1>6, <2>1 DEF SumsUpTo
<1>8. h = [s \in SUBSET S |-> h[s]]
  OBVIOUS
<1>9. IsSum(h, g, S)
  <2> HIDE DEF h
  <2> QED BY <1>7, <1>8 DEF IsSum, Taken, Untaken
<1> QED BY <1>7, <1>9

\* Two such functions agree where the functions summed do, on the sets both know.
LEMMA SumsAgree ==
  ASSUME NEW S, IsFiniteSet(S), NEW T, NEW R, NEW g, NEW h,
         S \subseteq T, S \subseteq R, \A x \in S : g[x] = h[x],
         NEW e, IsSum(e, g, T), NEW f, IsSum(f, h, R)
  PROVE  e[S] = f[S]
<1> DEFINE N == {n \in 0 .. Cardinality(S) : \A s \in SUBSET S : Cardinality(s) = n => e[s] = f[s]}
<1>1. Cardinality(S) \in Nat
  BY FS_CardinalityType
<1>2. \A s \in SUBSET S : IsFiniteSet(s) /\ Cardinality(s) \in Nat
  BY FS_Subset, FS_CardinalityType
<1>3. \A s \in SUBSET S :
        /\ e[s] = IF s = {} THEN 0 ELSE g[Taken(s)] + e[Untaken(s)]
        /\ f[s] = IF s = {} THEN 0 ELSE h[Taken(s)] + f[Untaken(s)]
  <2> TAKE s \in SUBSET S
  <2>1. s \in SUBSET T /\ s \in SUBSET R
    OBVIOUS
  <2> QED BY <2>1 DEF IsSum, Taken, Untaken
<1>4. 0 \in N
  <2>1. \A s \in SUBSET S : Cardinality(s) = 0 => s = {}
    BY <1>2, NonEmptyCount
  <2> QED BY <1>1, <1>3, <2>1
<1>5. ASSUME NEW n \in 0 .. Cardinality(S) - 1, n \in N PROVE n + 1 \in N
  <2>1. n \in Nat /\ n + 1 \in 0 .. Cardinality(S)
    BY <1>1
  <2>2. ASSUME NEW s \in SUBSET S, Cardinality(s) = n + 1 PROVE e[s] = f[s]
    <3>1. s # {}
      BY <2>1, <2>2, FS_EmptySet
    <3>2. Taken(s) \in S /\ Untaken(s) \in SUBSET S /\ Cardinality(Untaken(s)) = n
      BY <1>2, <2>1, <2>2, <3>1, TakingOne
    <3>3. e[Untaken(s)] = f[Untaken(s)]
      BY <1>5, <3>2
    <3> QED BY <1>3, <3>1, <3>2, <3>3
  <2> QED BY <2>1, <2>2
<1>6. Cardinality(S) \in N
  <2> HIDE DEF N
  <2> QED BY <1>1, <1>4, <1>5, Upwards
<1> QED BY <1>6

\* What SumFunctionOnSet is.
LEMMA SumIs ==
  ASSUME NEW S, IsFiniteSet(S), NEW g, \A x \in S : g[x] \in Int
  PROVE  \E f : /\ IsSum(f, g, S) /\ \A s \in SUBSET S : f[s] \in Int
                /\ SumFunctionOnSet(g, S) = f[S]
<1> DEFINE f == CHOOSE i : IsSum(i, g, S)
<1>1. PICK h : IsSum(h, g, S) /\ \A s \in SUBSET S : h[s] \in Int
  BY SumExists
<1>2. IsSum(f, g, S)
  BY <1>1
<1>3. SumFunctionOnSet(g, S) = f[S]
  BY DEF SumFunctionOnSet, FoldFunctionOnSet, MapThenFoldSet, IsSum
<1> HIDE DEF f
<1>4. ASSUME NEW s \in SUBSET S PROVE f[s] \in Int
  <2>1. IsFiniteSet(s)
    BY FS_Subset
  <2>2. f[s] = h[s]
    BY <1>1, <1>2, <2>1, SumsAgree
  <2> QED BY <1>1, <2>2
<1> QED BY <1>2, <1>3, <1>4

\* A member taken out of a sum, whichever it is.
LEMMA SumWithout ==
  ASSUME NEW S, IsFiniteSet(S), NEW g, \A x \in S : g[x] \in Int, NEW x \in S
  PROVE  /\ SumFunctionOnSet(g, S) = g[x] + SumFunctionOnSet(g, S \ {x})
         /\ SumFunctionOnSet(g, S) \in Int
<1>1. PICK f : /\ IsSum(f, g, S) /\ \A s \in SUBSET S : f[s] \in Int
               /\ SumFunctionOnSet(g, S) = f[S]
  BY SumIs
<1>2. ASSUME NEW s \in SUBSET S PROVE SumFunctionOnSet(g, s) = f[s]
  <2>1. IsFiniteSet(s)
    BY FS_Subset
  <2>2. PICK e : IsSum(e, g, s) /\ SumFunctionOnSet(g, s) = e[s]
    BY <2>1, SumIs
  <2> QED BY <1>1, <2>1, <2>2, SumsAgree
<1>3. \A s \in SUBSET S : IsFiniteSet(s) /\ Cardinality(s) \in Nat
  BY FS_Subset, FS_CardinalityType
<1>4. \A s \in SUBSET S : f[s] = IF s = {} THEN 0 ELSE g[Taken(s)] + f[Untaken(s)]
  BY <1>1 DEF IsSum, Taken, Untaken
<1> DEFINE N == {n \in 0 .. Cardinality(S) :
                   \A s \in SUBSET S : Cardinality(s) = n => \A y \in s : f[s] = g[y] + f[s \ {y}]}
<1>5. Cardinality(S) \in Nat
  BY <1>3
<1>6. 0 \in N
  <2>1. \A s \in SUBSET S : Cardinality(s) = 0 => s = {}
    BY <1>3, NonEmptyCount
  <2> QED BY <1>5, <2>1
<1>7. ASSUME NEW n \in 0 .. Cardinality(S) - 1, n \in N PROVE n + 1 \in N
  <2>1. n \in Nat /\ n + 1 \in 0 .. Cardinality(S)
    BY <1>5
  <2>2. ASSUME NEW s \in SUBSET S, Cardinality(s) = n + 1, NEW y \in s PROVE f[s] = g[y] + f[s \ {y}]
    <3>1. PICK t : t = Taken(s)
      OBVIOUS
    <3>2. t \in s /\ Untaken(s) = s \ {t} /\ Cardinality(s \ {t}) = n
      BY <1>3, <2>1, <2>2, <3>1, TakingOne DEF Untaken
    <3>3. f[s] = g[t] + f[s \ {t}]
      BY <1>4, <3>1, <3>2
    <3>4. CASE y = t
      BY <3>3, <3>4
    <3>5. CASE y # t
      <4>1. Cardinality(s \ {y}) = n
        BY <1>3, <2>1, <2>2, FS_RemoveElement
      <4>2. f[s \ {t}] = g[y] + f[(s \ {t}) \ {y}]
        <5>1. s \ {t} \in SUBSET S /\ y \in s \ {t}
          BY <3>5
        <5> QED BY <1>7, <3>2, <5>1
      <4>3. f[s \ {y}] = g[t] + f[(s \ {y}) \ {t}]
        <5>1. s \ {y} \in SUBSET S /\ t \in s \ {y}
          BY <3>2, <3>5
        <5> QED BY <1>7, <4>1, <5>1
      <4>4. (s \ {t}) \ {y} = (s \ {y}) \ {t}
        OBVIOUS
      <4>5. PICK r : r = f[(s \ {t}) \ {y}]
        OBVIOUS
      <4>6. r \in Int /\ g[t] \in Int /\ g[y] \in Int
        BY <1>1, <3>2, <4>5
      <4>7. f[s] = g[t] + (g[y] + r) /\ f[s \ {y}] = g[t] + r
        BY <3>3, <4>2, <4>3, <4>4, <4>5
      <4>8. g[t] + (g[y] + r) = g[y] + (g[t] + r)
        BY <4>6
      <4> QED BY <4>7, <4>8
    <3> QED BY <3>4, <3>5
  <2> QED BY <2>1, <2>2
<1>8. Cardinality(S) \in N
  <2> HIDE DEF N
  <2> QED BY <1>5, <1>6, <1>7, Upwards
<1>9. f[S] = g[x] + f[S \ {x}]
  BY <1>8
<1> QED BY <1>1, <1>2, <1>9

\* The sum over nothing is 0.
LEMMA SumOfNone ==
  ASSUME NEW g
  PROVE  SumFunctionOnSet(g, {}) = 0
<1>1. \A x \in {} : g[x] \in Int
  OBVIOUS
<1>2. PICK f : IsSum(f, g, {}) /\ SumFunctionOnSet(g, {}) = f[{}]
  BY <1>1, FS_EmptySet, SumIs
<1>3. f[{}] = 0
  BY <1>2 DEF IsSum
<1> QED BY <1>2, <1>3

\* Sums are integers.
LEMMA SumType ==
  ASSUME NEW S, IsFiniteSet(S), NEW g, \A x \in S : g[x] \in Int
  PROVE  SumFunctionOnSet(g, S) \in Int
<1>1. CASE S = {}
  BY <1>1, SumOfNone
<1>2. CASE S # {}
  BY <1>2, SumWithout
<1> QED BY <1>1, <1>2

\* A member put into a sum.
LEMMA SumWith ==
  ASSUME NEW S, IsFiniteSet(S), NEW g, NEW x, x \notin S, \A y \in S \cup {x} : g[y] \in Int
  PROVE  SumFunctionOnSet(g, S \cup {x}) = g[x] + SumFunctionOnSet(g, S)
<1>1. IsFiniteSet(S \cup {x}) /\ (S \cup {x}) \ {x} = S
  BY FS_AddElement
<1> QED BY <1>1, SumWithout

\* The sum depends on the values on the set only.
LEMMA SumAgrees ==
  ASSUME NEW S, IsFiniteSet(S), NEW g, NEW h, \A x \in S : g[x] \in Int /\ h[x] = g[x]
  PROVE  SumFunctionOnSet(h, S) = SumFunctionOnSet(g, S)
<1>1. PICK e : IsSum(e, g, S) /\ SumFunctionOnSet(g, S) = e[S]
  BY SumIs
<1>2. PICK f : IsSum(f, h, S) /\ SumFunctionOnSet(h, S) = f[S]
  BY SumIs
<1>3. e[S] = f[S]
  BY <1>1, <1>2, SumsAgree
<1> QED BY <1>1, <1>2, <1>3

\* Two sums over different members.
LEMMA SumOfUnion ==
  ASSUME NEW S, IsFiniteSet(S), NEW T, IsFiniteSet(T), S \cap T = {},
         NEW g, \A x \in S \cup T : g[x] \in Int
  PROVE  SumFunctionOnSet(g, S \cup T) = SumFunctionOnSet(g, S) + SumFunctionOnSet(g, T)
<1> DEFINE F == {t \in SUBSET T : SumFunctionOnSet(g, S \cup t) = SumFunctionOnSet(g, S) + SumFunctionOnSet(g, t)}
<1>1. \A t \in SUBSET T : /\ IsFiniteSet(t) /\ IsFiniteSet(S \cup t)
                          /\ SumFunctionOnSet(g, t) \in Int
  <2> TAKE t \in SUBSET T
  <2>1. IsFiniteSet(t) /\ IsFiniteSet(S \cup t)
    BY FS_Subset, FS_Union
  <2> QED BY <2>1, SumType
<1>2. SumFunctionOnSet(g, S) \in Int
  BY SumType
<1>3. {} \in F
  <2>1. S \cup {} = S
    OBVIOUS
  <2> QED BY <1>2, <2>1, SumOfNone
<1>4. ASSUME NEW t \in F, NEW x \in T \ t PROVE t \cup {x} \in F
  <2>1. t \in SUBSET T /\ x \notin S /\ x \notin S \cup t /\ g[x] \in Int
    BY <1>4
  <2>2. SumFunctionOnSet(g, t \cup {x}) = g[x] + SumFunctionOnSet(g, t)
    BY <1>1, <2>1, SumWith
  <2>3. SumFunctionOnSet(g, (S \cup t) \cup {x}) = g[x] + SumFunctionOnSet(g, S \cup t)
    <3>1. \A y \in (S \cup t) \cup {x} : g[y] \in Int
      BY <2>1
    <3> QED BY <1>1, <2>1, <3>1, SumWith
  <2>4. (S \cup t) \cup {x} = S \cup (t \cup {x})
    OBVIOUS
  <2>5. SumFunctionOnSet(g, S \cup t) = SumFunctionOnSet(g, S) + SumFunctionOnSet(g, t)
    BY <1>4
  <2>6. SumFunctionOnSet(g, t) \in Int
    BY <1>1, <2>1
  <2>7. SumFunctionOnSet(g, S \cup (t \cup {x})) = SumFunctionOnSet(g, S) + SumFunctionOnSet(g, t \cup {x})
    <3>1. PICK a, b : a = SumFunctionOnSet(g, S) /\ b = SumFunctionOnSet(g, t)
      OBVIOUS
    <3>2. SumFunctionOnSet(g, S \cup (t \cup {x})) = g[x] + (a + b)
      BY <2>3, <2>4, <2>5, <3>1
    <3>3. a \in Int /\ b \in Int /\ g[x] \in Int
      BY <1>2, <2>1, <2>6, <3>1
    <3>4. g[x] + (a + b) = a + (g[x] + b)
      BY <3>3
    <3> QED BY <2>2, <3>1, <3>2, <3>4
  <2> QED BY <2>1, <2>7
<1>5. T \in F
  <2> HIDE DEF F
  <2> QED BY <1>3, <1>4, Gathering
<1> QED BY <1>5

\* What is summed is not negative, nor is the sum.
LEMMA SumOfNats ==
  ASSUME NEW S, IsFiniteSet(S), NEW g, \A x \in S : g[x] \in Nat
  PROVE  SumFunctionOnSet(g, S) \in Nat
<1> DEFINE F == {s \in SUBSET S : SumFunctionOnSet(g, s) \in Nat}
<1>1. {} \in F
  BY SumOfNone
<1>2. ASSUME NEW s \in F, NEW x \in S \ s PROVE s \cup {x} \in F
  <2>1. s \in SUBSET S /\ IsFiniteSet(s) /\ SumFunctionOnSet(g, s) \in Nat
    BY <1>2, FS_Subset
  <2>2. SumFunctionOnSet(g, s \cup {x}) = g[x] + SumFunctionOnSet(g, s)
    <3>1. \A y \in s \cup {x} : g[y] \in Int
      BY <2>1
    <3> QED BY <2>1, <3>1, SumWith
  <2> QED BY <2>1, <2>2
<1>3. S \in F
  <2> HIDE DEF F
  <2> QED BY <1>1, <1>2, Gathering
<1> QED BY <1>3

\* Larger values, larger sum.
LEMMA SumGrows ==
  ASSUME NEW S, IsFiniteSet(S), NEW g, NEW h,
         \A x \in S : g[x] \in Int /\ h[x] \in Int /\ g[x] <= h[x]
  PROVE  SumFunctionOnSet(g, S) <= SumFunctionOnSet(h, S)
<1> DEFINE F == {s \in SUBSET S : SumFunctionOnSet(g, s) <= SumFunctionOnSet(h, s)}
<1>1. {} \in F
  BY SumOfNone
<1>2. ASSUME NEW s \in F, NEW x \in S \ s PROVE s \cup {x} \in F
  <2>1. s \in SUBSET S /\ IsFiniteSet(s) /\ SumFunctionOnSet(g, s) <= SumFunctionOnSet(h, s)
    BY <1>2, FS_Subset
  <2>2. /\ SumFunctionOnSet(g, s \cup {x}) = g[x] + SumFunctionOnSet(g, s)
        /\ SumFunctionOnSet(h, s \cup {x}) = h[x] + SumFunctionOnSet(h, s)
    BY <2>1, SumWith
  <2>3. SumFunctionOnSet(g, s) \in Int /\ SumFunctionOnSet(h, s) \in Int
    BY <2>1, SumType
  <2> QED BY <2>1, <2>2, <2>3
<1>3. S \in F
  <2> HIDE DEF F
  <2> QED BY <1>1, <1>2, Gathering
<1> QED BY <1>3

\* The depth under a level: as many times the level as there are members, less the
\* sum.
LEMMA SumUnderLevel ==
  ASSUME NEW S, IsFiniteSet(S), NEW g, \A x \in S : g[x] \in Int, NEW k \in Int,
         NEW h, \A x \in S : h[x] = k - g[x]
  PROVE  SumFunctionOnSet(h, S) = Cardinality(S) * k - SumFunctionOnSet(g, S)
<1> DEFINE F == {s \in SUBSET S : SumFunctionOnSet(h, s) = Cardinality(s) * k - SumFunctionOnSet(g, s)}
<1>1. {} \in F
  <2>1. Cardinality({}) = 0 /\ 0 * k = 0
    BY FS_EmptySet
  <2> QED BY <2>1, SumOfNone
<1>2. ASSUME NEW s \in F, NEW x \in S \ s PROVE s \cup {x} \in F
  <2>1. /\ s \in SUBSET S /\ IsFiniteSet(s)
        /\ SumFunctionOnSet(h, s) = Cardinality(s) * k - SumFunctionOnSet(g, s)
    BY <1>2, FS_Subset
  <2>2. /\ SumFunctionOnSet(g, s \cup {x}) = g[x] + SumFunctionOnSet(g, s)
        /\ SumFunctionOnSet(h, s \cup {x}) = (k - g[x]) + SumFunctionOnSet(h, s)
    <3>1. \A y \in S : h[y] \in Int
      OBVIOUS
    <3> QED BY <2>1, <3>1, SumWith
  <2>3. SumFunctionOnSet(g, s) \in Int /\ Cardinality(s) \in Nat
    BY <2>1, SumType, FS_CardinalityType
  <2>4. Cardinality(s \cup {x}) = Cardinality(s) + 1
    BY <2>1, FS_AddElement
  <2>5. (Cardinality(s) + 1) * k = Cardinality(s) * k + k
    BY <2>3
  <2>6. PICK m : m = Cardinality(s) * k
    OBVIOUS
  <2>7. m \in Int
    BY <2>3, <2>6
  <2> QED BY <2>1, <2>2, <2>3, <2>4, <2>5, <2>6, <2>7
<1>3. S \in F
  <2> HIDE DEF F
  <2> QED BY <1>1, <1>2, Gathering
<1> QED BY <1>3

\* Nothing added up is nothing.
LEMMA SumOfZeros ==
  ASSUME NEW S, IsFiniteSet(S), NEW g, \A x \in S : g[x] = 0
  PROVE  SumFunctionOnSet(g, S) = 0
<1> DEFINE F == {s \in SUBSET S : SumFunctionOnSet(g, s) = 0}
<1>1. {} \in F
  BY SumOfNone
<1>2. ASSUME NEW s \in F, NEW x \in S \ s PROVE s \cup {x} \in F
  <2>1. s \in SUBSET S /\ IsFiniteSet(s) /\ SumFunctionOnSet(g, s) = 0
    BY <1>2, FS_Subset
  <2>2. SumFunctionOnSet(g, s \cup {x}) = g[x] + SumFunctionOnSet(g, s)
    <3>1. \A y \in s \cup {x} : g[y] \in Int
      BY <2>1
    <3> QED BY <2>1, <3>1, SumWith
  <2> QED BY <2>1, <2>2
<1>3. S \in F
  <2> HIDE DEF F
  <2> QED BY <1>1, <1>2, Gathering
<1> QED BY <1>3

\* One value changed.
LEMMA SumChanged ==
  ASSUME NEW S, IsFiniteSet(S), NEW g, \A y \in S : g[y] \in Int, NEW x \in S, NEW k \in Int,
         NEW h, h[x] = g[x] + k, \A y \in S \ {x} : h[y] = g[y]
  PROVE  SumFunctionOnSet(h, S) = SumFunctionOnSet(g, S) + k
<1>1. \A y \in S : h[y] \in Int
  <2> TAKE y \in S
  <2>1. CASE y = x
    BY <2>1
  <2>2. CASE y # x
    BY <2>2
  <2> QED BY <2>1, <2>2
<1>2. IsFiniteSet(S \ {x})
  BY FS_RemoveElement
<1>3. /\ SumFunctionOnSet(h, S) = h[x] + SumFunctionOnSet(h, S \ {x})
      /\ SumFunctionOnSet(g, S) = g[x] + SumFunctionOnSet(g, S \ {x})
  BY <1>1, SumWithout
<1>4. SumFunctionOnSet(h, S \ {x}) = SumFunctionOnSet(g, S \ {x})
  BY <1>2, SumAgrees
<1>5. SumFunctionOnSet(g, S \ {x}) \in Int /\ g[x] \in Int
  BY <1>2, SumType
<1> QED BY <1>3, <1>4, <1>5

-----------------------------------------------------------------------------
\* A sequence, whatever is in it.
IsQueue(q) == q \in Seq(Range(q))

\* The length and the members of a queue.
LEMMA QueueIs ==
  ASSUME NEW q, IsQueue(q)
  PROVE  /\ Len(q) \in Nat /\ DOMAIN q = 1 .. Len(q)
         /\ q # <<>> <=> Len(q) >= 1
         /\ q # <<>> => 1 \in DOMAIN q
<1>1. PICK S : q \in Seq(S)
  BY DEF IsQueue
<1> QED BY <1>1

\* Nothing is a queue, and so is one message.
LEMMA NoneWaits == IsQueue(<<>>) /\ Len(<<>>) = 0
BY DEF IsQueue

\* A queue with a message more.
LEMMA Appended ==
  ASSUME NEW q, IsQueue(q), NEW v
  PROVE  /\ IsQueue(Append(q, v)) /\ Append(q, v) # <<>>
         /\ Len(Append(q, v)) = Len(q) + 1
         /\ \A i \in 1 .. Len(q) : Append(q, v)[i] = q[i]
         /\ Append(q, v)[Len(q) + 1] = v
<1> DEFINE S == Range(q) \cup {v}
           a == Append(q, v)
<1>1. q \in Seq(S) /\ v \in S
  <2>1. q \in Seq(Range(q))
    BY DEF IsQueue
  <2>2. Len(q) \in Nat /\ DOMAIN q = 1 .. Len(q) /\ \A i \in 1 .. Len(q) : q[i] \in S
    BY <2>1
  <2> HIDE DEF S
  <2>3. q = [i \in 1 .. Len(q) |-> q[i]]
    BY <2>1
  <2>4. q \in Seq(S)
    BY <2>2, <2>3
  <2> QED BY <2>4 DEF S
<1> HIDE DEF S
<1>2. /\ a \in Seq(S) /\ Len(a) = Len(q) + 1 /\ DOMAIN a = 1 .. Len(q) + 1
      /\ \A i \in 1 .. Len(q) : a[i] = q[i]
      /\ a[Len(q) + 1] = v /\ Len(q) \in Nat /\ DOMAIN q = 1 .. Len(q)
  BY <1>1
<1>3. a \in Seq(Range(a))
  <2> HIDE DEF a
  <2>1. \A i \in 1 .. Len(a) : a[i] \in Range(a)
    BY <1>2 DEF Range
  <2>2. a = [i \in 1 .. Len(a) |-> a[i]] /\ Len(a) \in Nat
    BY <1>2
  <2> QED BY <2>1, <2>2
<1>4. a # <<>>
  BY <1>2
<1> QED BY <1>2, <1>3, <1>4 DEF IsQueue

\* A queue without its first message.
LEMMA TailIs ==
  ASSUME NEW q, IsQueue(q), q # <<>>
  PROVE  /\ IsQueue(Tail(q)) /\ Len(Tail(q)) = Len(q) - 1
         /\ \A i \in 1 .. Len(q) - 1 : Tail(q)[i] = q[i + 1]
<1> DEFINE a == Tail(q)
<1>1. q \in Seq(Range(q))
  BY DEF IsQueue
<1>2. /\ a \in Seq(Range(q)) /\ Len(a) = Len(q) - 1 /\ Len(q) \in Nat /\ DOMAIN a = 1 .. Len(q) - 1
      /\ \A i \in 1 .. Len(q) - 1 : a[i] = q[i + 1]
  BY <1>1
<1>3. a \in Seq(Range(a))
  <2> HIDE DEF a
  <2>1. \A i \in 1 .. Len(a) : a[i] \in Range(a)
    BY <1>2 DEF Range
  <2>2. a = [i \in 1 .. Len(a) |-> a[i]] /\ Len(a) \in Nat
    BY <1>2
  <2> QED BY <2>1, <2>2
<1> QED BY <1>2, <1>3 DEF IsQueue

\* A queue of one message.
LEMMA OneMessage ==
  ASSUME NEW v
  PROVE  /\ IsQueue(<<v>>) /\ <<v>> # <<>> /\ Append(<<>>, v) = <<v>> /\ Tail(<<v>>) = <<>>
         /\ Head(<<v>>) = v
<1>1. Append(<<>>, v) = <<v>> /\ Tail(<<v>>) = <<>> /\ Head(<<v>>) = v
  OBVIOUS
<1>2. \A q : IsQueue(q) => IsQueue(Append(q, v)) /\ Append(q, v) # <<>>
  BY Appended
<1>3. IsQueue(Append(<<>>, v)) /\ Append(<<>>, v) # <<>>
  BY <1>2, NoneWaits
<1> QED BY <1>1, <1>3

-----------------------------------------------------------------------------
\* A queue for every key that has messages, and none for the others.
IsMail(mail) ==
  mail = [k \in DOMAIN mail |-> mail[k]] /\ \A k \in DOMAIN mail : mail[k] # <<>> /\ IsQueue(mail[k])

\* What is waiting is a queue; it is what First and Has look at.
LEMMA WaitingIs ==
  ASSUME NEW mail, IsMail(mail), NEW key
  PROVE  /\ IsQueue(Waiting(mail, key))
         /\ key \in DOMAIN mail <=> Waiting(mail, key) # <<>>
         /\ key \in DOMAIN mail => First(mail, key) = Waiting(mail, key)[1]
<1>1. CASE key \in DOMAIN mail
  <2>1. Waiting(mail, key) = mail[key] /\ mail[key] # <<>> /\ IsQueue(mail[key])
    BY <1>1 DEF Waiting, IsMail
  <2>2. Head(mail[key]) = mail[key][1]
    BY <2>1 DEF IsQueue
  <2> QED BY <1>1, <2>1, <2>2 DEF First
<1>2. CASE key \notin DOMAIN mail
  BY <1>2, NoneWaits DEF Waiting
<1> QED BY <1>1, <1>2

\* What is waiting after sends.
LEMMA SentIs ==
  ASSUME NEW mail, IsMail(mail), NEW msgs
  PROVE  /\ IsMail(Sent(mail, msgs)) /\ DOMAIN Sent(mail, msgs) = DOMAIN mail \cup DOMAIN msgs
         /\ \A key : Waiting(Sent(mail, msgs), key) =
                       IF key \in DOMAIN msgs THEN Append(Waiting(mail, key), msgs[key]) ELSE Waiting(mail, key)
<1> DEFINE new == Sent(mail, msgs)
<1>1. DOMAIN new = DOMAIN mail \cup DOMAIN msgs
  BY DEF Sent
<1>2. \A k \in DOMAIN new : new[k] = IF k \in DOMAIN msgs THEN Append(Waiting(mail, k), msgs[k]) ELSE mail[k]
  BY DEF Sent
<1>3. new = [k \in DOMAIN new |-> new[k]]
  BY DEF Sent
<1> HIDE DEF new
<1>4. ASSUME NEW k \in DOMAIN new PROVE new[k] # <<>> /\ IsQueue(new[k])
  <2>1. CASE k \in DOMAIN msgs
    <3>1. IsQueue(Waiting(mail, k))
      BY WaitingIs
    <3>2. PICK q, v : q = Waiting(mail, k) /\ v = msgs[k]
      OBVIOUS
    <3>3. new[k] = Append(q, v)
      BY <1>2, <2>1, <3>2
    <3>4. IsQueue(Append(q, v)) /\ Append(q, v) # <<>>
      BY <3>1, <3>2, Appended
    <3> QED BY <3>3, <3>4
  <2>2. CASE k \notin DOMAIN msgs
    BY <1>1, <1>2, <2>2 DEF IsMail
  <2> QED BY <2>1, <2>2
<1>5. ASSUME NEW key
      PROVE  Waiting(new, key) = IF key \in DOMAIN msgs THEN Append(Waiting(mail, key), msgs[key])
                                 ELSE Waiting(mail, key)
  BY <1>1, <1>2 DEF Waiting
<1>6. IsMail(new)
  BY <1>3, <1>4 DEF IsMail
<1> QED BY <1>1, <1>5, <1>6 DEF new

\* What is waiting after receives.
LEMMA ReceiveIs ==
  ASSUME NEW mail, IsMail(mail), NEW keys, Has(mail, keys)
  PROVE  /\ IsMail(Receive(mail, keys)) /\ DOMAIN Receive(mail, keys) \subseteq DOMAIN mail
         /\ \A key : Waiting(Receive(mail, keys), key) =
                       IF key \in keys THEN Tail(Waiting(mail, key)) ELSE Waiting(mail, key)
<1> DEFINE left == [key \in DOMAIN mail |-> IF key \in keys THEN Tail(mail[key]) ELSE mail[key]]
           kept == {key \in DOMAIN left : left[key] # <<>>}
           new == [key \in kept |-> left[key]]
<1>1. Receive(mail, keys) = new
  BY DEF Receive, Restrict
<1>2. ASSUME NEW k \in DOMAIN mail
      PROVE  IsQueue(left[k]) /\ left[k] = IF k \in keys THEN Tail(mail[k]) ELSE mail[k]
  <2>1. mail[k] # <<>> /\ IsQueue(mail[k])
    BY DEF IsMail
  <2> QED BY <2>1, TailIs
<1>3. DOMAIN left = DOMAIN mail
  OBVIOUS
<1> HIDE DEF left
<1>4. IsMail(new)
  BY <1>2, <1>3 DEF IsMail
<1>5. ASSUME NEW key
      PROVE  Waiting(new, key) = IF key \in keys THEN Tail(Waiting(mail, key)) ELSE Waiting(mail, key)
  <2>1. CASE key \in DOMAIN mail
    <3>1. Waiting(new, key) = left[key]
      BY <1>2, <1>3, <2>1 DEF Waiting
    <3>2. Waiting(mail, key) = mail[key]
      BY <2>1 DEF Waiting
    <3> HIDE DEF new
    <3> QED BY <1>2, <2>1, <3>1, <3>2
  <2>2. CASE key \notin DOMAIN mail
    <3>1. key \notin keys
      BY <2>2 DEF Has
    <3> QED BY <1>3, <2>2, <3>1 DEF Waiting
  <2> QED BY <2>1, <2>2
<1> QED BY <1>1, <1>3, <1>4, <1>5
=============================================================================
