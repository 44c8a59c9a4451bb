---------------------------- MODULE BackendsProofs ----------------------------
(***************************************************************************)
(* Whichever backend it is, no message is lost or doubled, and an inbox    *)
(* shared by all senders and tags, or probing before receiving, is as good *)
(* as a channel of its own for every sender, receiver and tag.             *)
(***************************************************************************)
EXTENDS MCBackends, CommBarrier, DataLemmas, SequenceTheorems

\* A queue without its i-th entry.
IsWithout(q, s, i, S) ==
  /\ s \in Seq(S) /\ Len(s) = Len(q) - 1
  /\ \A j \in 1 .. Len(q) - 1 : s[j] = IF j < i THEN q[j] ELSE q[j + 1]

\* vector::erase, and taking the front.
LEMMA RemoveAtIs ==
  ASSUME NEW S, NEW q \in Seq(S), NEW i \in 1 .. Len(q)
  PROVE  IsWithout(q, RemoveAt(q, i), i, S)
<1>1. PICK a, b : a = SubSeq(q, 1, i - 1) /\ b = SubSeq(q, i + 1, Len(q))
  OBVIOUS
<1>2. a \in Seq(S) /\ Len(a) = i - 1 /\ \A j \in 1 .. i - 1 : a[j] = q[j]
  BY <1>1
<1>3. b \in Seq(S) /\ Len(b) = Len(q) - i /\ \A j \in 1 .. Len(q) - i : b[j] = q[j + i]
  BY <1>1
<1>4. RemoveAt(q, i) = a \o b
  BY <1>1 DEF RemoveAt
<1>5. /\ a \o b \in Seq(S) /\ Len(a \o b) = Len(q) - 1
      /\ \A j \in 1 .. Len(q) - 1 : (a \o b)[j] = IF j <= i - 1 THEN a[j] ELSE b[j - (i - 1)]
  <2>1. /\ a \o b \in Seq(S) /\ Len(a \o b) = Len(a) + Len(b)
        /\ \A j \in 1 .. Len(a) + Len(b) : (a \o b)[j] = IF j <= Len(a) THEN a[j] ELSE b[j - Len(a)]
    BY <1>2, <1>3, ConcatProperties
  <2>2. Len(a) = i - 1 /\ Len(a) + Len(b) = Len(q) - 1
    BY <1>2, <1>3
  <2> QED BY <2>1, <2>2
<1>6. ASSUME NEW j \in 1 .. Len(q) - 1 PROVE (a \o b)[j] = IF j < i THEN q[j] ELSE q[j + 1]
  <2>1. CASE j < i
    <3>1. j \in 1 .. i - 1
      BY <2>1
    <3> QED BY <1>2, <1>5, <2>1, <3>1
  <2>2. CASE ~ (j < i)
    <3>1. j - (i - 1) \in 1 .. Len(q) - i /\ (j - (i - 1)) + i = j + 1
      BY <2>2
    <3> QED BY <1>3, <1>5, <2>2, <3>1
  <2> QED BY <2>1, <2>2
<1> QED BY <1>4, <1>5, <1>6 DEF IsWithout

\* The same of Tail.
LEMMA RestIs ==
  ASSUME NEW S, NEW q \in Seq(S), q # <<>>
  PROVE  IsWithout(q, Tail(q), 1, S) /\ Head(q) = q[1] /\ 1 \in 1 .. Len(q)
BY DEF IsWithout

-----------------------------------------------------------------------------
\* Queues F over K of entries in S, each with a value: no value is in two places, and
\* the values that the senders have used up so far are in a queue or received.
Holds(F, K, val, p) == \E k \in K : \E i \in DOMAIN F[k] : val[F[k][i]] = p

IsKept(F, K, S, val, P, snt, rec) ==
  /\ F \in [K -> Seq(S)]
  /\ \A k, l \in K : \A i \in DOMAIN F[k], j \in DOMAIN F[l] :
       val[F[k][i]] = val[F[l][j]] => k = l /\ i = j
  /\ \A p \in P : p[2] <= snt[p[1]] <=> p \in rec \/ Holds(F, K, val, p)
  /\ \A p \in rec : p \in P /\ ~ Holds(F, K, val, p)

\* A send puts b at the end of queue h, and counts for sender r.
IsSent(C, D, h, b) == D = [C EXCEPT ![h] = Append(@, b)]

IsCounted(snt, t, r) == t = [snt EXCEPT ![r] = @ + 1]

\* Payloads are told apart by sender and number.
IsPayloads(P, R, N) == P = R \X (1 .. N)

\* One send: a new value m of sender r at the end of queue d.
SendsOne(F, G, K, S, val, P, snt, t, rec, N, R, r, d, m) ==
  /\ IsPayloads(P, R, N) /\ val \in [S -> P] /\ snt \in [R -> 0 .. N]
  /\ IsKept(F, K, S, val, P, snt, rec)
  /\ r \in R /\ snt[r] < N /\ d \in K /\ m \in S /\ val[m] = <<r, snt[r] + 1>>
  /\ IsSent(F, G, d, m) /\ IsCounted(snt, t, r)

\* A message that is sent is a new one, so nothing is doubled.
LEMMA KeptBySend ==
  ASSUME NEW N \in Nat, NEW R, NEW P, NEW K, NEW S, NEW val, NEW snt, NEW t, NEW rec,
         NEW F, NEW G, NEW r, NEW d, NEW m, SendsOne(F, G, K, S, val, P, snt, t, rec, N, R, r, d, m)
  PROVE  IsKept(G, K, S, val, P, t, rec) /\ t \in [R -> 0 .. N]
<1>0. /\ IsPayloads(P, R, N) /\ val \in [S -> P] /\ snt \in [R -> 0 .. N]
      /\ IsKept(F, K, S, val, P, snt, rec)
      /\ r \in R /\ snt[r] < N /\ d \in K /\ m \in S /\ val[m] = <<r, snt[r] + 1>>
      /\ IsSent(F, G, d, m) /\ IsCounted(snt, t, r)
  BY DEF SendsOne
<1> USE <1>0
<1>1. PICK b : b = <<r, snt[r] + 1>>
  OBVIOUS
<1>2. b \in P /\ b[1] = r /\ b[2] = snt[r] + 1 /\ snt[r] \in Nat
  BY <1>1 DEF IsPayloads
<1>3. ~ (b[2] <= snt[b[1]])
  BY <1>2
<1>4. b \notin rec /\ ~ Holds(F, K, val, b)
  BY <1>2, <1>3 DEF IsKept
<1>5. F \in [K -> Seq(S)]
  BY DEF IsKept
<1>6. G \in [K -> Seq(S)]
  BY <1>5 DEF IsSent
<1>7. /\ \A k \in K \ {d} : G[k] = F[k]
      /\ Len(F[d]) \in Nat
      /\ DOMAIN F[d] = 1 .. Len(F[d]) /\ DOMAIN G[d] = 1 .. Len(F[d]) + 1
      /\ \A i \in 1 .. Len(F[d]) : G[d][i] = F[d][i]
      /\ val[G[d][Len(F[d]) + 1]] = b
  BY <1>1, <1>5 DEF IsSent
<1>8. ASSUME NEW p PROVE Holds(G, K, val, p) <=> p = b \/ Holds(F, K, val, p)
  <2>1. ASSUME NEW k \in K, NEW i \in DOMAIN G[k], val[G[k][i]] = p
        PROVE  p = b \/ Holds(F, K, val, p)
    <3>1. CASE k = d /\ i = Len(F[d]) + 1
      BY <1>7, <2>1, <3>1
    <3>2. CASE ~ (k = d /\ i = Len(F[d]) + 1)
      <4>1. i \in DOMAIN F[k] /\ G[k][i] = F[k][i]
        BY <1>7, <2>1, <3>2 DEF IsSent
      <4> QED BY <2>1, <4>1 DEF Holds
    <3> QED BY <3>1, <3>2
  <2>2. Holds(G, K, val, b)
    <3>1. Len(F[d]) + 1 \in DOMAIN G[d]
      BY <1>7
    <3> QED BY <1>7, <3>1 DEF Holds
  <2>3. ASSUME NEW k \in K, NEW i \in DOMAIN F[k], val[F[k][i]] = p
        PROVE  Holds(G, K, val, p)
    <3>1. i \in DOMAIN G[k] /\ G[k][i] = F[k][i]
      BY <1>7, <2>3 DEF IsSent
    <3> QED BY <2>3, <3>1 DEF Holds
  <2> QED BY <2>1, <2>2, <2>3 DEF Holds
<1>9. ASSUME NEW k \in K, NEW l \in K, NEW i \in DOMAIN G[k], NEW j \in DOMAIN G[l],
             val[G[k][i]] = val[G[l][j]]
      PROVE  k = l /\ i = j
  <2>1. \A h \in K : \A n \in DOMAIN G[h] :
          \/ h = d /\ n = Len(F[d]) + 1 /\ val[G[h][n]] = b
          \/ n \in DOMAIN F[h] /\ G[h][n] = F[h][n] /\ val[G[h][n]] # b
    <3> SUFFICES ASSUME NEW h \in K, NEW n \in DOMAIN G[h], ~ (h = d /\ n = Len(F[d]) + 1)
                 PROVE  n \in DOMAIN F[h] /\ G[h][n] = F[h][n] /\ val[G[h][n]] # b
      BY <1>7
    <3>1. n \in DOMAIN F[h] /\ G[h][n] = F[h][n]
      BY <1>7 DEF IsSent
    <3> QED BY <1>4, <3>1 DEF Holds
  <2>2. \/ k = d /\ i = Len(F[d]) + 1 /\ val[G[k][i]] = b
        \/ i \in DOMAIN F[k] /\ G[k][i] = F[k][i] /\ val[G[k][i]] # b
    BY <2>1
  <2>3. \/ l = d /\ j = Len(F[d]) + 1 /\ val[G[l][j]] = b
        \/ j \in DOMAIN F[l] /\ G[l][j] = F[l][j] /\ val[G[l][j]] # b
    BY <2>1
  <2>4. CASE val[G[k][i]] = b
    BY <1>9, <2>2, <2>3, <2>4
  <2>5. CASE val[G[k][i]] # b
    <3>1. /\ i \in DOMAIN F[k] /\ j \in DOMAIN F[l]
          /\ val[F[k][i]] = val[F[l][j]]
      BY <1>9, <2>2, <2>3, <2>5
    <3> QED BY <3>1 DEF IsKept
  <2> QED BY <2>4, <2>5
<1>10. t \in [R -> 0 .. N]
  BY <1>2 DEF IsCounted
<1>11. ASSUME NEW p \in P PROVE p[2] <= t[p[1]] <=> p \in rec \/ Holds(G, K, val, p)
  <2>1. p[1] \in R /\ p[2] \in 1 .. N /\ p = <<p[1], p[2]>>
    BY DEF IsPayloads
  <2>2. p[2] <= snt[p[1]] <=> p \in rec \/ Holds(F, K, val, p)
    BY DEF IsKept
  <2>3. p[2] <= t[p[1]] <=> p = b \/ p[2] <= snt[p[1]]
    <3>1. CASE p[1] = r
      <4>1. t[p[1]] = snt[r] + 1
        BY <3>1 DEF IsCounted
      <4> QED BY <1>1, <1>2, <2>1, <3>1, <4>1
    <3>2. CASE p[1] # r
      BY <1>2, <2>1, <3>2 DEF IsCounted
    <3> QED BY <3>1, <3>2
  <2> QED BY <1>8, <2>2, <2>3
<1>12. \A p \in rec : p \in P /\ ~ Holds(G, K, val, p)
  BY <1>4, <1>8 DEF IsKept
<1> QED BY <1>6, <1>9, <1>10, <1>11, <1>12 DEF IsKept

\* Queue h becomes s, and m counts as received.
IsPut(F, G, h, s) == G = [F EXCEPT ![h] = s]

IsReceived(rec, t, val, m) == t = rec \cup {val[m]}

\* A message that is taken was there, and nowhere else.
LEMMA KeptByTake ==
  ASSUME NEW P, NEW K, NEW S, NEW val \in [S -> P], NEW snt, NEW rec,
         NEW F, IsKept(F, K, S, val, P, snt, rec),
         NEW d \in K, NEW i \in 1 .. Len(F[d]), NEW s, IsWithout(F[d], s, i, S),
         NEW G, IsPut(F, G, d, s),
         NEW t, IsReceived(rec, t, val, F[d][i])
  PROVE  IsKept(G, K, S, val, P, snt, t)
<1>1. F \in [K -> Seq(S)] /\ F[d] \in Seq(S) /\ Len(F[d]) \in Nat /\ F[d][i] \in S
  BY DEF IsKept
<1>2. PICK b : b = val[F[d][i]]
  OBVIOUS
<1>3. b \in P /\ Holds(F, K, val, b)
  BY <1>1, <1>2 DEF Holds
<1> DEFINE was(j) == IF j < i THEN j ELSE j + 1
<1>4. G \in [K -> Seq(S)] /\ G[d] = s /\ \A k \in K \ {d} : G[k] = F[k]
  BY <1>1 DEF IsWithout, IsPut
<1>5. DOMAIN s = 1 .. Len(F[d]) - 1 /\ DOMAIN F[d] = 1 .. Len(F[d])
  BY <1>1 DEF IsWithout
<1>6. \A j \in DOMAIN s : was(j) \in DOMAIN F[d] /\ was(j) # i /\ s[j] = F[d][was(j)]
  <2> SUFFICES ASSUME NEW j \in 1 .. Len(F[d]) - 1
               PROVE  was(j) \in 1 .. Len(F[d]) /\ was(j) # i /\ s[j] = F[d][was(j)]
    BY <1>5
  <2>1. s[j] = F[d][was(j)]
    BY DEF IsWithout
  <2>2. j \in Nat /\ i \in Nat
    BY <1>1
  <2> QED BY <1>1, <2>1, <2>2
<1>7. \A j \in DOMAIN F[d] : j # i => \E n \in DOMAIN s : was(n) = j /\ s[n] = F[d][j]
  <2> SUFFICES ASSUME NEW j \in DOMAIN F[d], j # i
               PROVE  \E n \in DOMAIN s : was(n) = j /\ s[n] = F[d][j]
    OBVIOUS
  <2>1. CASE j < i
    <3>1. j \in DOMAIN s /\ was(j) = j
      BY <1>1, <1>5, <2>1
    <3> QED BY <1>6, <3>1
  <2>2. CASE ~ (j < i)
    <3>1. j - 1 \in DOMAIN s /\ was(j - 1) = j
      BY <1>1, <1>5, <2>2
    <3> QED BY <1>6, <3>1
  <2> QED BY <2>1, <2>2
<1>8. \A n, j \in DOMAIN s : was(n) = was(j) => n = j
  BY <1>1, <1>5
<1> HIDE DEF was
<1>9. ASSUME NEW p PROVE Holds(G, K, val, p) <=> p # b /\ Holds(F, K, val, p)
  <2>1. ASSUME NEW k \in K, NEW j \in DOMAIN G[k], val[G[k][j]] = p
        PROVE  p # b /\ Holds(F, K, val, p)
    <3>1. \E n \in DOMAIN F[k] : G[k][j] = F[k][n] /\ ~ (k = d /\ n = i)
      BY <1>4, <1>6, <2>1
    <3>2. PICK n \in DOMAIN F[k] : G[k][j] = F[k][n] /\ ~ (k = d /\ n = i)
      BY <3>1
    <3>3. ASSUME p = b PROVE FALSE
      <4>1. val[F[k][n]] = val[F[d][i]] /\ i \in DOMAIN F[d]
        BY <1>2, <1>5, <2>1, <3>2, <3>3
      <4>2. k = d /\ n = i
        BY <4>1 DEF IsKept
      <4> QED BY <3>2, <4>2
    <3> QED BY <2>1, <3>2, <3>3 DEF Holds
  <2>2. ASSUME NEW k \in K, NEW j \in DOMAIN F[k], val[F[k][j]] = p, p # b
        PROVE  Holds(G, K, val, p)
    <3>1. CASE k = d
      <4>1. j # i
        BY <1>2, <2>2, <3>1
      <4> QED BY <1>4, <1>7, <2>2, <3>1, <4>1 DEF Holds
    <3>2. CASE k # d
      BY <1>4, <2>2, <3>2 DEF Holds
    <3> QED BY <3>1, <3>2
  <2> QED BY <2>1, <2>2 DEF Holds
<1>10. ASSUME NEW k \in K, NEW l \in K, NEW n \in DOMAIN G[k], NEW j \in DOMAIN G[l],
              val[G[k][n]] = val[G[l][j]]
       PROVE  k = l /\ n = j
  <2>1. CASE k = d /\ l = d
    <3>1. was(n) = was(j)
      BY <1>4, <1>6, <1>10, <2>1 DEF IsKept
    <3> QED BY <1>4, <1>8, <2>1, <3>1
  <2>2. CASE k # d /\ l # d
    BY <1>4, <1>10, <2>2 DEF IsKept
  <2>3. CASE k = d /\ l # d
    BY <1>4, <1>6, <1>10, <2>3 DEF IsKept
  <2>4. CASE k # d /\ l = d
    BY <1>4, <1>6, <1>10, <2>4 DEF IsKept
  <2> QED BY <2>1, <2>2, <2>3, <2>4
<1>11. ASSUME NEW p \in P PROVE p[2] <= snt[p[1]] <=> p \in t \/ Holds(G, K, val, p)
  <2>1. p[2] <= snt[p[1]] <=> p \in rec \/ Holds(F, K, val, p)
    BY DEF IsKept
  <2> QED BY <1>2, <1>3, <1>9, <2>1 DEF IsReceived
<1>12. \A p \in t : p \in P /\ ~ Holds(G, K, val, p)
  BY <1>2, <1>3, <1>9 DEF IsKept, IsReceived
<1> QED BY <1>4, <1>10, <1>11, <1>12 DEF IsKept

-----------------------------------------------------------------------------
\* What of a queue goes to a receiver, entry by entry: the function that Gathered
\* defines.
Fits(m, f, t) == m.from = f /\ m.tag = t

IsGathering(u, q, f, t) ==
  u = [n \in 0 .. Len(q) |-> IF n = 0 THEN <<>>
                             ELSE IF q[n].from = f /\ q[n].tag = t THEN Append(u[n - 1], q[n].bytes)
                             ELSE u[n - 1]]

\* It exists.
LEMMA GatheringExists ==
  ASSUME NEW V, NEW q, Len(q) \in Nat, \A n \in 1 .. Len(q) : q[n].bytes \in V, NEW f, NEW t
  PROVE  \E u : IsGathering(u, q, f, t)
<1> DEFINE N == Len(q)
           Op == [a \in (1 .. N) \X Seq(V) |->
                    IF q[a[1]].from = f /\ q[a[1]].tag = t THEN Append(a[2], q[a[1]].bytes) ELSE a[2]]
<1>1. Op \in [(1 .. N) \X Seq(V) -> Seq(V)] /\ <<>> \in Seq(V)
  OBVIOUS
<1>2. PICK F : IsFold(F, N, Seq(V), <<>>, Op)
  <2> HIDE DEF Op
  <2> QED BY <1>1, FoldExists
<1>3. /\ F \in [SUBSET (1 .. N) -> Seq(V)]
      /\ \A S \in SUBSET (1 .. N) : F[S] = IF S = {} THEN <<>> ELSE Op[<<Max(S), F[S \ {Max(S)}]>>]
  <2> HIDE DEF Op
  <2> QED BY <1>2 DEF IsFold
<1> DEFINE u == [n \in 0 .. N |-> F[1 .. n]]
<1>4. u[0] = <<>>
  <2>1. 1 .. 0 = {} /\ 0 \in 0 .. N
    OBVIOUS
  <2>2. F[{}] = <<>>
    BY <1>3
  <2> QED BY <2>1, <2>2
<1>5. ASSUME NEW n \in 1 .. N
      PROVE  u[n] = IF q[n].from = f /\ q[n].tag = t THEN Append(u[n - 1], q[n].bytes) ELSE u[n - 1]
  <2>1. 1 .. n # {} /\ Max(1 .. n) = n /\ (1 .. n) \ {n} = 1 .. n - 1
    BY Prefix
  <2>2. 1 .. n \in SUBSET (1 .. N) /\ 1 .. n - 1 \in SUBSET (1 .. N) /\ n \in 0 .. N /\ n - 1 \in 0 .. N
    OBVIOUS
  <2>3. F[1 .. n] = Op[<<n, F[1 .. n - 1]>>]
    <3> HIDE DEF Op
    <3> QED BY <1>3, <2>1, <2>2
  <2>4. F[1 .. n - 1] \in Seq(V)
    BY <1>3, <2>2
  <2> QED BY <2>2, <2>3, <2>4
<1>6. u = [n \in 0 .. N |-> IF n = 0 THEN <<>>
                            ELSE IF q[n].from = f /\ q[n].tag = t THEN Append(u[n - 1], q[n].bytes)
                            ELSE u[n - 1]]
  <2>1. \A n \in 0 .. N : n = 0 \/ n \in 1 .. N
    OBVIOUS
  <2>2. u = [n \in 0 .. N |-> u[n]]
    OBVIOUS
  <2> HIDE DEF u
  <2> QED BY <1>4, <1>5, <2>1, <2>2
<1> HIDE DEF u
<1> QED BY <1>6 DEF IsGathering

\* The values of a gathering, one by one.
LEMMA GatheringSteps ==
  ASSUME NEW q, Len(q) \in Nat, NEW f, NEW t, NEW u, IsGathering(u, q, f, t)
  PROVE  /\ u[0] = <<>>
         /\ \A n \in 1 .. Len(q) : u[n] = IF Fits(q[n], f, t) THEN Append(u[n - 1], q[n].bytes)
                                          ELSE u[n - 1]
<1>1. \A n \in 0 .. Len(q) : u[n] = IF n = 0 THEN <<>>
                                    ELSE IF q[n].from = f /\ q[n].tag = t THEN Append(u[n - 1], q[n].bytes)
                                    ELSE u[n - 1]
  BY Zenon DEF IsGathering
<1>2. ASSUME NEW n \in 1 .. Len(q)
      PROVE  u[n] = IF Fits(q[n], f, t) THEN Append(u[n - 1], q[n].bytes) ELSE u[n - 1]
  <2>1. n \in 0 .. Len(q) /\ n # 0
    OBVIOUS
  <2> QED BY <1>1, <2>1, Zenon DEF Fits
<1>3. 0 \in 0 .. Len(q)
  OBVIOUS
<1>4. u[0] = <<>>
  BY <1>1, <1>3, Zenon
<1> QED BY <1>2, <1>4

\* Gathered takes its last value, and all its values are sequences.
Carries(q, V) == Len(q) \in Nat /\ \A n \in 1 .. Len(q) : q[n].bytes \in V

IsGathered(u, q, f, t, V) ==
  /\ IsGathering(u, q, f, t) /\ Threads!Gathered(q, f, t) = u[Len(q)]
  /\ \A n \in 0 .. Len(q) : u[n] \in Seq(V)

LEMMA GatheredIs ==
  ASSUME NEW V, NEW q, Carries(q, V), NEW f, NEW t
  PROVE  \E u : IsGathered(u, q, f, t, V)
<1>0. Len(q) \in Nat /\ \A n \in 1 .. Len(q) : q[n].bytes \in V
  BY DEF Carries
<1>1. \E u : u = [n \in 0 .. Len(q) |-> IF n = 0 THEN <<>>
                             ELSE IF q[n].from = f /\ q[n].tag = t THEN Append(u[n - 1], q[n].bytes)
                             ELSE u[n - 1]]
  <2>1. \E u : IsGathering(u, q, f, t)
    BY <1>0, GatheringExists
  <2> QED BY <2>1, Zenon DEF IsGathering
<1>2. PICK u : IsGathering(u, q, f, t) /\ Threads!Gathered(q, f, t) = u[Len(q)]
  BY <1>1 DEF Threads!Gathered, IsGathering
<1> DEFINE T == {n \in 0 .. Len(q) : u[n] \in Seq(V)}
<1>3. 0 \in T
  <2>1. u[0] = <<>> /\ 0 \in 0 .. Len(q)
    BY <1>0, <1>2, GatheringSteps
  <2>2. <<>> \in Seq(V)
    OBVIOUS
  <2> QED BY <2>1, <2>2, Zenon
<1>4. ASSUME NEW n \in 0 .. Len(q) - 1, n \in T PROVE n + 1 \in T
  <2>1. n + 1 \in 1 .. Len(q) /\ n + 1 \in 0 .. Len(q) /\ (n + 1) - 1 = n
    BY <1>0
  <2>2. u[n + 1] = IF Fits(q[n + 1], f, t) THEN Append(u[n], q[n + 1].bytes) ELSE u[n]
    BY <1>0, <1>2, <2>1, GatheringSteps
  <2>3. u[n] \in Seq(V) /\ q[n + 1].bytes \in V
    BY <1>0, <1>4, <2>1
  <2>4. Append(u[n], q[n + 1].bytes) \in Seq(V)
    BY <2>3
  <2>5. u[n + 1] \in Seq(V)
    BY <2>2, <2>3, <2>4, Zenon
  <2> QED BY <2>1, <2>5
<1>5. 0 .. Len(q) \subseteq T
  <2> HIDE DEF T
  <2> QED BY <1>0, <1>3, <1>4, Upwards
<1> QED BY <1>2, <1>5 DEF IsGathered

\* Queues that agree up to n gather the same up to n.
LEMMA SameGathering ==
  ASSUME NEW q, Len(q) \in Nat, NEW s, Len(s) \in Nat, NEW f, NEW t,
         NEW u, IsGathering(u, q, f, t), NEW v, IsGathering(v, s, f, t),
         NEW m \in Nat, m <= Len(q), m <= Len(s), \A n \in 1 .. m : q[n] = s[n]
  PROVE  \A n \in 0 .. m : u[n] = v[n]
<1> DEFINE T == {n \in 0 .. m : u[n] = v[n]}
<1>1. 0 \in T
  BY GatheringSteps
<1>2. ASSUME NEW n \in 0 .. m - 1, n \in T PROVE n + 1 \in T
  <2>1. n + 1 \in 1 .. Len(q) /\ n + 1 \in 1 .. Len(s) /\ n + 1 \in 0 .. m /\ n + 1 \in 1 .. m
        /\ (n + 1) - 1 = n
    OBVIOUS
  <2>2. /\ u[n + 1] = IF Fits(q[n + 1], f, t) THEN Append(u[n], q[n + 1].bytes) ELSE u[n]
        /\ v[n + 1] = IF Fits(s[n + 1], f, t) THEN Append(v[n], s[n + 1].bytes) ELSE v[n]
    BY <2>1, GatheringSteps
  <2> QED BY <1>2, <2>1, <2>2
<1>3. 0 .. m \subseteq T
  <2> HIDE DEF T
  <2> QED BY <1>1, <1>2, Upwards
<1> QED BY <1>3

\* All messages of M have their payload in V.
AllCarry(M, V) == \A m \in M : m.bytes \in V

\* A message at the end of an inbox is at the end of the channel it belongs to, and
\* shows in no other.
LEMMA GatheredAppend ==
  ASSUME NEW V, NEW M, AllCarry(M, V), NEW q \in Seq(M), NEW m \in M, NEW f, NEW t
  PROVE  Threads!Gathered(Append(q, m), f, t)
           = IF Fits(m, f, t) THEN Append(Threads!Gathered(q, f, t), m.bytes)
             ELSE Threads!Gathered(q, f, t)
<1>1. PICK s : s = Append(q, m)
  OBVIOUS
<1>2. /\ Len(q) \in Nat /\ Len(s) = Len(q) + 1 /\ s[Len(q) + 1] = m
      /\ (\A n \in 1 .. Len(q) : s[n] = q[n] /\ q[n].bytes \in V)
      /\ \A n \in 1 .. Len(s) : s[n].bytes \in V
  BY <1>1 DEF AllCarry
<1>3. PICK u : IsGathering(u, q, f, t) /\ Threads!Gathered(q, f, t) = u[Len(q)]
  <2>1. Carries(q, V)
    BY <1>2 DEF Carries
  <2>2. PICK u : IsGathered(u, q, f, t, V)
    BY <2>1, GatheredIs
  <2> QED BY <2>2 DEF IsGathered
<1>4. PICK v : IsGathering(v, s, f, t) /\ Threads!Gathered(s, f, t) = v[Len(s)]
  <2>1. Carries(s, V)
    BY <1>2 DEF Carries
  <2>2. PICK v : IsGathered(v, s, f, t, V)
    BY <2>1, GatheredIs
  <2> QED BY <2>2 DEF IsGathered
<1>5. u[Len(q)] = v[Len(q)]
  BY <1>2, <1>3, <1>4, SameGathering
<1>6. v[Len(q) + 1] = IF Fits(m, f, t) THEN Append(v[Len(q)], m.bytes) ELSE v[Len(q)]
  <2>1. Len(q) + 1 \in 1 .. Len(s) /\ Len(s) \in Nat /\ (Len(q) + 1) - 1 = Len(q)
    BY <1>2
  <2> QED BY <1>2, <1>4, <2>1, GatheringSteps
<1> QED BY <1>1, <1>2, <1>3, <1>4, <1>5, <1>6

\* Taking the first message that fits a channel takes the head of that channel;
\* channels that it does not fit stay as they are.
LEMMA GatheredWithout ==
  ASSUME NEW V, NEW M, AllCarry(M, V), NEW q \in Seq(M), NEW i \in 1 .. Len(q),
         NEW s, IsWithout(q, s, i, M), NEW f, NEW t
  PROVE  /\ ~ Fits(q[i], f, t) => Threads!Gathered(s, f, t) = Threads!Gathered(q, f, t)
         /\ Fits(q[i], f, t) /\ (\A j \in 1 .. i - 1 : ~ Fits(q[j], f, t)) =>
              /\ Threads!Gathered(q, f, t) # <<>>
              /\ Head(Threads!Gathered(q, f, t)) = q[i].bytes
              /\ Threads!Gathered(s, f, t) = Tail(Threads!Gathered(q, f, t))
<1>1. PICK N \in Nat : N = Len(q)
  OBVIOUS
<1>2. /\ s \in Seq(M) /\ Len(s) = N - 1 /\ Len(s) \in Nat /\ N >= 1 /\ i \in 1 .. N
      /\ \A j \in 1 .. N - 1 : s[j] = IF j < i THEN q[j] ELSE q[j + 1]
  BY <1>1 DEF IsWithout
<1>3. (\A n \in 1 .. N : q[n].bytes \in V) /\ \A n \in 1 .. N - 1 : s[n].bytes \in V
  BY <1>1, <1>2 DEF AllCarry
<1>4. PICK u : /\ IsGathering(u, q, f, t) /\ Threads!Gathered(q, f, t) = u[N]
               /\ \A n \in 0 .. N : u[n] \in Seq(V)
  <2>1. Carries(q, V)
    BY <1>1, <1>3 DEF Carries
  <2>2. PICK u : IsGathered(u, q, f, t, V)
    BY <2>1, GatheredIs
  <2> QED BY <1>1, <2>2 DEF IsGathered
<1>5. PICK v : /\ IsGathering(v, s, f, t) /\ Threads!Gathered(s, f, t) = v[N - 1]
               /\ \A n \in 0 .. N - 1 : v[n] \in Seq(V)
  <2>1. Carries(s, V)
    BY <1>2, <1>3 DEF Carries
  <2>2. PICK v : IsGathered(v, s, f, t, V)
    BY <2>1, GatheredIs
  <2> QED BY <1>2, <2>2 DEF IsGathered
<1>6. \A n \in 0 .. i - 1 : u[n] = v[n]
  <2>1. PICK m \in Nat : m = i - 1
    BY <1>2
  <2>2. /\ Len(q) \in Nat /\ Len(s) \in Nat /\ IsGathering(u, q, f, t) /\ IsGathering(v, s, f, t)
        /\ m <= Len(q) /\ m <= Len(s) /\ \A n \in 1 .. m : q[n] = s[n]
    <3>1. /\ Len(q) \in Nat /\ Len(s) \in Nat /\ m <= Len(q) /\ m <= Len(s)
          /\ \A n \in 1 .. m : n \in 1 .. N - 1 /\ n < i
      BY <1>1, <1>2, <2>1
    <3>2. \A n \in 1 .. m : q[n] = s[n]
      BY <1>2, <3>1
    <3> QED BY <1>4, <1>5, <3>1, <3>2
  <2>3. \A n \in 0 .. m : u[n] = v[n]
    BY <2>2, SameGathering
  <2> QED BY <2>1, <2>3
<1>7. \A n \in 1 .. N : u[n] = IF Fits(q[n], f, t) THEN Append(u[n - 1], q[n].bytes) ELSE u[n - 1]
  BY <1>1, <1>4, GatheringSteps
<1>8. ASSUME NEW n \in i .. N - 1
      PROVE  v[n] = IF Fits(q[n + 1], f, t) THEN Append(v[n - 1], q[n + 1].bytes) ELSE v[n - 1]
  <2>1. n \in 1 .. Len(s) /\ s[n] = q[n + 1]
    BY <1>2
  <2>2. \A j \in 1 .. Len(s) : v[j] = IF Fits(s[j], f, t) THEN Append(v[j - 1], s[j].bytes) ELSE v[j - 1]
    <3>1. Len(s) \in Nat /\ IsGathering(v, s, f, t)
      BY <1>2, <1>5
    <3> QED BY <3>1, GatheringSteps
  <2> QED BY <2>1, <2>2, Zenon
<1>9. ASSUME ~ Fits(q[i], f, t) PROVE u[N] = v[N - 1]
  <2> DEFINE T == {n \in 0 .. N : n >= i => u[n] = v[n - 1]}
  <2>1. 0 \in T
    BY <1>2
  <2>2. ASSUME NEW n \in 0 .. N - 1, n \in T PROVE n + 1 \in T
    <3>1. CASE n + 1 < i
      BY <1>2, <3>1
    <3>2. CASE n + 1 = i
      <4>1. i - 1 \in 0 .. i - 1 /\ (n + 1) - 1 = i - 1 /\ n + 1 \in 0 .. N
        BY <1>2, <3>2
      <4>2. u[i] = u[i - 1] /\ u[i - 1] = v[i - 1]
        BY <1>2, <1>6, <1>7, <1>9, <4>1
      <4> QED BY <3>2, <4>1, <4>2
    <3>3. CASE n + 1 > i
      <4>1. n \in i .. N - 1 /\ n + 1 \in 1 .. N /\ (n + 1) - 1 = n /\ n + 1 \in 0 .. N
        BY <1>2, <3>3
      <4>2. u[n] = v[n - 1]
        BY <2>2, <4>1
      <4>3. u[n + 1] = IF Fits(q[n + 1], f, t) THEN Append(u[n], q[n + 1].bytes) ELSE u[n]
        BY <1>7, <4>1
      <4>4. v[n] = IF Fits(q[n + 1], f, t) THEN Append(v[n - 1], q[n + 1].bytes) ELSE v[n - 1]
        BY <1>8, <4>1
      <4>5. u[n + 1] = v[n]
        <5>1. CASE Fits(q[n + 1], f, t)
          BY <4>2, <4>3, <4>4, <5>1, Zenon
        <5>2. CASE ~ Fits(q[n + 1], f, t)
          BY <4>2, <4>3, <4>4, <5>2, Zenon
        <5> QED BY <5>1, <5>2
      <4> QED BY <4>1, <4>5
    <3> QED BY <1>2, <3>1, <3>2, <3>3
  <2>3. 0 .. N \subseteq T
    <3> HIDE DEF T
    <3> QED BY <2>1, <2>2, Upwards
  <2> QED BY <1>2, <2>3
<1>10. ASSUME Fits(q[i], f, t), \A j \in 1 .. i - 1 : ~ Fits(q[j], f, t)
       PROVE  u[N] = <<q[i].bytes>> \o v[N - 1]
  <2>1. u[i - 1] = <<>>
    <3> DEFINE T == {n \in 0 .. i - 1 : u[n] = <<>>}
    <3>1. 0 \in T
      BY <1>1, <1>2, <1>4, GatheringSteps
    <3>2. ASSUME NEW n \in 0 .. (i - 1) - 1, n \in T PROVE n + 1 \in T
      <4>1. n + 1 \in 1 .. N /\ n + 1 \in 1 .. i - 1 /\ (n + 1) - 1 = n
        BY <1>2
      <4> QED BY <1>7, <1>10, <3>2, <4>1
    <3>3. i - 1 \in Nat /\ i - 1 \in 0 .. i - 1
      BY <1>2
    <3>4. 0 .. i - 1 \subseteq T
      <4> HIDE DEF T
      <4> QED BY <3>1, <3>2, <3>3, Upwards
    <3> QED BY <3>3, <3>4
  <2>2. PICK b \in V : b = q[i].bytes
    BY <1>2, <1>3
  <2>3. v[i - 1] = <<>> /\ u[i] = <<b>>
    <3>1. i - 1 \in 0 .. i - 1
      BY <1>2
    <3>2. u[i] = Append(u[i - 1], b)
      BY <1>2, <1>7, <1>10, <2>2, Zenon
    <3>3. Append(<<>>, b) = <<b>>
      OBVIOUS
    <3> QED BY <1>6, <2>1, <3>1, <3>2, <3>3, Zenon
  <2> DEFINE T == {n \in 0 .. N : n >= i => u[n] = <<b>> \o v[n - 1]}
  <2>4. 0 \in T
    BY <1>2
  <2>5. ASSUME NEW n \in 0 .. N - 1, n \in T PROVE n + 1 \in T
    <3>1. CASE n + 1 < i
      BY <1>2, <3>1
    <3>2. CASE n + 1 = i
      <4>1. (n + 1) - 1 = i - 1 /\ n + 1 \in 0 .. N
        BY <1>2, <3>2
      <4>2. <<b>> \o <<>> = <<b>>
        OBVIOUS
      <4>3. u[n + 1] = <<b>> \o v[(n + 1) - 1]
        BY <2>3, <3>2, <4>1, <4>2, Zenon
      <4> QED BY <4>1, <4>3
    <3>3. CASE n + 1 > i
      <4>1. /\ n \in i .. N - 1 /\ n + 1 \in 1 .. N /\ (n + 1) - 1 = n /\ n - 1 \in 0 .. N - 1
            /\ n + 1 \in 0 .. N
        BY <1>2, <3>3
      <4>2. u[n] = <<b>> \o v[n - 1]
        BY <2>5, <4>1
      <4>3. PICK w \in Seq(V) : w = v[n - 1]
        BY <1>5, <4>1
      <4>4. PICK x \in V : x = q[n + 1].bytes
        BY <1>3, <4>1
      <4>5. Append(<<b>> \o w, x) = <<b>> \o Append(w, x)
        OBVIOUS
      <4>6. u[n + 1] = IF Fits(q[n + 1], f, t) THEN Append(u[n], x) ELSE u[n]
        BY <1>7, <4>1, <4>4
      <4>7. v[n] = IF Fits(q[n + 1], f, t) THEN Append(w, x) ELSE w
        BY <1>8, <4>1, <4>3, <4>4
      <4>8. u[n + 1] = <<b>> \o v[n]
        BY <4>2, <4>3, <4>5, <4>6, <4>7, Zenon
      <4> QED BY <4>1, <4>8
    <3> QED BY <1>2, <3>1, <3>2, <3>3
  <2>6. 0 .. N \subseteq T
    <3> HIDE DEF T
    <3> QED BY <2>4, <2>5, Upwards
  <2> QED BY <1>2, <2>2, <2>6
<1>11. ASSUME NEW b \in V, NEW w \in Seq(V)
       PROVE  <<b>> \o w # <<>> /\ Head(<<b>> \o w) = b /\ Tail(<<b>> \o w) = w
  OBVIOUS
<1>12. q[i].bytes \in V /\ v[N - 1] \in Seq(V)
  BY <1>2, <1>3, <1>5
<1>13. PICK b \in V, w \in Seq(V) : b = q[i].bytes /\ w = v[N - 1]
  BY <1>12
<1>14. ASSUME Fits(q[i], f, t), \A j \in 1 .. i - 1 : ~ Fits(q[j], f, t)
       PROVE  Threads!Gathered(q, f, t) = <<b>> \o w
  BY <1>4, <1>10, <1>13, <1>14
<1>15. CASE ~ Fits(q[i], f, t)
  BY <1>4, <1>5, <1>9, <1>15, Zenon
<1>16. ASSUME Fits(q[i], f, t), \A j \in 1 .. i - 1 : ~ Fits(q[j], f, t)
       PROVE  /\ Threads!Gathered(q, f, t) # <<>>
              /\ Head(Threads!Gathered(q, f, t)) = q[i].bytes
              /\ Threads!Gathered(s, f, t) = Tail(Threads!Gathered(q, f, t))
  <2>1. Threads!Gathered(q, f, t) = <<b>> \o w
    BY <1>14, <1>16
  <2>2. Threads!Gathered(s, f, t) = w
    BY <1>5, <1>13, Zenon
  <2>3. <<b>> \o w # <<>> /\ Head(<<b>> \o w) = b /\ Tail(<<b>> \o w) = w
    BY <1>11
  <2> QED BY <1>13, <2>1, <2>2, <2>3, Zenon
<1> QED BY <1>15, <1>16, Zenon

-----------------------------------------------------------------------------
\* The threads: what their inboxes keep.
Bytes == [m \in Threads!Messages |-> m.bytes]

Wishes == {<<>>} \cup (Ranks \X Tags)

ThreadInv ==
  /\ IsKept(g_queues, Ranks, Threads!Messages, Bytes, Threads!Payloads, sent, received)
  /\ sent \in [Ranks -> 0 .. ThreadSends]
  /\ wish \in [Ranks -> Wishes]

\* A payload tells its sender and number.
LEMMA BytesType ==
  /\ Bytes \in [Threads!Messages -> Threads!Payloads]
  /\ Threads!Payloads = Ranks \X (1 .. ThreadSends)
  /\ \A m \in Threads!Messages : m.from \in Ranks /\ m.tag \in Tags /\ m.bytes \in Threads!Payloads
BY DEF Bytes, Threads!Messages, Threads!Payloads

\* The channels that a set of inboxes stands for.
IsChan(C, Q) ==
  C = [k \in Ranks \X Ranks \X Tags |-> Threads!Gathered(Q[k[2]], k[1], k[3])]

\* A receive takes b, the head of channel h.
IsTaken(C, D, h, b) == C[h] # <<>> /\ Head(C[h]) = b /\ D = [C EXCEPT ![h] = Tail(@)]

\* Channel and payload of a message in the inbox of d.
IsOf(h, b, m, d) == h = <<m.from, d, m.tag>> /\ b = m.bytes

\* A message appended to an inbox is appended to its channel.
LEMMA ChanOfSend ==
  ASSUME NEW Q \in [Ranks -> Seq(Threads!Messages)], NEW m \in Threads!Messages, NEW d \in Ranks,
         NEW h, NEW b, IsOf(h, b, m, d),
         NEW G, IsSent(Q, G, d, m),
         NEW C, IsChan(C, Q), NEW D, IsChan(D, G)
  PROVE  IsSent(C, D, h, b)
<1>1. PICK K, M, V : K = Ranks \X Ranks \X Tags /\ M = Threads!Messages /\ V = Threads!Payloads
  OBVIOUS
<1>2. /\ \A x \in M : x.bytes \in V
      /\ m \in M /\ m.from \in Ranks /\ m.tag \in Tags
      /\ Q \in [Ranks -> Seq(M)]
  BY <1>1, BytesType
<1>3. h \in K /\ h = <<m.from, d, m.tag>> /\ b = m.bytes
  BY <1>1, <1>2 DEF IsOf
<1>4. C = [k \in K |-> C[k]] /\ D = [k \in K |-> D[k]]
  BY <1>1 DEF IsChan
<1>5. \A k \in K : /\ C[k] = Threads!Gathered(Q[k[2]], k[1], k[3])
                   /\ D[k] = Threads!Gathered(G[k[2]], k[1], k[3])
  BY <1>1, Zenon DEF IsChan
<1>6. ASSUME NEW k \in K PROVE D[k] = IF k = h THEN Append(C[k], b) ELSE C[k]
  <2>1. k[2] \in Ranks /\ k = <<k[1], k[2], k[3]>>
    BY <1>1
  <2>2. CASE k[2] = d
    <3>1. PICK q \in Seq(M) : q = Q[d]
      BY <1>2
    <3>2. G[d] = Append(q, m)
      BY <1>2, <3>1 DEF IsSent
    <3>3. Threads!Gathered(Append(q, m), k[1], k[3])
            = IF Fits(m, k[1], k[3]) THEN Append(Threads!Gathered(q, k[1], k[3]), m.bytes)
              ELSE Threads!Gathered(q, k[1], k[3])
      <4>1. PICK y, z : y = k[1] /\ z = k[3]
        OBVIOUS
      <4>2. AllCarry(M, V) /\ q \in Seq(M) /\ m \in M
        BY <1>2 DEF AllCarry
      <4>3. Threads!Gathered(Append(q, m), y, z)
              = IF Fits(m, y, z) THEN Append(Threads!Gathered(q, y, z), m.bytes)
                ELSE Threads!Gathered(q, y, z)
        BY <4>2, GatheredAppend
      <4> QED BY <4>1, <4>3
    <3>4. Fits(m, k[1], k[3]) <=> k = h
      BY <1>3, <2>1, <2>2 DEF Fits
    <3>5. C[k] = Threads!Gathered(q, k[1], k[3]) /\ D[k] = Threads!Gathered(Append(q, m), k[1], k[3])
      BY <1>5, <2>2, <3>1, <3>2
    <3> QED BY <1>3, <3>3, <3>4, <3>5, Zenon
  <2>3. CASE k[2] # d
    <3>1. G[k[2]] = Q[k[2]]
      BY <1>2, <2>1, <2>3 DEF IsSent
    <3>2. k # h
      BY <1>3, <2>3
    <3> QED BY <1>5, <3>1, <3>2
  <2> QED BY <2>2, <2>3
<1>7. D = [C EXCEPT ![h] = Append(C[h], b)]
  BY <1>4, <1>6
<1> QED BY <1>7 DEF IsSent

\* The first message that fits what a receiver waits for, taken out of its inbox, is
\* the head of that channel.
LEMMA ChanOfTake ==
  ASSUME NEW Q \in [Ranks -> Seq(Threads!Messages)], NEW r \in Ranks, NEW i \in 1 .. Len(Q[r]),
         NEW f \in Ranks, NEW t \in Tags,
         Fits(Q[r][i], f, t), \A j \in 1 .. i - 1 : ~ Fits(Q[r][j], f, t),
         NEW s, IsWithout(Q[r], s, i, Threads!Messages),
         NEW G, IsPut(Q, G, r, s),
         NEW C, IsChan(C, Q), NEW D, IsChan(D, G),
         NEW h, NEW b, IsOf(h, b, Q[r][i], r)
  PROVE  IsTaken(C, D, h, b)
<1>1. PICK K, M, V : K = Ranks \X Ranks \X Tags /\ M = Threads!Messages /\ V = Threads!Payloads
  OBVIOUS
<1>2. /\ \A x \in M : x.bytes \in V
      /\ Q \in [Ranks -> Seq(M)]
  BY <1>1, BytesType
<1>3. h \in K /\ h = <<f, r, t>> /\ b = Q[r][i].bytes
  BY <1>1 DEF IsOf, Fits
<1>4. C = [k \in K |-> C[k]] /\ D = [k \in K |-> D[k]]
  BY <1>1 DEF IsChan
<1>5. \A k \in K : /\ C[k] = Threads!Gathered(Q[k[2]], k[1], k[3])
                   /\ D[k] = Threads!Gathered(G[k[2]], k[1], k[3])
  BY <1>1, Zenon DEF IsChan
<1>6. PICK q \in Seq(M) : q = Q[r]
  BY <1>2
<1>7. G[r] = s
  BY <1>2 DEF IsPut
<1>8. \A y, z : /\ ~ Fits(q[i], y, z) => Threads!Gathered(s, y, z) = Threads!Gathered(q, y, z)
                /\ Fits(q[i], y, z) /\ (\A j \in 1 .. i - 1 : ~ Fits(q[j], y, z)) =>
                     /\ Threads!Gathered(q, y, z) # <<>>
                     /\ Head(Threads!Gathered(q, y, z)) = q[i].bytes
                     /\ Threads!Gathered(s, y, z) = Tail(Threads!Gathered(q, y, z))
  <2> SUFFICES ASSUME NEW y, NEW z
      PROVE  /\ ~ Fits(q[i], y, z) => Threads!Gathered(s, y, z) = Threads!Gathered(q, y, z)
             /\ Fits(q[i], y, z) /\ (\A j \in 1 .. i - 1 : ~ Fits(q[j], y, z)) =>
                  /\ Threads!Gathered(q, y, z) # <<>>
                  /\ Head(Threads!Gathered(q, y, z)) = q[i].bytes
                  /\ Threads!Gathered(s, y, z) = Tail(Threads!Gathered(q, y, z))
    OBVIOUS
  <2>1. /\ AllCarry(M, V)
        /\ q \in Seq(M) /\ i \in 1 .. Len(q) /\ IsWithout(q, s, i, M)
    BY <1>1, <1>2, <1>6 DEF AllCarry
  <2> QED BY <2>1, GatheredWithout
<1>9. Fits(q[i], f, t) /\ \A j \in 1 .. i - 1 : ~ Fits(q[j], f, t)
  BY <1>6
<1>10. C[h] = Threads!Gathered(q, f, t) /\ D[h] = Threads!Gathered(s, f, t)
  <2>1. h[1] = f /\ h[2] = r /\ h[3] = t
    BY <1>3
  <2> QED BY <1>3, <1>5, <1>6, <1>7, <2>1
<1>11. C[h] # <<>> /\ Head(C[h]) = q[i].bytes /\ D[h] = Tail(C[h])
  BY <1>8, <1>9, <1>10
<1>12. ASSUME NEW k \in K, k # h PROVE D[k] = C[k]
  <2>1. k[2] \in Ranks /\ k = <<k[1], k[2], k[3]>>
    BY <1>1
  <2>2. CASE k[2] = r
    <3>1. ~ Fits(q[i], k[1], k[3])
      BY <1>3, <1>9, <1>12, <2>1, <2>2 DEF Fits
    <3> QED BY <1>5, <1>6, <1>7, <1>8, <2>2, <3>1
  <2>3. CASE k[2] # r
    <3>1. G[k[2]] = Q[k[2]]
      BY <1>2, <2>1, <2>3 DEF IsPut
    <3> QED BY <1>5, <3>1
  <2> QED BY <2>2, <2>3
<1>13. D = [C EXCEPT ![h] = Tail(C[h])]
  BY <1>4, <1>11, <1>12
<1> QED BY <1>3, <1>6, <1>11, <1>13 DEF IsTaken

-----------------------------------------------------------------------------
\* Chan is what the inboxes stand for when threads run.
LEMMA ThreadChan ==
  /\ backend = "threads" => IsChan(Chan, g_queues)
  /\ backend' = "threads" => IsChan(Chan', g_queues')
BY DEF Chan, IsChan, Threads!Under

\* CommSend of a thread: a send in the channel of its sender and tag.
LEMMA ThreadSendHolds ==
  ASSUME ThreadInv, backend = "threads", backend' = "threads",
         NEW r \in Ranks, NEW dest \in Ranks, NEW tag \in Tags, Threads!CommSend(r, dest, tag)
  PROVE  ThreadInv' /\ Promise!Next
<1>0. PICK N \in Nat : N = ThreadSends
  BY SendsAssumption
<1>1. PICK P, M, x : /\ N = ThreadSends /\ P = Threads!Payloads /\ M = Threads!Messages
                     /\ x = [tag |-> tag, from |-> r, bytes |-> <<r, sent[r] + 1>>]
  BY <1>0
<1>2. sent \in [Ranks -> 0 .. N] /\ sent[r] < N /\ sent[r] + 1 \in 1 .. N
  BY <1>1 DEF ThreadInv, Threads!CommSend
<1>3. P = Ranks \X (1 .. N) /\ Bytes \in [M -> P]
  BY <1>1, BytesType
<1>4. <<r, sent[r] + 1>> \in P
  BY <1>2, <1>3
<1>5. x \in M /\ Bytes[x] = <<r, sent[r] + 1>> /\ x.from = r /\ x.tag = tag /\ x.bytes = <<r, sent[r] + 1>>
  BY <1>1, <1>4 DEF Bytes, Threads!Messages
<1>6. /\ g_queues' = [g_queues EXCEPT ![dest] = Append(@, x)]
      /\ sent' = [sent EXCEPT ![r] = @ + 1]
      /\ wish[r] = <<>> /\ wish' = wish /\ got' = got /\ received' = received
  BY <1>1 DEF Threads!CommSend, Threads!NoWish
<1>7. IsKept(g_queues, Ranks, M, Bytes, P, sent, received)
  BY <1>1 DEF ThreadInv
<1>8. IsKept(g_queues', Ranks, M, Bytes, P, sent', received) /\ sent' \in [Ranks -> 0 .. N]
  <2>1. PICK val, F, snt, rec, G, t : /\ val = Bytes /\ F = g_queues /\ snt = sent /\ rec = received
                                      /\ G = g_queues' /\ t = sent'
    OBVIOUS
  <2>2. /\ IsPayloads(P, Ranks, N) /\ val \in [M -> P] /\ snt \in [Ranks -> 0 .. N]
        /\ IsKept(F, Ranks, M, val, P, snt, rec)
        /\ snt[r] < N /\ x \in M /\ val[x] = <<r, snt[r] + 1>>
        /\ IsSent(F, G, dest, x) /\ IsCounted(snt, t, r)
    BY <1>2, <1>3, <1>5, <1>6, <1>7, <2>1 DEF IsSent, IsCounted, IsPayloads
  <2>3. SendsOne(F, G, Ranks, M, val, P, snt, t, rec, N, Ranks, r, dest, x)
    BY <2>2 DEF SendsOne
  <2>4. IsKept(G, Ranks, M, val, P, t, rec) /\ t \in [Ranks -> 0 .. N]
    BY <2>3, KeptBySend
  <2> QED BY <2>1, <2>4
<1>9. ThreadInv'
  <2>1. wish' \in [Ranks -> Wishes]
    BY <1>6 DEF ThreadInv
  <2> QED BY <1>1, <1>6, <1>8, <2>1 DEF ThreadInv
<1>10. Chan' = [Chan EXCEPT ![<<r, dest, tag>>] = Append(@, x.bytes)]
  <2>1. g_queues \in [Ranks -> Seq(Threads!Messages)]
    BY <1>1, <1>7 DEF IsKept
  <2>2. PICK Q, G, C, D : Q = g_queues /\ G = g_queues' /\ C = Chan /\ D = Chan'
    OBVIOUS
  <2>3. /\ Q \in [Ranks -> Seq(Threads!Messages)] /\ x \in Threads!Messages
        /\ IsSent(Q, G, dest, x) /\ IsChan(C, Q) /\ IsChan(D, G)
    BY <1>1, <1>5, <1>6, <2>1, <2>2, ThreadChan DEF IsSent
  <2>4. PICK h, b : h = <<r, dest, tag>> /\ b = x.bytes
    OBVIOUS
  <2>5. IsOf(h, b, x, dest)
    BY <1>5, <2>4 DEF IsOf
  <2>6. IsSent(C, D, h, b)
    BY <2>3, <2>5, ChanOfSend
  <2> QED BY <2>2, <2>4, <2>6 DEF IsSent
<1>11. x.bytes \in Ranks \X (1 .. Max({ThreadSends, MpiSends}))
  <2>1. 1 .. N \subseteq 1 .. Max({ThreadSends, MpiSends})
    <3>1. Max({ThreadSends, MpiSends}) \in Nat /\ ThreadSends <= Max({ThreadSends, MpiSends})
      BY SendsAssumption, MaxOfTwo
    <3> QED BY <1>1, <3>1
  <2> QED BY <1>3, <1>4, <1>5, <2>1
<1>12. Promise!Send(r, dest, tag, x.bytes)
  BY <1>6, <1>10 DEF Promise!Send, Promise!NoWish
<1> QED BY <1>9, <1>11, <1>12 DEF Promise!Next

\* CommRecv of a thread is called.
LEMMA ThreadCallHolds ==
  ASSUME ThreadInv, backend = "threads", backend' = "threads",
         NEW r \in Ranks, NEW from \in Ranks, NEW tag \in Tags, Threads!CallRecv(r, from, tag)
  PROVE  ThreadInv' /\ Promise!Next
<1>1. /\ wish[r] = <<>> /\ wish' = [wish EXCEPT ![r] = <<from, tag>>]
      /\ g_queues' = g_queues /\ got' = got /\ sent' = sent /\ received' = received
  BY DEF Threads!CallRecv, Threads!NoWish
<1>2. wish' \in [Ranks -> Wishes]
  BY <1>1 DEF ThreadInv, Wishes
<1>3. ThreadInv'
  BY <1>1, <1>2 DEF ThreadInv
<1>4. Chan' = Chan
  BY <1>1, ThreadChan DEF IsChan
<1>5. Promise!Call(r, from, tag)
  BY <1>1, <1>4 DEF Promise!Call, Promise!NoWish
<1> QED BY <1>3, <1>5 DEF Promise!Next

\* CommRecv of a thread returns with the head of its channel, wherever that is in the
\* inbox.
LEMMA ThreadRecvHolds ==
  ASSUME ThreadInv, backend = "threads", backend' = "threads",
         NEW r \in Ranks, Threads!CommRecv(r)
  PROVE  ThreadInv' /\ Promise!Next
<1>1. PICK P, M, F : P = Threads!Payloads /\ M = Threads!Messages /\ F = g_queues
  OBVIOUS
<1>2. Bytes \in [M -> P]
  BY <1>1, BytesType
<1>3. IsKept(F, Ranks, M, Bytes, P, sent, received)
  BY <1>1 DEF ThreadInv
<1>4. F \in [Ranks -> Seq(M)] /\ F[r] \in Seq(M) /\ DOMAIN F[r] = 1 .. Len(F[r]) /\ Len(F[r]) \in Nat
  BY <1>3 DEF IsKept
<1>5. PICK f \in Ranks, t \in Tags : wish[r] = <<f, t>>
  BY DEF ThreadInv, Wishes, Threads!CommRecv, Threads!NoWish
<1>6. PICK T : T = {j \in 1 .. Len(F[r]) : Fits(F[r][j], f, t)}
  OBVIOUS
<1>7. Threads!Matches(r) = T
  BY <1>1, <1>4, <1>5, <1>6 DEF Threads!Matches, Fits
<1>8. PICK i : i = Min(T)
  OBVIOUS
<1>9. i \in T /\ \A j \in T : i <= j
  <2>1. T \subseteq Nat /\ T # {}
    BY <1>4, <1>6, <1>7 DEF Threads!CommRecv
  <2> QED BY <1>8, <2>1, MinOfNats
<1>10. /\ i \in 1 .. Len(F[r]) /\ Fits(F[r][i], f, t)
       /\ \A j \in 1 .. i - 1 : ~ Fits(F[r][j], f, t)
  <2>1. i \in 1 .. Len(F[r]) /\ Fits(F[r][i], f, t)
    BY <1>6, <1>9
  <2>2. ASSUME NEW j \in 1 .. i - 1, Fits(F[r][j], f, t) PROVE FALSE
    <3>1. j \in T /\ j < i
      BY <1>4, <1>6, <2>1, <2>2
    <3> QED BY <1>9, <2>1, <3>1
  <2> QED BY <2>1, <2>2
<1>11. PICK s, G, b, m : s = RemoveAt(F[r], i) /\ G = g_queues' /\ b = F[r][i].bytes /\ m = F[r][i]
  OBVIOUS
<1>12. IsWithout(F[r], s, i, M)
  BY <1>4, <1>10, <1>11, RemoveAtIs
<1>13. /\ IsPut(F, G, r, s)
       /\ got' = [got EXCEPT ![r] = {b}]
       /\ received' = received \cup {b}
       /\ wish[r] # <<>> /\ wish' = [wish EXCEPT ![r] = <<>>] /\ sent' = sent
  <2>1. /\ wish[r] # <<>> /\ wish' = [wish EXCEPT ![r] = <<>>] /\ sent' = sent
        /\ Threads!TakeFirst(r)
    BY DEF Threads!CommRecv, Threads!NoWish
  <2>2. Min(Threads!Matches(r)) = i
    BY <1>7, <1>8
  <2>3. /\ got' = [got EXCEPT ![r] = {g_queues[r][i].bytes}]
        /\ received' = received \cup {g_queues[r][i].bytes}
        /\ g_queues' = [g_queues EXCEPT ![r] = RemoveAt(g_queues[r], i)]
    <3>1. Threads!Min(Threads!Matches(r)) = i /\ Threads!RemoveAt(g_queues[r], i) = RemoveAt(g_queues[r], i)
      BY <2>2 DEF Threads!Min, Min, Threads!RemoveAt, RemoveAt
    <3> QED BY <2>1, <3>1, Zenon DEF Threads!TakeFirst
  <2>4. IsPut(F, G, r, s)
    BY <1>1, <1>11, <2>3, Zenon DEF IsPut
  <2> QED BY <1>1, <1>11, <2>1, <2>3, <2>4, Zenon
<1>14. m \in M /\ Bytes[m] = b
  BY <1>1, <1>4, <1>10, <1>11 DEF Bytes
<1>15. IsKept(G, Ranks, M, Bytes, P, sent, received')
  <2>1. PICK val, snt, rec, u : val = Bytes /\ snt = sent /\ rec = received /\ u = received'
    OBVIOUS
  <2>2. /\ val \in [M -> P] /\ IsKept(F, Ranks, M, val, P, snt, rec)
        /\ i \in 1 .. Len(F[r]) /\ IsWithout(F[r], s, i, M) /\ IsPut(F, G, r, s)
        /\ IsReceived(rec, u, val, F[r][i])
    BY <1>2, <1>3, <1>10, <1>11, <1>12, <1>13, <1>14, <2>1 DEF IsReceived
  <2>3. IsKept(G, Ranks, M, val, P, snt, u)
    BY <2>2, KeptByTake
  <2> QED BY <2>1, <2>3
<1>16. ThreadInv'
  <2>1. wish' \in [Ranks -> Wishes]
    BY <1>13 DEF ThreadInv, Wishes
  <2> QED BY <1>1, <1>11, <1>13, <1>15, <2>1 DEF ThreadInv
<1>17. PICK C, D, h : C = Chan /\ D = Chan' /\ h = <<f, r, t>>
  OBVIOUS
<1>18. IsTaken(C, D, h, b)
  <2>1. IsOf(h, b, F[r][i], r)
    BY <1>10, <1>11, <1>17 DEF IsOf, Fits
  <2>2. IsChan(C, F) /\ IsChan(D, G)
    BY <1>1, <1>11, <1>17, ThreadChan
  <2> QED BY <1>1, <1>4, <1>10, <1>12, <1>13, <2>1, <2>2, ChanOfTake
<1>19. C[h] # <<>> /\ Head(C[h]) = b /\ D = [C EXCEPT ![h] = Tail(@)]
  BY <1>18 DEF IsTaken
<1>20. <<wish[r][1], r, wish[r][2]>> = h
  BY <1>5, <1>17
<1>21. Promise!Return(r)
  BY <1>13, <1>17, <1>19, <1>20 DEF Promise!Return, Promise!NoWish
<1> QED BY <1>16, <1>21 DEF Promise!Next

-----------------------------------------------------------------------------
\* The processes: what the library and the ranks keep.
Self == [p \in Mpi!Payloads |-> p]

MpiKept ==
  /\ IsKept(network, Mpi!Links, Mpi!Payloads, Self, Mpi!Payloads, sent, received)
  /\ sent \in [Ranks -> 0 .. MpiSends]

MpiWishes ==
  /\ wish \in [Ranks -> Wishes]
  /\ \A r \in Ranks : wish[r] # <<>> => wish[r][1] # r

\* What has been probed is still the first of its link.
MpiProbed ==
  /\ probed = [r \in Ranks |-> probed[r]]
  /\ \A r \in Ranks : probed[r] # <<>> =>
       /\ wish[r] # <<>> /\ network[Mpi!LinkOf(r)] # <<>>
       /\ probed[r] = <<Head(network[Mpi!LinkOf(r)])>>

MpiBuffers ==
  /\ g_pending \in [Ranks -> Seq(Mpi!Payloads)]
  /\ \A k \in Mpi!Links : \A i \in DOMAIN network[k] :
       network[k][i] \in complete \/ network[k][i] \in ToSet(g_pending[k[1]])

MpiInv == MpiKept /\ MpiWishes /\ MpiProbed /\ MpiBuffers

\* The links, and where a receiver looks.
LEMMA LinksAre ==
  /\ \A r, s \in Ranks, tag \in Tags : r # s => <<r, s, tag>> \in Mpi!Links
  /\ \A k \in Mpi!Links : k \in Ranks \X Ranks \X Tags /\ k[1] \in Ranks /\ k[1] # k[2]
  /\ \A k \in Ranks \X Ranks \X Tags : k[1] # k[2] => k \in Mpi!Links
BY DEF Mpi!Links

\* A rank in CommRecv looks at a link from another rank.
LEMMA LooksAtLink ==
  ASSUME MpiWishes, NEW r \in Ranks, wish[r] # <<>>
  PROVE  \E f \in Ranks, t \in Tags :
           f # r /\ wish[r] = <<f, t>> /\ Mpi!LinkOf(r) = <<f, r, t>> /\ <<f, r, t>> \in Mpi!Links
<1>1. PICK f \in Ranks, t \in Tags : wish[r] = <<f, t>>
  BY DEF MpiWishes, Wishes
<1>2. f # r
  <2>1. wish[r][1] # r
    BY DEF MpiWishes
  <2>2. wish[r][1] = f
    BY <1>1
  <2> QED BY <2>1, <2>2
<1> QED BY <1>1, <1>2, LinksAre DEF Mpi!LinkOf

\* The channels are the links, and empty from a rank to itself.
IsLinkChan(C, N) ==
  C = [k \in Ranks \X Ranks \X Tags |-> IF k[1] = k[2] THEN <<>> ELSE N[k]]

\* Chan is the links when processes run.
LEMMA LinkChan ==
  /\ backend # "threads" => IsLinkChan(Chan, network)
  /\ backend' # "threads" => IsLinkChan(Chan', network')
BY DEF Chan, IsLinkChan

\* On the network a message is its payload.
LEMMA SelfType ==
  /\ Self \in [Mpi!Payloads -> Mpi!Payloads]
  /\ IsPayloads(Mpi!Payloads, Ranks, MpiSends)
  /\ \A p \in Mpi!Payloads : Self[p] = p
BY DEF Self, IsPayloads, Mpi!Payloads

\* CommSend of a process: the buffer is kept, and the message joins its link.
LEMMA MpiSendHolds ==
  ASSUME MpiInv, backend = "mpi", backend' = "mpi",
         NEW r \in Ranks, NEW s \in Ranks \ {r}, NEW tag \in Tags, Mpi!CommSend(r, s, tag)
  PROVE  MpiInv' /\ Promise!Next
<1>0. PICK N \in Nat : N = MpiSends
  BY SendsAssumption
<1>1. PICK P, L, x, h : /\ N = MpiSends /\ P = Mpi!Payloads /\ L = Mpi!Links
                        /\ x = <<r, sent[r] + 1>> /\ h = <<r, s, tag>>
  BY <1>0
<1>2. /\ network' = [network EXCEPT ![h] = Append(@, x)]
      /\ g_pending' = [g_pending EXCEPT ![r] = Append(@, x)]
      /\ sent' = [sent EXCEPT ![r] = @ + 1]
      /\ wish[r] = <<>> /\ sent[r] < N
      /\ complete' = complete /\ wish' = wish /\ probed' = probed /\ got' = got /\ received' = received
  BY <1>1 DEF Mpi!CommSend, Mpi!Idle, Mpi!NoWish
<1>3. h \in L /\ \A k \in L : k[1] \in Ranks
  BY <1>1, LinksAre
<1>4. /\ IsPayloads(P, Ranks, N) /\ Self \in [P -> P] /\ \A p \in P : Self[p] = p
      /\ sent \in [Ranks -> 0 .. N]
  BY <1>1, SelfType DEF MpiInv, MpiKept
<1>5. x \in P /\ Self[x] = x
  <2>1. sent[r] + 1 \in 1 .. N
    BY <1>2, <1>4
  <2> QED BY <1>1, <1>4, <2>1 DEF IsPayloads
<1>6. PICK F, G : F = network /\ G = network'
  OBVIOUS
<1>7. IsKept(F, L, P, Self, P, sent, received)
  BY <1>1, <1>6 DEF MpiInv, MpiKept
<1>8. F \in [L -> Seq(P)]
  BY <1>7 DEF IsKept
<1>9. IsSent(F, G, h, x)
  BY <1>2, <1>6 DEF IsSent
<1>10. MpiKept'
  <2>1. PICK S, val, snt, rec, t : S = P /\ val = Self /\ snt = sent /\ rec = received /\ t = sent'
    OBVIOUS
  <2>2. /\ IsPayloads(P, Ranks, N) /\ val \in [S -> P] /\ snt \in [Ranks -> 0 .. N]
        /\ IsKept(F, L, S, val, P, snt, rec)
        /\ snt[r] < N /\ x \in S /\ val[x] = <<r, snt[r] + 1>> /\ h \in L
        /\ IsSent(F, G, h, x) /\ IsCounted(snt, t, r)
    BY <1>1, <1>2, <1>3, <1>4, <1>5, <1>7, <1>9, <2>1 DEF IsCounted
  <2>3. SendsOne(F, G, L, S, val, P, snt, t, rec, N, Ranks, r, h, x)
    BY <2>2 DEF SendsOne
  <2>4. IsKept(G, L, S, val, P, t, rec) /\ t \in [Ranks -> 0 .. N]
    BY <2>3, KeptBySend
  <2> QED BY <1>1, <1>2, <1>6, <2>1, <2>4 DEF MpiKept
<1>11. MpiWishes'
  BY <1>2 DEF MpiInv, MpiWishes
<1>12. ASSUME NEW k \in L
       PROVE  /\ k # h => G[k] = F[k]
              /\ G[h] = Append(F[h], x) /\ F[h] \in Seq(P)
              /\ F[k] # <<>> => G[k] # <<>> /\ Head(G[k]) = Head(F[k])
  <2>1. G[h] = Append(F[h], x) /\ F[h] \in Seq(P) /\ (k # h => G[k] = F[k])
    BY <1>3, <1>8, <1>9 DEF IsSent
  <2>2. F[h] # <<>> => Append(F[h], x) # <<>> /\ Head(Append(F[h], x)) = Head(F[h])
    BY <1>5, <2>1
  <2> QED BY <2>1, <2>2
<1>13. MpiProbed'
  <2> SUFFICES ASSUME NEW q \in Ranks, probed[q] # <<>>
               PROVE  /\ wish[q] # <<>> /\ G[Mpi!LinkOf(q)] # <<>>
                      /\ probed[q] = <<Head(G[Mpi!LinkOf(q)])>>
    BY <1>2, <1>6 DEF MpiInv, MpiProbed, Mpi!LinkOf
  <2>1. wish[q] # <<>> /\ F[Mpi!LinkOf(q)] # <<>> /\ probed[q] = <<Head(F[Mpi!LinkOf(q)])>>
    BY <1>6 DEF MpiInv, MpiProbed
  <2>2. Mpi!LinkOf(q) \in L
    BY <1>1, <2>1, LooksAtLink DEF MpiInv
  <2> QED BY <1>12, <2>1, <2>2
<1>14. MpiBuffers'
  <2>1. PICK B : B = g_pending'
    OBVIOUS
  <2>2. B \in [Ranks -> Seq(P)] /\ ToSet(B[r]) = ToSet(g_pending[r]) \cup {x}
        /\ \A q \in Ranks \ {r} : B[q] = g_pending[q]
    <3>1. g_pending \in [Ranks -> Seq(P)]
      BY <1>1 DEF MpiInv, MpiBuffers
    <3>2. PICK u \in Seq(P) : u = g_pending[r]
      BY <3>1
    <3>3. ToSet(Append(u, x)) = ToSet(u) \cup {x}
      BY <1>5, AppendSet
    <3> QED BY <1>2, <1>5, <2>1, <3>1, <3>2, <3>3
  <2>3. ASSUME NEW k \in L, NEW i \in DOMAIN G[k]
        PROVE  G[k][i] \in complete \/ G[k][i] \in ToSet(B[k[1]])
    <3>1. CASE i \in DOMAIN F[k] /\ G[k][i] = F[k][i]
      <4>1. F[k][i] \in complete \/ F[k][i] \in ToSet(g_pending[k[1]])
        BY <1>1, <1>6, <3>1 DEF MpiInv, MpiBuffers
      <4>2. ToSet(g_pending[k[1]]) \subseteq ToSet(B[k[1]])
        BY <1>3, <2>2
      <4> QED BY <3>1, <4>1, <4>2
    <3>2. CASE ~ (i \in DOMAIN F[k] /\ G[k][i] = F[k][i])
      <4>1. k = h /\ G[k][i] = x
        BY <1>5, <1>12, <2>3, <3>2
      <4>2. k[1] = r
        BY <1>1, <4>1
      <4> QED BY <2>2, <4>1, <4>2
    <3> QED BY <3>1, <3>2
  <2>4. B \in [Ranks -> Seq(Mpi!Payloads)]
    BY <1>1, <2>2
  <2>5. \A k \in Mpi!Links : \A i \in DOMAIN G[k] : G[k][i] \in complete \/ G[k][i] \in ToSet(B[k[1]])
    BY <1>1, <2>3
  <2> QED BY <1>2, <1>6, <2>1, <2>4, <2>5 DEF MpiBuffers
<1>15. Chan' = [Chan EXCEPT ![h] = Append(@, x)]
  <2>1. PICK C, D, K : C = Chan /\ D = Chan' /\ K = Ranks \X Ranks \X Tags
    OBVIOUS
  <2>2. IsLinkChan(C, F) /\ IsLinkChan(D, G)
    BY <1>6, <2>1, LinkChan
  <2>3. /\ C = [k \in K |-> IF k[1] = k[2] THEN <<>> ELSE F[k]]
        /\ D = [k \in K |-> IF k[1] = k[2] THEN <<>> ELSE G[k]]
    BY <2>1, <2>2 DEF IsLinkChan
  <2>4. h \in K /\ h[1] # h[2] /\ \A k \in K : k[1] # k[2] => k \in L
    BY <1>1, <2>1, LinksAre
  <2>5. \A k \in K : D[k] = IF k = h THEN Append(C[k], x) ELSE C[k]
    BY <1>12, <2>3, <2>4
  <2>6. D = [C EXCEPT ![h] = Append(C[h], x)]
    <3>1. C = [k \in K |-> C[k]] /\ D = [k \in K |-> D[k]]
      BY <2>3
    <3> QED BY <2>4, <2>5, <3>1
  <2> QED BY <2>1, <2>6
<1>16. x \in Ranks \X (1 .. Max({ThreadSends, MpiSends}))
  <2>1. Max({ThreadSends, MpiSends}) \in Nat /\ MpiSends <= Max({ThreadSends, MpiSends})
    BY SendsAssumption, MaxOfTwo
  <2>2. 1 .. N \subseteq 1 .. Max({ThreadSends, MpiSends})
    BY <1>1, <2>1
  <2> QED BY <1>4, <1>5, <2>2 DEF IsPayloads
<1>17. Promise!Send(r, s, tag, x)
  BY <1>1, <1>2, <1>15 DEF Promise!Send, Promise!NoWish
<1> QED BY <1>10, <1>11, <1>13, <1>14, <1>16, <1>17 DEF MpiInv, Promise!Next

\* Steps that leave the links and the receivers alone.
LEMMA MpiStutters ==
  ASSUME backend = "mpi", backend' = "mpi", network' = network, wish' = wish, got' = got
  PROVE  UNCHANGED Promise!vars
<1>1. Chan' = Chan
  BY LinkChan DEF IsLinkChan
<1> QED BY <1>1 DEF Promise!vars

\* The library completes a send: no buffer is needed for that message any more.
LEMMA MpiCompleteHolds ==
  ASSUME MpiInv, backend = "mpi", backend' = "mpi", NEW k \in Mpi!Links, Mpi!CompleteEarly(k)
  PROVE  MpiInv' /\ UNCHANGED Promise!vars
<1>1. /\ complete \subseteq complete' /\ network' = network /\ g_pending' = g_pending
      /\ wish' = wish /\ probed' = probed /\ got' = got /\ sent' = sent /\ received' = received
  BY DEF Mpi!CompleteEarly
<1>2. MpiKept' /\ MpiWishes' /\ MpiProbed'
  BY <1>1 DEF MpiInv, MpiKept, MpiWishes, MpiProbed, Mpi!LinkOf
<1>3. MpiBuffers'
  BY <1>1 DEF MpiInv, MpiBuffers
<1> QED BY <1>1, <1>2, <1>3, MpiStutters DEF MpiInv

\* CommRecv of a process is called.
LEMMA MpiCallHolds ==
  ASSUME MpiInv, backend = "mpi", backend' = "mpi",
         NEW r \in Ranks, NEW s \in Ranks \ {r}, NEW tag \in Tags, Mpi!CallRecv(r, s, tag)
  PROVE  MpiInv' /\ Promise!Next
<1>1. /\ wish[r] = <<>> /\ wish' = [wish EXCEPT ![r] = <<s, tag>>]
      /\ network' = network /\ complete' = complete /\ g_pending' = g_pending
      /\ probed' = probed /\ got' = got /\ sent' = sent /\ received' = received
  BY DEF Mpi!CallRecv, Mpi!Idle, Mpi!NoWish, Mpi!mpiVars
<1>2. wish \in [Ranks -> Wishes]
  BY DEF MpiInv, MpiWishes
<1>3. MpiWishes'
  <2>1. wish' \in [Ranks -> Wishes]
    BY <1>1, <1>2 DEF Wishes
  <2>2. ASSUME NEW q \in Ranks, wish'[q] # <<>> PROVE wish'[q][1] # q
    BY <1>1, <1>2, <2>2 DEF MpiInv, MpiWishes
  <2> QED BY <2>1, <2>2 DEF MpiWishes
<1>4. MpiProbed'
  <2>1. \A q \in Ranks : probed[q] # <<>> => wish'[q] = wish[q] /\ wish[q] # <<>>
    BY <1>1, <1>2 DEF MpiInv, MpiProbed
  <2> QED BY <1>1, <2>1 DEF MpiInv, MpiProbed, Mpi!LinkOf
<1>5. MpiKept' /\ MpiBuffers'
  BY <1>1 DEF MpiInv, MpiKept, MpiBuffers
<1>6. Chan' = Chan
  BY <1>1, LinkChan DEF IsLinkChan
<1>7. Promise!Call(r, s, tag)
  BY <1>1, <1>6 DEF Promise!Call, Promise!NoWish
<1> QED BY <1>3, <1>4, <1>5, <1>7 DEF MpiInv, Promise!Next

\* MPI_Probe: what it finds stays the first of the link until it is received.
LEMMA MpiProbeHolds ==
  ASSUME MpiInv, backend = "mpi", backend' = "mpi", NEW r \in Ranks, Mpi!Probe(r)
  PROVE  MpiInv' /\ UNCHANGED Promise!vars
<1>1. /\ wish[r] # <<>> /\ network[Mpi!LinkOf(r)] # <<>>
      /\ probed' = [probed EXCEPT ![r] = <<Head(network[Mpi!LinkOf(r)])>>]
      /\ network' = network /\ complete' = complete /\ g_pending' = g_pending
      /\ wish' = wish /\ got' = got /\ sent' = sent /\ received' = received
  BY DEF Mpi!Probe, Mpi!NoWish
<1>2. MpiKept' /\ MpiWishes' /\ MpiBuffers'
  BY <1>1 DEF MpiInv, MpiKept, MpiWishes, MpiBuffers
<1>3. MpiProbed'
  <2>1. \A q \in Ranks : q # r => probed'[q] = probed[q]
    BY <1>1 DEF MpiInv, MpiProbed
  <2>2. probed' = [q \in Ranks |-> probed'[q]] /\ probed'[r] = <<Head(network[Mpi!LinkOf(r)])>>
    BY <1>1 DEF MpiInv, MpiProbed
  <2> QED BY <1>1, <2>1, <2>2 DEF MpiInv, MpiProbed, Mpi!LinkOf
<1> QED BY <1>1, <1>2, <1>3, MpiStutters DEF MpiInv

\* CommShutdown frees buffers only of messages that are complete.
LEMMA MpiShutdownHolds ==
  ASSUME MpiInv, backend = "mpi", backend' = "mpi", NEW r \in Ranks,
         Mpi!CallShutdown(r) \/ Mpi!EndShutdown(r)
  PROVE  MpiInv' /\ UNCHANGED Promise!vars
<1>1. /\ network' = network /\ complete' = complete
      /\ wish' = wish /\ probed' = probed /\ got' = got /\ sent' = sent /\ received' = received
  BY DEF Mpi!CallShutdown, Mpi!EndShutdown
<1>2. MpiKept' /\ MpiWishes' /\ MpiProbed'
  BY <1>1 DEF MpiInv, MpiKept, MpiWishes, MpiProbed, Mpi!LinkOf
<1>3. MpiBuffers'
  <2>1. CASE Mpi!CallShutdown(r)
    BY <1>1, <2>1 DEF MpiInv, MpiBuffers, Mpi!CallShutdown
  <2>2. CASE Mpi!EndShutdown(r)
    <3>1. /\ Mpi!ToSet(g_pending[r]) \subseteq complete
          /\ g_pending' = [g_pending EXCEPT ![r] = <<>>]
      BY <2>2 DEF Mpi!EndShutdown, Mpi!AllComplete
    <3>2. ToSet(g_pending[r]) \subseteq complete
      BY <3>1 DEF Mpi!ToSet, ToSet
    <3>3. g_pending \in [Ranks -> Seq(Mpi!Payloads)]
      BY DEF MpiInv, MpiBuffers
    <3>4. g_pending' \in [Ranks -> Seq(Mpi!Payloads)] /\ \A q \in Ranks \ {r} : g_pending'[q] = g_pending[q]
      BY <3>1, <3>3
    <3>5. \A k \in Mpi!Links : k[1] \in Ranks
      BY LinksAre
    <3> QED BY <1>1, <3>2, <3>4, <3>5 DEF MpiInv, MpiBuffers
  <2> QED BY <2>1, <2>2
<1> QED BY <1>1, <1>2, <1>3, MpiStutters DEF MpiInv

\* MPI_Recv takes the message that was probed, and completes it.
LEMMA MpiRecvHolds ==
  ASSUME MpiInv, backend = "mpi", backend' = "mpi", NEW r \in Ranks, Mpi!Recv(r)
  PROVE  MpiInv' /\ Promise!Next
<1>1. wish[r] # <<>> /\ probed[r] # <<>> /\ network[Mpi!LinkOf(r)] # <<>>
  BY DEF MpiInv, MpiProbed, Mpi!Recv
<1>2. PICK f \in Ranks, t \in Tags :
        f # r /\ wish[r] = <<f, t>> /\ Mpi!LinkOf(r) = <<f, r, t>> /\ <<f, r, t>> \in Mpi!Links
  BY <1>1, LooksAtLink DEF MpiInv
<1>3. PICK P, L, h, F, G : /\ P = Mpi!Payloads /\ L = Mpi!Links /\ h = <<f, r, t>>
                           /\ F = network /\ G = network'
  OBVIOUS
<1>4. h \in L /\ h = Mpi!LinkOf(r) /\ F[h] # <<>> /\ h[2] = r
  BY <1>1, <1>2, <1>3
<1>5. PICK b, s : b = Head(F[h]) /\ s = Tail(F[h])
  OBVIOUS
<1>6. /\ got' = [got EXCEPT ![r] = {b}] /\ complete' = complete \cup {b}
      /\ received' = received \cup {b}
      /\ G = [F EXCEPT ![h] = s]
      /\ probed' = [probed EXCEPT ![r] = <<>>] /\ wish' = [wish EXCEPT ![r] = <<>>]
      /\ g_pending' = g_pending /\ sent' = sent
  BY <1>3, <1>4, <1>5 DEF Mpi!Recv, Mpi!NoWish
<1>7. IsKept(F, L, P, Self, P, sent, received) /\ Self \in [P -> P] /\ \A p \in P : Self[p] = p
  BY <1>3, SelfType DEF MpiInv, MpiKept
<1>8. F \in [L -> Seq(P)] /\ F[h] \in Seq(P)
  BY <1>4, <1>7 DEF IsKept
<1>9. IsWithout(F[h], s, 1, P) /\ b = F[h][1] /\ 1 \in 1 .. Len(F[h])
  <2>1. PICK q \in Seq(P) : q = F[h]
    BY <1>8
  <2> QED BY <1>4, <1>5, <2>1, RestIs
<1>10. b \in P /\ G \in [L -> Seq(P)] /\ G[h] = s /\ \A k \in L : k # h => G[k] = F[k]
  BY <1>4, <1>6, <1>8, <1>9 DEF IsWithout
<1>11. MpiKept'
  <2>1. PICK S, val, snt, rec, u : S = P /\ val = Self /\ snt = sent /\ rec = received /\ u = received'
    OBVIOUS
  <2>2. /\ val \in [S -> P] /\ IsKept(F, L, S, val, P, snt, rec)
        /\ h \in L /\ 1 \in 1 .. Len(F[h]) /\ IsWithout(F[h], s, 1, S) /\ IsPut(F, G, h, s)
        /\ IsReceived(rec, u, val, F[h][1])
    BY <1>4, <1>6, <1>7, <1>9, <1>10, <2>1 DEF IsReceived, IsPut
  <2>3. IsKept(G, L, S, val, P, snt, u)
    BY <2>2, KeptByTake
  <2> QED BY <1>3, <1>6, <2>1, <2>3 DEF MpiInv, MpiKept
<1>12. wish \in [Ranks -> Wishes]
  BY DEF MpiInv, MpiWishes
<1>13. wish' \in [Ranks -> Wishes] /\ wish'[r] = <<>> /\ \A q \in Ranks : q # r => wish'[q] = wish[q]
  BY <1>6, <1>12 DEF Wishes
<1>14. MpiWishes'
  BY <1>13 DEF MpiInv, MpiWishes
<1>15. MpiProbed'
  <2>1. probed' = [q \in Ranks |-> probed'[q]] /\ probed'[r] = <<>>
        /\ \A q \in Ranks : q # r => probed'[q] = probed[q]
    BY <1>6 DEF MpiInv, MpiProbed
  <2>2. ASSUME NEW q \in Ranks, probed'[q] # <<>>
        PROVE  /\ wish'[q] # <<>> /\ network'[Mpi!LinkOf(q)'] # <<>>
               /\ probed'[q] = <<Head(network'[Mpi!LinkOf(q)'])>>
    <3>1. q # r /\ probed[q] # <<>> /\ probed'[q] = probed[q] /\ wish'[q] = wish[q]
      BY <1>13, <2>1, <2>2
    <3>2. wish[q] # <<>> /\ F[Mpi!LinkOf(q)] # <<>> /\ probed[q] = <<Head(F[Mpi!LinkOf(q)])>>
      BY <1>3, <3>1 DEF MpiInv, MpiProbed
    <3>3. PICK g \in Ranks, y \in Tags : Mpi!LinkOf(q) = <<g, q, y>> /\ <<g, q, y>> \in Mpi!Links
      BY <3>2, LooksAtLink DEF MpiInv
    <3>4. Mpi!LinkOf(q)' = Mpi!LinkOf(q)
      BY <3>1 DEF Mpi!LinkOf
    <3>5. Mpi!LinkOf(q) # h /\ Mpi!LinkOf(q) \in L
      BY <1>3, <1>4, <3>1, <3>3
    <3>6. G[Mpi!LinkOf(q)] = F[Mpi!LinkOf(q)]
      BY <1>10, <3>5
    <3> QED BY <1>3, <3>1, <3>2, <3>4, <3>6
  <2> QED BY <2>1, <2>2 DEF MpiProbed
<1>16. MpiBuffers'
  <2>1. ASSUME NEW k \in L, NEW i \in DOMAIN G[k]
        PROVE  G[k][i] \in complete \cup {b} \/ G[k][i] \in ToSet(g_pending[k[1]])
    <3>1. \E j \in DOMAIN F[k] : G[k][i] = F[k][j]
      <4>1. CASE k = h
        <5>1. i \in 1 .. Len(F[h]) - 1 /\ s[i] = F[h][i + 1] /\ i + 1 \in DOMAIN F[h]
          BY <1>8, <1>9, <1>10, <2>1, <4>1 DEF IsWithout
        <5> QED BY <1>10, <4>1, <5>1
      <4>2. CASE k # h
        BY <1>10, <4>2
      <4> QED BY <4>1, <4>2
    <3> QED BY <1>3, <3>1 DEF MpiInv, MpiBuffers
  <2> QED BY <1>3, <1>6, <2>1 DEF MpiInv, MpiBuffers
<1>17. PICK C, D, K : C = Chan /\ D = Chan' /\ K = Ranks \X Ranks \X Tags
  OBVIOUS
<1>18. C[h] = F[h] /\ D = [C EXCEPT ![h] = Tail(C[h])]
  <2>1. IsLinkChan(C, F) /\ IsLinkChan(D, G)
    BY <1>3, <1>17, LinkChan
  <2>2. /\ C = [k \in K |-> IF k[1] = k[2] THEN <<>> ELSE F[k]]
        /\ D = [k \in K |-> IF k[1] = k[2] THEN <<>> ELSE G[k]]
    BY <1>17, <2>1 DEF IsLinkChan
  <2>3. h \in K /\ h[1] # h[2] /\ \A k \in K : k[1] # k[2] => k \in L
    BY <1>2, <1>3, <1>17, LinksAre
  <2>4. C[h] = F[h]
    BY <2>2, <2>3
  <2>5. \A k \in K : D[k] = IF k = h THEN Tail(C[h]) ELSE C[k]
    BY <1>5, <1>10, <2>2, <2>3, <2>4
  <2> QED BY <2>2, <2>3, <2>4, <2>5
<1>19. <<wish[r][1], r, wish[r][2]>> = h
  BY <1>2, <1>3
<1>20. Promise!Return(r)
  BY <1>1, <1>4, <1>5, <1>6, <1>17, <1>18, <1>19 DEF Promise!Return, Promise!NoWish
<1> QED BY <1>11, <1>14, <1>15, <1>16, <1>20 DEF MpiInv, Promise!Next

-----------------------------------------------------------------------------
\* Whichever backend runs.
BackendInv ==
  /\ backend \in {"threads", "mpi"}
  /\ backend = "threads" => ThreadInv
  /\ backend = "mpi" => MpiInv

\* Nothing is under way at first.
LEMMA InitHolds == Init => BackendInv /\ Promise!Init
<1> SUFFICES ASSUME Init PROVE BackendInv /\ Promise!Init
  OBVIOUS
<1>1. /\ backend \in {"threads", "mpi"}
      /\ g_queues = [r \in Ranks |-> <<>>] /\ wish = [r \in Ranks |-> <<>>]
      /\ got = [r \in Ranks |-> {}] /\ sent = [r \in Ranks |-> 0] /\ received = {}
      /\ network = [k \in Mpi!Links |-> <<>>] /\ g_pending = [r \in Ranks |-> <<>>]
      /\ probed = [r \in Ranks |-> <<>>]
  BY DEF Init, Threads!Init, Mpi!InitMpi, Threads!NoWish
<1>2. wish \in [Ranks -> Wishes] /\ \A r \in Ranks : wish[r] = <<>>
  BY <1>1 DEF Wishes
<1>3. ASSUME NEW K, NEW S, NEW val, NEW N \in Nat, NEW P, IsPayloads(P, Ranks, N),
             NEW F, F = [k \in K |-> <<>>]
      PROVE  IsKept(F, K, S, val, P, sent, received) /\ sent \in [Ranks -> 0 .. N]
  <2>1. F \in [K -> Seq(S)] /\ \A k \in K : DOMAIN F[k] = {}
    BY <1>3
  <2>2. \A p \in P : ~ Holds(F, K, val, p)
    BY <2>1 DEF Holds
  <2>3. \A p \in P : ~ (p[2] <= sent[p[1]])
    BY <1>1, <1>3 DEF IsPayloads
  <2> QED BY <1>1, <2>1, <2>2, <2>3 DEF IsKept
<1>4. ThreadInv
  <2>1. IsPayloads(Threads!Payloads, Ranks, ThreadSends)
    BY BytesType DEF IsPayloads
  <2> QED BY <1>1, <1>2, <1>3, <2>1, SendsAssumption DEF ThreadInv
<1>5. MpiInv
  <2>1. MpiKept
    BY <1>1, <1>3, SelfType, SendsAssumption DEF MpiKept
  <2> QED BY <1>1, <1>2, <2>1 DEF MpiInv, MpiWishes, MpiProbed, MpiBuffers
<1>6. Chan = [k \in Ranks \X Ranks \X Tags |-> <<>>]
  <2>1. CASE backend = "threads"
    <3>1. IsChan(Chan, g_queues)
      BY <2>1, ThreadChan
    <3>2. ASSUME NEW f, NEW t PROVE Threads!Gathered(<<>>, f, t) = <<>>
      <4>1. Carries(<<>>, {})
        BY DEF Carries
      <4>2. PICK u : IsGathered(u, <<>>, f, t, {})
        BY <4>1, GatheredIs
      <4> QED BY <4>2, GatheringSteps DEF IsGathered
    <3>3. \A k \in Ranks \X Ranks \X Tags : g_queues[k[2]] = <<>>
      BY <1>1
    <3> QED BY <3>1, <3>2, <3>3 DEF IsChan
  <2>2. CASE backend # "threads"
    <3>1. IsLinkChan(Chan, network)
      BY <2>2, LinkChan
    <3>2. \A k \in Ranks \X Ranks \X Tags : k[1] # k[2] => network[k] = <<>>
      BY <1>1, LinksAre
    <3> QED BY <3>1, <3>2 DEF IsLinkChan
  <2> QED BY <2>1, <2>2
<1> QED BY <1>1, <1>4, <1>5, <1>6 DEF BackendInv, Promise!Init, Promise!NoWish

\* Every step keeps the invariant, and is a step of the channels or none.
LEMMA NextHolds == BackendInv /\ [Next]_vars => BackendInv' /\ [Promise!Next]_(Promise!vars)
<1> SUFFICES ASSUME BackendInv, [Next]_vars PROVE BackendInv' /\ [Promise!Next]_(Promise!vars)
  OBVIOUS
<1>1. CASE ThreadStep
  <2>1. backend = "threads" /\ backend' = "threads" /\ ThreadInv /\ Threads!Next
    BY <1>1 DEF ThreadStep, BackendInv
  <2>2. PICK r \in Ranks :
          \/ \E dest \in Ranks, tag \in Tags : Threads!CommSend(r, dest, tag)
          \/ \E from \in Ranks, tag \in Tags : Threads!CallRecv(r, from, tag)
          \/ Threads!CommRecv(r)
    BY <2>1 DEF Threads!Next
  <2>3. ThreadInv' /\ Promise!Next
    BY <2>1, <2>2, ThreadSendHolds, ThreadCallHolds, ThreadRecvHolds
  <2> QED BY <2>1, <2>3 DEF BackendInv
<1>2. CASE MpiStep
  <2>1. backend = "mpi" /\ backend' = "mpi" /\ MpiInv /\ Mpi!NextMpi
    BY <1>2 DEF MpiStep, BackendInv
  <2>2. CASE \E k \in Mpi!Links : Mpi!CompleteEarly(k)
    BY <2>1, <2>2, MpiCompleteHolds DEF BackendInv
  <2>3. CASE \E r \in Ranks : \E s \in Ranks \ {r}, tag \in Tags : Mpi!CommSend(r, s, tag)
    BY <2>1, <2>3, MpiSendHolds DEF BackendInv
  <2>4. CASE \E r \in Ranks : \E s \in Ranks \ {r}, tag \in Tags : Mpi!CallRecv(r, s, tag)
    BY <2>1, <2>4, MpiCallHolds DEF BackendInv
  <2>5. CASE \E r \in Ranks : Mpi!Probe(r)
    BY <2>1, <2>5, MpiProbeHolds DEF BackendInv
  <2>6. CASE \E r \in Ranks : Mpi!Recv(r)
    BY <2>1, <2>6, MpiRecvHolds DEF BackendInv
  <2>7. CASE \E r \in Ranks : Mpi!CallShutdown(r) \/ Mpi!EndShutdown(r)
    BY <2>1, <2>7, MpiShutdownHolds DEF BackendInv
  <2> QED BY <2>1, <2>2, <2>3, <2>4, <2>5, <2>6, <2>7 DEF Mpi!NextMpi
<1>3. CASE UNCHANGED vars
  <2>1. BackendInv'
    BY <1>3 DEF BackendInv, ThreadInv, MpiInv, MpiKept, MpiWishes, MpiProbed, MpiBuffers,
                Mpi!LinkOf, vars, mpiVars
  <2>2. UNCHANGED Promise!vars
    BY <1>3 DEF Promise!vars, Chan, Threads!Under, vars, mpiVars
  <2> QED BY <2>1, <2>2
<1> QED BY <1>1, <1>2, <1>3 DEF Next

\* What the invariant says of the messages.
LEMMA Conserved == BackendInv => MessagesAreConserved
<1> SUFFICES ASSUME BackendInv PROVE MessagesAreConserved
  OBVIOUS
<1>1. CASE backend = "threads"
  <2>1. IsKept(g_queues, Ranks, Threads!Messages, Bytes, Threads!Payloads, sent, received)
    BY <1>1 DEF BackendInv, ThreadInv
  <2>2. g_queues \in [Ranks -> Seq(Threads!Messages)]
    BY <2>1 DEF IsKept
  <2>3. \A r \in Ranks : \A i \in DOMAIN g_queues[r] : Bytes[g_queues[r][i]] = g_queues[r][i].bytes
    BY <2>2 DEF Bytes
  <2>4. \A p : Threads!IsQueued(p) <=> Holds(g_queues, Ranks, Bytes, p)
    BY <2>3 DEF Threads!IsQueued, Holds
  <2>5. \A r, s \in Ranks : \A i \in DOMAIN g_queues[r], j \in DOMAIN g_queues[s] :
          g_queues[r][i].bytes = g_queues[s][j].bytes => r = s /\ i = j
    BY <2>1, <2>3 DEF IsKept
  <2>6. /\ \A p \in Threads!Payloads : p[2] <= sent[p[1]] <=> p \in received \/ Threads!IsQueued(p)
        /\ \A p \in received : p \in Threads!Payloads /\ ~ Threads!IsQueued(p)
    BY <2>1, <2>4 DEF IsKept
  <2>7. \A r \in Ranks : g_queues[r] \in Seq(Threads!Messages)
    BY <2>2
  <2>8. Threads!MessagesAreConserved
    BY <2>5, <2>6, <2>7 DEF Threads!MessagesAreConserved
  <2> QED BY <1>1, <2>8 DEF MessagesAreConserved
<1>2. CASE backend # "threads"
  <2>1. MpiInv
    BY <1>2 DEF BackendInv
  <2>2. IsKept(network, Mpi!Links, Mpi!Payloads, Self, Mpi!Payloads, sent, received)
    BY <2>1 DEF MpiInv, MpiKept
  <2>3. network \in [Mpi!Links -> Seq(Mpi!Payloads)]
    BY <2>2 DEF IsKept
  <2>4. \A k \in Mpi!Links : \A i \in DOMAIN network[k] : Self[network[k][i]] = network[k][i]
    BY <2>3, SelfType
  <2>5. \A p : Mpi!IsUnderWay(p) <=> Holds(network, Mpi!Links, Self, p)
    BY <2>4 DEF Mpi!IsUnderWay, Holds
  <2>6. \A k, l \in Mpi!Links : \A i \in DOMAIN network[k], j \in DOMAIN network[l] :
          network[k][i] = network[l][j] => k = l /\ i = j
    BY <2>2, <2>4 DEF IsKept
  <2>7. /\ \A p \in Mpi!Payloads : p[2] <= sent[p[1]] <=> p \in received \/ Mpi!IsUnderWay(p)
        /\ \A p \in received : p \in Mpi!Payloads /\ ~ Mpi!IsUnderWay(p)
    BY <2>2, <2>5 DEF IsKept
  <2>8. ASSUME NEW r \in Ranks, probed[r] # <<>>
        PROVE  Mpi!IsPrefix(probed[r], network[Mpi!LinkOf(r)])
    <3>1. /\ wish[r] # <<>> /\ network[Mpi!LinkOf(r)] # <<>>
          /\ probed[r] = <<Head(network[Mpi!LinkOf(r)])>>
      BY <2>1, <2>8 DEF MpiInv, MpiProbed
    <3>2. Mpi!LinkOf(r) \in Mpi!Links
      BY <2>1, <3>1, LooksAtLink DEF MpiInv
    <3>3. PICK q \in Seq(Mpi!Payloads) : q = network[Mpi!LinkOf(r)]
      BY <2>3, <3>2
    <3>4. q # <<>> /\ probed[r] = <<q[1]>> /\ Len(q) >= 1 /\ q[1] \in Mpi!Payloads
      BY <3>1, <3>3
    <3>5. ASSUME NEW v \in Seq(Mpi!Payloads), Len(v) >= 1 PROVE SubSeq(v, 1, 1) = <<v[1]>>
      <4>1. /\ SubSeq(v, 1, 1) \in Seq(Mpi!Payloads) /\ Len(SubSeq(v, 1, 1)) = 1
            /\ SubSeq(v, 1, 1)[1] = v[1]
        BY <3>5
      <4>2. <<v[1]>> \in Seq(Mpi!Payloads) /\ Len(<<v[1]>>) = 1 /\ <<v[1]>>[1] = v[1]
        BY <3>5
      <4>3. \A j \in 1 .. 1 : SubSeq(v, 1, 1)[j] = <<v[1]>>[j]
        BY <4>1, <4>2
      <4> QED BY <4>1, <4>2, <4>3, SeqEqual
    <3>6. PICK w \in Seq(Mpi!Payloads) : w = <<q[1]>>
      <4>1. q[1] \in Mpi!Payloads
        BY <3>4
      <4>2. <<q[1]>> \in Seq(Mpi!Payloads)
        BY <4>1
      <4> QED BY <4>2, Zenon
    <3>7. w \in Seq(Mpi!Payloads) /\ Len(w) = 1 /\ w[1] = q[1]
      BY <3>4, <3>6
    <3>8. SubSeq(q, 1, 1) = w /\ SubSeq(w, 1, 1) = w
      <4>1. SubSeq(q, 1, 1) = <<q[1]>>
        BY <3>4, <3>5
      <4>2. SubSeq(w, 1, 1) = <<w[1]>>
        <5>1. Len(w) >= 1
          BY <3>7
        <5> QED BY <3>5, <5>1
      <4> QED BY <3>6, <3>7, <4>1, <4>2, Zenon
    <3> QED BY <3>3, <3>4, <3>6, <3>7, <3>8 DEF Mpi!IsPrefix
  <2>9. \A k \in Mpi!Links : \A i \in DOMAIN network[k] :
          network[k][i] \in complete \cup Mpi!ToSet(g_pending[k[1]])
    BY <2>1 DEF MpiInv, MpiBuffers, Mpi!ToSet, ToSet
  <2>10. Mpi!SendsAreSafe
    BY <2>6, <2>7, <2>8, <2>9 DEF Mpi!SendsAreSafe
  <2> QED BY <1>2, <2>10 DEF MessagesAreConserved
<1> QED BY <1>1, <1>2

\* Whichever backend runs, and however many ranks, tags and messages there are: no
\* message is lost or doubled, the message that is probed is the one that is
\* received, and no buffer is given up that is still needed.
THEOREM MessagesStayConserved == Spec => []MessagesAreConserved
<1> QED BY InitHolds, NextHolds, Conserved, PTL DEF Spec

\* Both backends take only steps of the channels: a shared inbox and probing never
\* show.
THEOREM BackendsAreChannels == Spec => Promise!Init /\ [][Promise!Next]_(Promise!vars)
<1> QED BY InitHolds, NextHolds, PTL DEF Spec

-----------------------------------------------------------------------------
(***************************************************************************)
(* The barrier of the thread backend, for every number of ranks and of     *)
(* epochs.                                                                 *)
(***************************************************************************)
\* What a rank's history is in each place it can be at.
HistoryMatchesEpoch ==
  \A r \in ThreadRanks :
    /\ pc[r] \in {"out", "entered"} => passed[r] = g_epoch /\ arrived[r] = g_epoch
    /\ r \in Spinning \/ Closing(r) => passed[r] = g_epoch /\ arrived[r] = g_epoch + 1
    /\ Released(r) => passed[r] + 1 = g_epoch /\ arrived[r] = g_epoch

\* The inductive invariant: the counter alone does not say which epoch the
\* ranks are in, the history alone not how many of them wait.
BarrierInv == TypeOK /\ CounterMatchesWaiting /\ HistoryMatchesEpoch

-----------------------------------------------------------------------------
\* The ranks are finitely many, so are those that wait.
LEMMA RankFacts ==
  /\ g_size \in Nat \ {0}
  /\ IsFiniteSet(Spinning)
  /\ Cardinality(Spinning) \in 0 .. g_size
  /\ Cardinality({}) = 0
<1>1. Spinning \in SUBSET ThreadRanks
  BY DEF Spinning
<1>2. IsFiniteSet(Spinning) /\ Cardinality(Spinning) <= g_size
  BY <1>1, ThreadRanksAssumption, FS_Subset DEF g_size
<1>3. g_size \in Nat /\ g_size # 0 /\ Cardinality({}) = 0
  BY ThreadRanksAssumption, FS_CardinalityType, FS_EmptySet DEF g_size
<1>4. Cardinality(Spinning) \in Nat
  BY <1>2, FS_CardinalityType
<1>5. QED
  BY <1>2, <1>3, <1>4

\* A rank that does not wait leaves room for at most g_size - 1 that do, and
\* if so many wait it is the only one that does not.
LEMMA RoomForOne ==
  ASSUME NEW r \in ThreadRanks, r \notin Spinning
  PROVE  /\ Cardinality(Spinning) < g_size
         /\ Cardinality(Spinning) + 1 = g_size => Spinning = ThreadRanks \ {r}
<1>1. Spinning \in SUBSET (ThreadRanks \ {r})
  BY DEF Spinning
<1>2. IsFiniteSet(ThreadRanks \ {r}) /\ Cardinality(ThreadRanks \ {r}) = g_size - 1
  BY ThreadRanksAssumption, FS_RemoveElement DEF g_size
<1>3. /\ Cardinality(Spinning) <= g_size - 1
      /\ Cardinality(Spinning) = g_size - 1 => Spinning = ThreadRanks \ {r}
  BY <1>1, <1>2, FS_Subset
<1>4. QED
  BY <1>3, RankFacts

\* While a rank is on its way in, or out, nobody closes the epoch.
LEMMA NobodyCloses ==
  ASSUME BarrierInv, NEW r \in ThreadRanks, r \notin Spinning, ~ Closing(r)
  PROVE  (\A s \in ThreadRanks : ~ Closing(s)) /\ g_barrier = Cardinality(Spinning)
<1>1. ASSUME NEW s \in ThreadRanks, Closing(s) PROVE FALSE
  <2>1. Spinning = ThreadRanks \ {s}
    BY <1>1 DEF BarrierInv, CounterMatchesWaiting
  <2>2. QED
    BY <2>1, <1>1
<1>2. QED
  BY <1>1 DEF BarrierInv, CounterMatchesWaiting

-----------------------------------------------------------------------------
LEMMA BarrierStarts == InitBarrier => BarrierInv
<1>1. SUFFICES ASSUME InitBarrier PROVE BarrierInv
  OBVIOUS
<1>2. TypeOK
  BY <1>1, RankFacts DEF InitBarrier, TypeOK
<1>3. Spinning = {} /\ \A r \in ThreadRanks : pc[r] = "out"
  BY <1>1 DEF InitBarrier, Spinning
<1>4. CounterMatchesWaiting
  BY <1>1, <1>3, RankFacts DEF InitBarrier, CounterMatchesWaiting, Closing
<1>5. HistoryMatchesEpoch
  BY <1>1, <1>3 DEF InitBarrier, HistoryMatchesEpoch, Closing, Released
<1>6. QED
  BY <1>2, <1>4, <1>5 DEF BarrierInv

LEMMA EnterKeeps ==
  ASSUME BarrierInv, NEW r \in ThreadRanks, Enter(r)
  PROVE  BarrierInv'
<1>1. TypeOK'
  BY DEF BarrierInv, TypeOK, Enter
<1>2. pc'[r] = "entered" /\ e'[r] = g_epoch /\ g_epoch' = g_epoch /\ g_barrier' = g_barrier
      /\ \A s \in ThreadRanks \ {r} : pc'[s] = pc[s] /\ e'[s] = e[s]
  BY DEF BarrierInv, TypeOK, Enter
<1>3. pc[r] = "out" /\ r \notin Spinning /\ ~ Closing(r)
  BY DEF Enter, Spinning, Closing
<1>4. Spinning' = Spinning
  BY <1>2, <1>3 DEF Spinning
<1>5. (\A s \in ThreadRanks : ~ Closing(s)) /\ g_barrier = Cardinality(Spinning)
  BY <1>3, NobodyCloses
<1>6. \A s \in ThreadRanks : ~ Closing(s)'
  BY <1>2, <1>5 DEF Closing
<1>7. CounterMatchesWaiting'
  BY <1>2, <1>4, <1>5, <1>6 DEF BarrierInv, CounterMatchesWaiting, Closing, Released
<1>8. HistoryMatchesEpoch'
  BY <1>2, <1>3, <1>4, <1>6 DEF BarrierInv, HistoryMatchesEpoch, Closing, Released, Enter
<1>9. QED
  BY <1>1, <1>7, <1>8 DEF BarrierInv

LEMMA CountKeeps ==
  ASSUME BarrierInv, NEW r \in ThreadRanks, Count(r)
  PROVE  BarrierInv'
<1>1. pc[r] = "entered" /\ r \notin Spinning /\ ~ Closing(r) /\ ~ Released(r)
  BY DEF Count, Spinning, Closing, Released
<1>2. /\ \A s \in ThreadRanks : ~ Closing(s)
      /\ g_barrier = Cardinality(Spinning)
      /\ e[r] = g_epoch /\ g_epoch \in Nat
      /\ \A s \in ThreadRanks : pc[s] = "spin" => s \in Spinning \/ Released(s)
  BY <1>1, NobodyCloses DEF BarrierInv, CounterMatchesWaiting, TypeOK
<1>3. /\ pc'[r] = IF g_barrier + 1 = g_size THEN "last" ELSE "spin"
      /\ \A s \in ThreadRanks \ {r} : pc'[s] = pc[s]
      /\ e' = e /\ g_epoch' = g_epoch /\ g_barrier' = g_barrier + 1 /\ passed' = passed
      /\ arrived'[r] = arrived[r] + 1
      /\ \A s \in ThreadRanks \ {r} : arrived'[s] = arrived[s]
  BY DEF BarrierInv, TypeOK, Count
<1>4. g_barrier \in Nat /\ g_size \in Nat /\ g_barrier + 1 <= g_size
  BY <1>1, <1>2, RoomForOne, RankFacts
<1>5. TypeOK'
  <2>1. g_barrier' \in 0 .. g_size
    BY <1>3, <1>4
  <2>2. QED
    BY <2>1 DEF BarrierInv, TypeOK, Count, g_size
<1>6. \A s \in ThreadRanks \ {r} : ~ Closing(s)' /\ (s \in Spinning' <=> s \in Spinning)
                             /\ (Released(s)' <=> Released(s))
  BY <1>2, <1>3 DEF Closing, Spinning, Released
<1>7. ~ Released(r)'
  BY <1>2, <1>3 DEF Released
<1>8. CASE g_barrier + 1 = g_size
  <2>1. Closing(r)' /\ r \notin Spinning' /\ pc'[r] = "last"
    BY <1>3, <1>8 DEF Closing, Spinning
  <2>2. Spinning = ThreadRanks \ {r}
    BY <1>1, <1>2, <1>8, RoomForOne
  <2>3. Spinning' = ThreadRanks \ {r}
    BY <1>6, <2>1, <2>2 DEF Spinning
  <2>4. \A s \in ThreadRanks \ {r} : pc'[s] = "spin" /\ ~ Closing(s)'
    BY <1>6, <2>3 DEF Spinning
  <2>5. CounterMatchesWaiting'
    BY <1>2, <1>3, <1>8, <2>1, <2>3, <2>4 DEF CounterMatchesWaiting, g_size
  <2>6. HistoryMatchesEpoch'
    BY <1>1, <1>2, <1>3, <1>6, <1>7, <2>1, <2>4 DEF BarrierInv, HistoryMatchesEpoch
  <2>7. QED
    BY <1>5, <2>5, <2>6 DEF BarrierInv
<1>9. CASE g_barrier + 1 # g_size
  <2>1. ~ Closing(r)' /\ r \in Spinning' /\ pc'[r] = "spin"
    BY <1>2, <1>3, <1>9 DEF Closing, Spinning
  <2>2. Spinning' = Spinning \cup {r}
    BY <1>6, <2>1 DEF Spinning
  <2>3. Cardinality(Spinning') = g_barrier'
    BY <1>1, <1>2, <1>3, <2>2, RankFacts, FS_AddElement
  <2>4. g_barrier' # g_size'
    BY <1>3, <1>9 DEF g_size
  <2>5. \A s \in ThreadRanks : ~ Closing(s)' /\ pc'[s] # "last"
    BY <1>6, <2>1 DEF Closing
  <2>6. CounterMatchesWaiting'
    <3>1. \A s \in ThreadRanks : pc'[s] = "entered" => e'[s] = g_epoch'
      BY <1>3, <2>1 DEF BarrierInv, CounterMatchesWaiting
    <3>2. \A s \in ThreadRanks : pc'[s] = "spin" => s \in Spinning' \/ Released(s)'
      BY <1>2, <1>3, <1>6, <2>1
    <3>3. QED
      BY <2>3, <2>4, <2>5, <3>1, <3>2 DEF CounterMatchesWaiting
  <2>7. HistoryMatchesEpoch'
    BY <1>1, <1>2, <1>3, <1>6, <1>7, <2>1 DEF BarrierInv, HistoryMatchesEpoch
  <2>8. QED
    BY <1>5, <2>6, <2>7 DEF BarrierInv
<1>10. QED
  BY <1>8, <1>9

LEMMA ResetKeeps ==
  ASSUME BarrierInv, NEW r \in ThreadRanks, Reset(r)
  PROVE  BarrierInv'
<1>1. Closing(r) /\ Spinning = ThreadRanks \ {r} /\ e[r] = g_epoch /\ g_epoch \in Nat
  BY DEF BarrierInv, CounterMatchesWaiting, Reset, Closing, TypeOK
<1>2. /\ pc'[r] = "reset" /\ g_barrier' = 0 /\ g_epoch' = g_epoch /\ e' = e
      /\ \A s \in ThreadRanks \ {r} : pc'[s] = pc[s]
      /\ arrived' = arrived /\ passed' = passed
  BY DEF BarrierInv, TypeOK, Reset
<1>3. \A s \in ThreadRanks \ {r} : pc[s] = "spin" /\ e[s] = g_epoch
  BY <1>1 DEF Spinning
<1>4. TypeOK'
  BY RankFacts DEF BarrierInv, TypeOK, Reset, g_size
<1>5. Spinning' = ThreadRanks \ {r}
  BY <1>2, <1>3 DEF Spinning
<1>6. Closing(r)' /\ \A s \in ThreadRanks \ {r} : ~ Closing(s)' /\ pc'[s] = "spin"
  BY <1>2, <1>3 DEF Closing
<1>7. CounterMatchesWaiting'
  <2>1. g_barrier' # g_size' /\ \A s \in ThreadRanks : pc'[s] # "last"
    BY <1>2, <1>6, RankFacts DEF g_size
  <2>2. QED
    BY <1>1, <1>2, <1>5, <1>6, <2>1 DEF CounterMatchesWaiting
<1>8. HistoryMatchesEpoch'
  <2>1. \A s \in ThreadRanks : passed[s] = g_epoch /\ arrived[s] = g_epoch + 1
    BY <1>1 DEF BarrierInv, HistoryMatchesEpoch
  <2>2. \A s \in ThreadRanks : pc'[s] \notin {"out", "entered"} /\ ~ Released(s)'
    BY <1>1, <1>2, <1>3 DEF Released
  <2>3. QED
    BY <1>2, <2>1, <2>2 DEF HistoryMatchesEpoch
<1>9. QED
  BY <1>4, <1>7, <1>8 DEF BarrierInv

LEMMA OpenKeeps ==
  ASSUME BarrierInv, NEW r \in ThreadRanks, Open(r)
  PROVE  BarrierInv'
<1>1. /\ Closing(r) /\ Spinning = ThreadRanks \ {r} /\ e[r] = g_epoch
      /\ g_epoch \in Nat /\ g_barrier = 0
  BY DEF BarrierInv, CounterMatchesWaiting, Open, Closing, TypeOK
<1>2. /\ pc'[r] = "out" /\ g_barrier' = 0 /\ g_epoch' = g_epoch + 1 /\ e' = e
      /\ \A s \in ThreadRanks \ {r} : pc'[s] = pc[s] /\ passed'[s] = passed[s]
      /\ arrived' = arrived /\ passed'[r] = passed[r] + 1
  BY <1>1 DEF BarrierInv, TypeOK, Open
<1>3. \A s \in ThreadRanks \ {r} : pc[s] = "spin" /\ e[s] = g_epoch
  BY <1>1 DEF Spinning
<1>4. TypeOK'
  BY DEF BarrierInv, TypeOK, Open, g_size
<1>5. \A s \in ThreadRanks : s \notin Spinning'
  BY <1>1, <1>2, <1>3 DEF Spinning
<1>6. Spinning' = {}
  BY <1>5 DEF Spinning
<1>7. \A s \in ThreadRanks : ~ Closing(s)' /\ pc'[s] # "last" /\ pc'[s] # "entered"
  BY <1>2, <1>3 DEF Closing
<1>8. \A s \in ThreadRanks \ {r} : Released(s)' /\ pc'[s] = "spin"
  BY <1>2, <1>3 DEF Released
<1>9. CounterMatchesWaiting'
  <2>1. g_barrier' # g_size' /\ g_barrier' = Cardinality(Spinning')
    BY <1>2, <1>6, RankFacts DEF g_size
  <2>2. QED
    BY <1>2, <1>7, <1>8, <2>1 DEF CounterMatchesWaiting
<1>10. HistoryMatchesEpoch'
  <2>1. \A s \in ThreadRanks : passed[s] = g_epoch /\ arrived[s] = g_epoch + 1
    BY <1>1 DEF BarrierInv, HistoryMatchesEpoch
  <2>2. \A s \in ThreadRanks \ {r} : passed'[s] + 1 = g_epoch' /\ arrived'[s] = g_epoch'
    BY <1>1, <1>2, <2>1
  <2>3. passed'[r] = g_epoch' /\ arrived'[r] = g_epoch' /\ ~ Released(r)'
    BY <1>1, <1>2, <2>1 DEF Released
  <2>4. QED
    BY <1>5, <1>7, <1>8, <2>2, <2>3 DEF HistoryMatchesEpoch
<1>11. QED
  BY <1>4, <1>9, <1>10 DEF BarrierInv

LEMMA LeaveKeeps ==
  ASSUME BarrierInv, NEW r \in ThreadRanks, Leave(r)
  PROVE  BarrierInv'
<1>1. r \notin Spinning /\ ~ Closing(r) /\ Released(r) /\ g_epoch \in Nat
  BY DEF BarrierInv, CounterMatchesWaiting, Leave, Spinning, Closing, TypeOK
<1>2. (\A s \in ThreadRanks : ~ Closing(s)) /\ g_barrier = Cardinality(Spinning)
  BY <1>1, NobodyCloses
<1>3. /\ pc'[r] = "out" /\ g_barrier' = g_barrier /\ g_epoch' = g_epoch /\ e' = e
      /\ \A s \in ThreadRanks \ {r} : pc'[s] = pc[s] /\ passed'[s] = passed[s]
      /\ arrived' = arrived /\ passed'[r] = passed[r] + 1
  BY DEF BarrierInv, TypeOK, Leave
<1>4. TypeOK'
  BY DEF BarrierInv, TypeOK, Leave, g_size
<1>5. Spinning' = Spinning
  BY <1>1, <1>3 DEF Spinning
<1>6. \A s \in ThreadRanks : ~ Closing(s)' /\ (pc'[s] = "last" <=> pc[s] = "last")
  BY <1>2, <1>3 DEF Closing
<1>7. \A s \in ThreadRanks \ {r} : Released(s)' <=> Released(s)
  BY <1>3 DEF Released
<1>8. ~ Released(r)' /\ r \notin Spinning'
  BY <1>1, <1>3, <1>5 DEF Released
<1>9. CounterMatchesWaiting'
  <2>1. g_barrier' = g_size' <=> \E s \in ThreadRanks : pc'[s] = "last"
    BY <1>3, <1>6 DEF BarrierInv, CounterMatchesWaiting, g_size
  <2>2. \A s \in ThreadRanks : pc'[s] = "spin" => s \in Spinning' \/ Released(s)'
    BY <1>3, <1>5, <1>7 DEF BarrierInv, CounterMatchesWaiting
  <2>3. \A s \in ThreadRanks : pc'[s] = "entered" => e'[s] = g_epoch'
    BY <1>3 DEF BarrierInv, CounterMatchesWaiting
  <2>4. QED
    BY <1>2, <1>3, <1>5, <1>6, <2>1, <2>2, <2>3 DEF CounterMatchesWaiting
<1>10. HistoryMatchesEpoch'
  <2>1. passed'[r] = g_epoch' /\ arrived'[r] = g_epoch'
    BY <1>1, <1>3 DEF BarrierInv, HistoryMatchesEpoch
  <2>2. QED
    BY <1>3, <1>5, <1>6, <1>7, <1>8, <2>1 DEF BarrierInv, HistoryMatchesEpoch
<1>11. QED
  BY <1>4, <1>9, <1>10 DEF BarrierInv

LEMMA BarrierNextKeeps == BarrierInv /\ [NextBarrier]_barrierVars => BarrierInv'
<1>1. ASSUME BarrierInv, NextBarrier PROVE BarrierInv'
  <2>1. PICK r \in ThreadRanks : Enter(r) \/ Count(r) \/ Reset(r) \/ Open(r) \/ Leave(r)
    BY <1>1 DEF NextBarrier, Inside, Close
  <2>2. QED
    BY <1>1, <2>1, EnterKeeps, CountKeeps, ResetKeeps, OpenKeeps, LeaveKeeps
<1>2. ASSUME BarrierInv, UNCHANGED barrierVars PROVE BarrierInv'
  BY <1>2 DEF barrierVars, BarrierInv, TypeOK, CounterMatchesWaiting, HistoryMatchesEpoch,
     Spinning, Closing, Released, g_size
<1>3. QED
  BY <1>1, <1>2

\* Counter and history agree with the epoch at every moment.
LEMMA BarrierInvariant == BarrierSpec => []BarrierInv
BY BarrierStarts, BarrierNextKeeps, PTL DEF BarrierSpec, SafeBarrierSpec

-----------------------------------------------------------------------------
\* The counter never exceeds the number of ranks, and every rank is in one of
\* the places CommBarrier has.
THEOREM BarrierTypesHold == BarrierSpec => []TypeOK
BY BarrierInvariant, PTL DEF BarrierInv

\* The counter counts exactly the ranks that wait in the current epoch, and
\* whoever resets it is alone to do so: CommBarrier needs no lock.
THEOREM CounterIsExact == BarrierSpec => []CounterMatchesWaiting
BY BarrierInvariant, PTL DEF BarrierInv

LEMMA HistoryBounds == BarrierInv => \A r, s \in ThreadRanks : passed[r] <= g_epoch /\ g_epoch <= arrived[s]
<1>1. SUFFICES ASSUME BarrierInv, NEW r \in ThreadRanks
               PROVE  passed[r] <= g_epoch /\ g_epoch <= arrived[r]
  OBVIOUS
<1>2. \/ pc[r] \in {"out", "entered"}
      \/ r \in Spinning \/ Released(r)
      \/ Closing(r)
  BY <1>1 DEF BarrierInv, TypeOK, CounterMatchesWaiting, Closing
<1>3. passed[r] \in Nat /\ arrived[r] \in Nat /\ g_epoch \in Nat
  BY <1>1 DEF BarrierInv, TypeOK
<1>4. QED
  BY <1>1, <1>2, <1>3 DEF BarrierInv, HistoryMatchesEpoch

\* Whatever the ranks' relative speed, none is behind the barrier before all
\* have come to it.
THEOREM BarrierSeparates == BarrierSpec => []NobodyPassesEarly
<1>1. BarrierInv => NobodyPassesEarly
  <2>1. SUFFICES ASSUME BarrierInv, NEW r \in ThreadRanks, NEW s \in ThreadRanks
                 PROVE  passed[r] <= arrived[s]
    BY DEF NobodyPassesEarly
  <2>2. passed[r] \in Nat /\ arrived[s] \in Nat /\ g_epoch \in Nat
    BY <2>1 DEF BarrierInv, TypeOK
  <2>3. QED
    BY <2>1, <2>2, HistoryBounds
<1>2. QED
  BY <1>1, BarrierInvariant, PTL

-----------------------------------------------------------------------------
LEMMA StepIsPromised == BarrierInv /\ [NextBarrier]_barrierVars => [AbstractBarrier!Next]_(AbstractBarrier!vars)
<1>1. SUFFICES ASSUME BarrierInv, [NextBarrier]_barrierVars
               PROVE  AbstractBarrier!Next \/ UNCHANGED <<arrived, passed>>
  BY DEF AbstractBarrier!vars
<1>2. arrived \in [ThreadRanks -> Nat] /\ passed \in [ThreadRanks -> Nat] /\ g_epoch \in Nat
  BY <1>1 DEF BarrierInv, TypeOK
<1>3. ASSUME NEW r \in ThreadRanks, Count(r) PROVE AbstractBarrier!Arrive(r)
  <2>1. passed[r] = arrived[r]
    BY <1>1, <1>3 DEF Count, BarrierInv, HistoryMatchesEpoch
  <2>2. QED
    BY <1>3, <2>1 DEF Count, AbstractBarrier!Arrive
<1>4. ASSUME NEW r \in ThreadRanks, Open(r) PROVE AbstractBarrier!Pass(r)
  <2>1. Closing(r) /\ Spinning = ThreadRanks \ {r}
    BY <1>1, <1>4 DEF Open, Closing, BarrierInv, CounterMatchesWaiting
  <2>2. \A s \in ThreadRanks : passed[r] < arrived[s]
    BY <1>1, <1>2, <2>1 DEF BarrierInv, HistoryMatchesEpoch
  <2>3. QED
    BY <1>4, <2>2 DEF Open, AbstractBarrier!Pass
<1>5. ASSUME NEW r \in ThreadRanks, Leave(r) PROVE AbstractBarrier!Pass(r)
  <2>1. Released(r)
    BY <1>1, <1>5 DEF Leave, Spinning, BarrierInv, CounterMatchesWaiting
  <2>2. \A s \in ThreadRanks : passed[r] < arrived[s]
    <3>1. passed[r] + 1 = g_epoch
      BY <1>1, <2>1 DEF BarrierInv, HistoryMatchesEpoch
    <3>2. QED
      BY <1>1, <1>2, <3>1, HistoryBounds
  <2>3. QED
    BY <1>5, <2>2 DEF Leave, AbstractBarrier!Pass
<1>6. CASE NextBarrier
  <2>1. PICK r \in ThreadRanks : Enter(r) \/ Count(r) \/ Reset(r) \/ Open(r) \/ Leave(r)
    BY <1>6 DEF NextBarrier, Inside, Close
  <2>2. CASE Enter(r) \/ Reset(r)
    BY <2>2 DEF Enter, Reset
  <2>3. CASE Count(r) \/ Open(r) \/ Leave(r)
    BY <2>3, <1>3, <1>4, <1>5 DEF AbstractBarrier!Next
  <2>4. QED
    BY <2>1, <2>2, <2>3
<1>7. CASE UNCHANGED barrierVars
  BY <1>7 DEF barrierVars
<1>8. QED
  BY <1>1, <1>6, <1>7

\* The barrier of counter and epoch implements the abstract one: every step of
\* a rank is an arrival, a passage that is allowed, or invisible.
THEOREM ImplementsBarrier == BarrierSpec => KeepsSafeBarrier
<1>1. InitBarrier => AbstractBarrier!Init
  BY DEF InitBarrier, AbstractBarrier!Init
<1>2. QED
  BY <1>1, StepIsPromised, BarrierInvariant, PTL DEF BarrierSpec, SafeBarrierSpec, KeepsSafeBarrier, AbstractBarrier!SafeSpec
=============================================================================
