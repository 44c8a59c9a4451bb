---------------------------- MODULE DriverProofs ----------------------------
(***************************************************************************)
(* The data of the ranks: what every rank has of its tile and its labels   *)
(* at each turn, and what each message says of them (DataInv); what every  *)
(* rank has found of the outlets and rank 0 has merged (OutletInv); how    *)
(* the walks of the tiles fall over the seams (SinkInv).  From those: no   *)
(* pass is lost by cutting the raster, and the chase goes down.            *)
(***************************************************************************)
EXTENDS RankProofs

-----------------------------------------------------------------------------
(***************************************************************************)
(* What each rank keeps and sends, up to the labels it ends with.          *)
(***************************************************************************)
\* The flooded tile of a rank, and its first global label.
TileHolds(r, t) ==
  /\ t.label \in [Owned(r) -> Nat] /\ t.flow \in [Owned(r) -> Owned(r) \cup {NO_FLOW}]
  /\ t.pits \in Seq(Owned(r)) /\ Len(t.pits) <= Cardinality(Owned(r))
  /\ \A c \in Owned(r) : t.label[c] \in {OCEAN, BOUNDARY, NO_DEP} \cup (1 .. Len(t.pits))
  /\ \A c \in Owned(r) : terrain[c].ocean => t.label[c] = OCEAN
OffsetHolds(r, o) == o \in Nat \ {0} /\ o + Len(tile[r].pits) <= Width * Height + 1

\* Labels of all cells of a rank, OCEAN those of the ocean.
LabelsHold(r, labels) ==
  labels \in [Owned(r) -> Nat] /\ \A c \in Owned(r) : terrain[c].ocean => labels[c] = OCEAN

\* Global labels, BOUNDARY only where that is the label in the tile; the cells
\* that have that label, the walks from them, and what they are resolved to.
GlobalHolds(r, labels) ==
  LabelsHold(r, labels) /\ \A c \in Owned(r) : labels[c] = BOUNDARY => tile[r].label[c] = BOUNDARY
Conduit(r) == {c \in Owned(r) : tile[r].label[c] = BOUNDARY}
WalksHold(D, w) == DOMAIN w = D /\ \A c \in D : w[c].terminal => w[c].label \in Nat
ResolvedHolds(r, labels) == DOMAIN labels = Conduit(r) /\ \A c \in Conduit(r) : labels[c] \in Nat

\* A local label made global.
LEMMA GmapFits ==
  ASSUME NEW n \in Nat, NEW l \in {OCEAN, BOUNDARY, NO_DEP} \cup (1 .. n),
         NEW o \in Nat \ {0}, o + n <= Width * Height + 1
  PROVE  gmap(l, o) \in Nat /\ (gmap(l, o) = BOUNDARY => l = BOUNDARY) /\ (l = OCEAN => gmap(l, o) = OCEAN)
<1> DEFINE m == Width * Height
<1>1. BOUNDARY \in Nat /\ NO_DEP \in Nat /\ BOUNDARY < NO_DEP /\ m < BOUNDARY /\ m \in Nat /\ OCEAN = 0 /\ o + n <= m + 1
  BY LabelAssumption, CellCount DEF CellTotal, OCEAN
<1> HIDE DEF m
<1>2. CASE l \in {OCEAN, BOUNDARY}
  BY <1>1, <1>2 DEF gmap, Exterior
<1>3. CASE l \notin {OCEAN, BOUNDARY}
  <2>1. gmap(l, o) = o + l - 1
    BY <1>3 DEF gmap, Exterior
  <2>2. l \in Nat /\ (l = NO_DEP \/ l <= n)
    BY <1>1, <1>3
  <2>3. o + l - 1 \in Nat /\ o + l - 1 # BOUNDARY
    BY <1>1, <2>2
  <2> QED BY <1>3, <2>1, <2>3
<1> QED BY <1>2, <1>3

\* The labels of a tile made global.
LEMMA GlobalLabels ==
  ASSUME NEW r \in Ranks, TileHolds(r, tile[r]), NEW o, OffsetHolds(r, o)
  PROVE  GlobalHolds(r, [c \in Owned(r) |-> gmap(tile[r].label[c], o)])
<1> DEFINE g == [c \in Owned(r) |-> gmap(tile[r].label[c], o)]
           n == Len(tile[r].pits)
<1>1. n \in Nat /\ o \in Nat \ {0} /\ o + n <= Width * Height + 1
  BY DEF TileHolds, OffsetHolds
<1>2. ASSUME NEW c \in Owned(r)
      PROVE  /\ gmap(tile[r].label[c], o) \in Nat
             /\ gmap(tile[r].label[c], o) = BOUNDARY => tile[r].label[c] = BOUNDARY
             /\ terrain[c].ocean => gmap(tile[r].label[c], o) = OCEAN
  <2> DEFINE l == tile[r].label[c]
  <2>1. l \in {OCEAN, BOUNDARY, NO_DEP} \cup (1 .. n) /\ (terrain[c].ocean => l = OCEAN)
    BY DEF TileHolds
  <2> HIDE DEF l, n
  <2>2. gmap(l, o) \in Nat /\ (gmap(l, o) = BOUNDARY => l = BOUNDARY) /\ (l = OCEAN => gmap(l, o) = OCEAN)
    BY <1>1, <2>1, GmapFits
  <2> QED BY <2>1, <2>2 DEF l
<1> QED BY <1>2 DEF GlobalHolds, LabelsHold

\* A walk is a run along the flow directions of the tile.
LEMMA WalkRuns ==
  ASSUME NEW r \in Ranks, TileHolds(r, tile[r]), NEW c \in Owned(r)
  PROVE  \E g : /\ IsRun(g, Cardinality(Owned(r)) + 1, Owned(r), c,
                         [x \in Owned(r) |-> IF tile[r].label[x] # BOUNDARY \/ tile[r].flow[x] = NO_FLOW THEN x
                                             ELSE tile[r].flow[x]])
                /\ WalkEnd(r, c) = g[Cardinality(Owned(r)) + 1]
<1> DEFINE n == Cardinality(Owned(r)) + 1
           V == Owned(r)
           Step1 == [x \in V |-> IF tile[r].label[x] # BOUNDARY \/ tile[r].flow[x] = NO_FLOW THEN x
                                 ELSE tile[r].flow[x]]
           q == [i \in 1 .. n |-> i]
           Is(f) == f = [R \in SUBSET DOMAIN q |->
                           IF R = {} THEN c
                           ELSE LET x == Max(R)
                                IN  IF tile[r].label[f[R \ {x}]] # BOUNDARY \/ tile[r].flow[f[R \ {x}]] = NO_FLOW
                                    THEN f[R \ {x}] ELSE tile[r].flow[f[R \ {x}]]]
           it == CHOOSE f : Is(f)
<1>1. n \in Nat
  <2>1. Cardinality(Owned(r)) \in Nat
    BY OwnedIs, FS_CardinalityType
  <2> QED BY <2>1
<1>2. Step1 \in [V -> V]
  BY DEF TileHolds
<1>3. PICK F : IsRepeat(F, n, V, c, Step1)
  <2> HIDE DEF n, Step1
  <2> QED BY <1>1, <1>2, RepeatExists
<1>4. DOMAIN q = 1 .. n
  OBVIOUS
<1>5. Is(F)
  <2>1. \A R \in SUBSET (1 .. n) :
          F[R] = IF R = {} THEN c
                 ELSE IF tile[r].label[F[R \ {Max(R)}]] # BOUNDARY \/ tile[r].flow[F[R \ {Max(R)}]] = NO_FLOW
                      THEN F[R \ {Max(R)}] ELSE tile[r].flow[F[R \ {Max(R)}]]
    BY <1>3 DEF IsRepeat
  <2>2. F = [R \in SUBSET (1 .. n) |-> F[R]]
    BY <1>3 DEF IsRepeat
  <2> HIDE DEF n, q
  <2> QED BY <1>4, <2>1, <2>2
<1>6. Is(it)
  <2> HIDE DEF Is
  <2> QED BY <1>5
<1>7. it[{}] = c
  BY <1>6
<1>8. ASSUME NEW i \in 1 .. n, it[1 .. i - 1] \in V PROVE it[1 .. i] = Step1[it[1 .. i - 1]]
  <2>1. 1 .. i # {} /\ Max(1 .. i) = i /\ (1 .. i) \ {i} = 1 .. i - 1
    <3>1. i \in Nat \ {0}
      OBVIOUS
    <3> QED BY <3>1, Prefix
  <2>2. 1 .. i \in SUBSET DOMAIN q
    <3>1. n \in Nat /\ i \in 1 .. n
      BY <1>1
    <3> HIDE DEF n, q
    <3>2. 1 .. i \subseteq 1 .. n
      BY <3>1
    <3> QED BY <1>4, <3>2
  <2> DEFINE y == it[1 .. i - 1]
             Go(z) == IF tile[r].label[z] # BOUNDARY \/ tile[r].flow[z] = NO_FLOW THEN z ELSE tile[r].flow[z]
  <2>5. \A R \in SUBSET DOMAIN q : R # {} => it[R] = Go(it[R \ {Max(R)}])
    <3> HIDE DEF it, q, n
    <3> QED BY <1>6
  <2>3. it[1 .. i] = Go(y)
    <3> HIDE DEF it, q, n, Go
    <3>1. it[1 .. i] = Go(it[(1 .. i) \ {Max(1 .. i)}])
      BY <2>1, <2>2, <2>5
    <3> QED BY <2>1, <3>1
  <2>4. y \in V
    BY <1>8
  <2> HIDE DEF it, y
  <2> QED BY <2>3, <2>4 DEF y
<1>9. PICK g : IsRun(g, n, V, c, Step1) /\ g[n] = it[1 .. n]
  <2> HIDE DEF it, n, Step1
  <2> QED BY <1>1, <1>2, <1>7, <1>8, RunMade
<1>10. WalkEnd(r, c) = it[1 .. n]
  BY <1>4 DEF WalkEnd, FoldLeft, MapThenFoldSet
<1>11. \E h : IsRun(h, n, V, c, Step1) /\ WalkEnd(r, c) = h[n]
  <2> HIDE DEF it, n, V, Step1
  <2> QED BY <1>9, <1>10
<1> QED BY <1>11

\* It stays in the tile.
LEMMA WalkStays ==
  ASSUME NEW r \in Ranks, TileHolds(r, tile[r]), NEW c \in Owned(r)
  PROVE  WalkEnd(r, c) \in Owned(r)
<1> DEFINE n == Cardinality(Owned(r)) + 1
           Step1 == [x \in Owned(r) |-> IF tile[r].label[x] # BOUNDARY \/ tile[r].flow[x] = NO_FLOW THEN x
                                        ELSE tile[r].flow[x]]
<1>1. PICK g : IsRun(g, n, Owned(r), c, Step1) /\ WalkEnd(r, c) = g[n]
  BY WalkRuns
<1>2. n \in Nat
  BY OwnedIs, FS_CardinalityType
<1> HIDE DEF n, Step1
<1>3. n \in 0 .. n
  BY <1>2
<1> QED BY <1>1, <1>3 DEF IsRun

\* The walks of a rank.
LEMMA WalksMade ==
  ASSUME NEW r \in Ranks, TileHolds(r, tile[r]), OffsetHolds(r, myoffset[r])
  PROVE  WalksHold(Conduit(r), Walks(r))
<1>1. DOMAIN Walks(r) = Conduit(r)
  BY DEF Walks, Conduit
<1>2. ASSUME NEW c \in Conduit(r), Walks(r)[c].terminal PROVE Walks(r)[c].label \in Nat
  <2>1. c \in Owned(r) /\ Walks(r)[c] = LocalWalk(r, c)
    BY DEF Walks, Conduit
  <2> DEFINE e == WalkEnd(r, c)
             l == tile[r].label[e]
             n == Len(tile[r].pits)
  <2>2. e \in Owned(r)
    BY <2>1, WalkStays
  <2>3. l \in {OCEAN, BOUNDARY, NO_DEP} \cup (1 .. n) /\ n \in Nat
    BY <2>2 DEF TileHolds
  <2>4. myoffset[r] \in Nat \ {0} /\ myoffset[r] + n <= Width * Height + 1
    BY DEF OffsetHolds
  <2>5. gmap(l, myoffset[r]) \in Nat
    <3> HIDE DEF l, n
    <3> QED BY <2>3, <2>4, GmapFits
  <2>6. LocalWalk(r, c) = Terminal(gmap(l, myoffset[r])) \/ LocalWalk(r, c) = Terminal(OCEAN)
        \/ LocalWalk(r, c) = [terminal |-> FALSE, label |-> 0, exit |-> DrainOf(e, Seen(r))]
    BY DEF LocalWalk
  <2> HIDE DEF l, e
  <2>7. LocalWalk(r, c).label \in {gmap(l, myoffset[r]), OCEAN, 0}
    BY <2>6 DEF Terminal
  <2> QED BY <2>1, <2>5, <2>7 DEF OCEAN
<1> QED BY <1>1, <1>2 DEF WalksHold

\* The chase from tile to tile.
LEMMA ChaseFits ==
  ASSUME NEW lw, IsFiniteSet(DOMAIN lw), \A x \in DOMAIN lw : lw[x].terminal => lw[x].label \in Nat,
         NEW edge, \A x \in DOMAIN edge : edge[x] \in Nat /\ (edge[x] = BOUNDARY => x \in DOMAIN lw),
         NEW c \in DOMAIN lw
  PROVE  ChaseOrOcean(lw, edge, c) \in Nat
<1> DEFINE n == Cardinality(DOMAIN lw) + 2
           V == {s \in [cell : DOMAIN lw \cup {lw[x].exit : x \in DOMAIN lw}, label : Nat] :
                   s.label = BOUNDARY => s.cell \in DOMAIN lw}
           start == [cell |-> c, label |-> BOUNDARY]
           Step1 == [s \in V |-> Step(lw, edge, s)]
           q == [i \in 1 .. n |-> i]
           Is(f) == f = [R \in SUBSET DOMAIN q |->
                           IF R = {} THEN start ELSE LET x == Max(R) IN Step(lw, edge, f[R \ {x}])]
           it == CHOOSE f : Is(f)
<1>1. n \in Nat
  <2>1. Cardinality(DOMAIN lw) \in Nat
    BY FS_CardinalityType
  <2> QED BY <2>1
<1>2. start \in V
  BY LabelAssumption
<1>3. Step1 \in [V -> V]
  <2>1. ASSUME NEW s \in V PROVE Step(lw, edge, s) \in V
    <3>1. CASE s.label # BOUNDARY
      BY <3>1 DEF Step
    <3>2. CASE s.label = BOUNDARY
      <4> DEFINE x == lw[s.cell]
      <4>1. s.cell \in DOMAIN lw
        BY <3>2
      <4>2. CASE x.terminal
        <5>1. Step(lw, edge, s) = [cell |-> s.cell, label |-> x.label] /\ x.label \in Nat
          BY <3>2, <4>1, <4>2 DEF Step
        <5> QED BY <4>1, <5>1
      <4>3. CASE ~ x.terminal
        <5> DEFINE l == IF x.exit \in DOMAIN edge THEN edge[x.exit] ELSE OCEAN
        <5>1. Step(lw, edge, s) = [cell |-> x.exit, label |-> l]
          BY <3>2, <4>3 DEF Step
        <5>2. l \in Nat /\ (l = BOUNDARY => x.exit \in DOMAIN lw)
          <6>1. OCEAN \in Nat /\ OCEAN # BOUNDARY
            <7>1. Width * Height \in Nat /\ BOUNDARY \in Nat /\ Width * Height < BOUNDARY
              BY LabelAssumption, CellCount DEF CellTotal
            <7> QED BY <7>1 DEF OCEAN
          <6> QED BY <6>1
        <5> HIDE DEF l
        <5>3. x.exit \in DOMAIN lw \cup {lw[y].exit : y \in DOMAIN lw}
          BY <4>1
        <5> QED BY <5>1, <5>2, <5>3
      <4> QED BY <4>2, <4>3
    <3> QED BY <3>1, <3>2
  <2> HIDE DEF V
  <2> QED BY <2>1
<1> HIDE DEF start
<1>4. PICK F : IsRepeat(F, n, V, start, Step1)
  <2> HIDE DEF n, Step1, V
  <2> QED BY <1>1, <1>2, <1>3, RepeatExists
<1>5. DOMAIN q = 1 .. n
  OBVIOUS
<1>6. Is(F)
  <2>1. \A R \in SUBSET (1 .. n) : F[R] = IF R = {} THEN start ELSE Step(lw, edge, F[R \ {Max(R)}])
    <3> HIDE DEF V
    <3> QED BY <1>4 DEF IsRepeat
  <2>2. F = [R \in SUBSET (1 .. n) |-> F[R]]
    BY <1>4 DEF IsRepeat
  <2> HIDE DEF n, q
  <2> QED BY <1>5, <2>1, <2>2
<1>7. Is(it)
  <2> HIDE DEF Is
  <2> QED BY <1>6
<1>8. it[{}] = start
  BY <1>7
<1>9. ASSUME NEW i \in 1 .. n, it[1 .. i - 1] \in V PROVE it[1 .. i] = Step1[it[1 .. i - 1]]
  <2>1. 1 .. i # {} /\ Max(1 .. i) = i /\ (1 .. i) \ {i} = 1 .. i - 1
    <3>1. i \in Nat \ {0}
      OBVIOUS
    <3> QED BY <3>1, Prefix
  <2>2. 1 .. i \in SUBSET DOMAIN q
    <3>1. n \in Nat /\ i \in 1 .. n
      BY <1>1
    <3> HIDE DEF n, q
    <3>2. 1 .. i \subseteq 1 .. n
      BY <3>1
    <3> QED BY <1>5, <3>2
  <2>3. it[1 .. i] = Step(lw, edge, it[1 .. i - 1])
    <3> HIDE DEF it, q, n, V, Step1
    <3> QED BY <1>7, <2>1, <2>2
  <2> HIDE DEF it, V
  <2> QED BY <1>9, <2>3
<1>10. PICK g : IsRun(g, n, V, start, Step1) /\ g[n] = it[1 .. n]
  <2> HIDE DEF it, n, Step1, V, q, Is
  <2>1. n \in Nat /\ start \in V /\ Step1 \in [V -> V] /\ it[{}] = start
    BY <1>1, <1>2, <1>3, <1>8
  <2>2. \A i \in 1 .. n : it[1 .. i - 1] \in V => it[1 .. i] = Step1[it[1 .. i - 1]]
    BY <1>9
  <2>3. \A f : \A m \in Nat, base \in V, Go \in [V -> V] :
          /\ f[{}] = base
          /\ \A i \in 1 .. m : f[1 .. i - 1] \in V => f[1 .. i] = Go[f[1 .. i - 1]]
          => \E g : IsRun(g, m, V, base, Go) /\ g[m] = f[1 .. m]
    BY RunMade
  <2> QED BY <2>1, <2>2, <2>3
<1>11. it[1 .. n] \in V
  <2>1. n \in 0 .. n
    BY <1>1
  <2> HIDE DEF it, n, Step1, V
  <2> QED BY <1>10, <2>1 DEF IsRun
<1>12. Chased(lw, edge, c) = it[1 .. n].label
  BY <1>5 DEF Chased, FoldLeft, MapThenFoldSet, start
<1> HIDE DEF it, n
<1>13. Chased(lw, edge, c) \in Nat
  BY <1>11, <1>12
<1> QED BY <1>13 DEF ChaseOrOcean, OCEAN

-----------------------------------------------------------------------------
\* A channel that is not one of the rounds holds a message only from the turn at
\* which it is sent to the one at which it is taken, and never more than one.
LEMMA ChannelOnce ==
  ASSUME IInv, NEW key \in Keys, key[3] \notin Rounds
  PROVE  /\ Len(Waiting(mail, key)) \in {0, 1}
         /\ Waiting(mail, key) # <<>> => Len(Waiting(mail, key)) = 1 /\ at(key[1]) > SendTurn(key) /\ at(key[2]) <= TakeTurn(key)
         /\ ~ Unused(key) /\ at(key[2]) > TakeTurn(key) => at(key[1]) > SendTurn(key)
<1>1. PICK s, r, m, n, k : s = at(key[1]) /\ r = at(key[2]) /\ m = SendTurn(key) /\ n = TakeTurn(key) /\ k = Len(Waiting(mail, key))
  OBVIOUS
<1>2. key[1] \in Ranks /\ key[2] \in Ranks
  BY KeyIs
<1>3. s \in Nat /\ r \in Nat /\ m \in Nat /\ n \in Nat
  <2>1. StageIs(key[1]) /\ StageIs(key[2])
    BY <1>2 DEF IInv
  <2>2. at(key[1]) \in 0 .. 20 /\ at(key[2]) \in 0 .. 20
    BY <1>2, <2>1, NowType
  <2>3. SendTurn(key) \in 0 .. 15 /\ TakeTurn(key) \in 1 .. 16
    BY TurnsType
  <2>4. s \in 0 .. 20 /\ r \in 0 .. 20 /\ m \in 0 .. 15 /\ n \in 1 .. 16
    BY <1>1, <2>2, <2>3
  <2> QED BY <2>4
<1>4. k \in Nat /\ (k = 0 <=> Waiting(mail, key) = <<>>)
  BY <1>1, EmptyOrNot
<1>5. SentOn(key) = Used(key, key[1], m) /\ TakenOff(key) = Used(key, key[2], n)
  BY <1>1 DEF SentOn, TakenOff, Rounds
<1>6. k = SentOn(key) - TakenOff(key)
  BY <1>1 DEF IInv, ChannelsAre
<1>7. /\ Used(key, key[1], m) = IF Unused(key) THEN 0 ELSE IF s > m THEN 1 ELSE 0
      /\ Used(key, key[2], n) = IF Unused(key) THEN 0 ELSE IF r > n THEN 1 ELSE 0
  BY <1>1 DEF Used, Unused, Past
<1>8. k = (IF Unused(key) THEN 0 ELSE IF s > m THEN 1 ELSE 0) - (IF Unused(key) THEN 0 ELSE IF r > n THEN 1 ELSE 0)
  BY <1>5, <1>6, <1>7
<1>9. k \in {0, 1} /\ (k # 0 => k = 1 /\ s > m /\ r <= n) /\ (~ Unused(key) /\ r > n => s > m)
  BY <1>3, <1>4, <1>8
<1> QED BY <1>1, <1>4, <1>9

OneEach == \A key \in Keys : key[3] \notin Rounds => Len(Waiting(mail, key)) \in {0, 1}

\* Outside the rounds of the halo no channel holds more than one message.
LEMMA OneWaits == IInv => OneEach
BY ChannelOnce DEF OneEach

\* And so it is after a step.
LEMMA OneWaitsThen == IInv' => OneEach'
BY OneWaits, PTL

\* What waits on such a channel after a step has been sent in it, or was waiting before.
LEMMA NewMail ==
  ASSUME IInv, IInv', NEW r \in Ranks, NEW msgs, Moved(r, msgs), NEW key \in Keys, key[3] \notin Rounds,
         Waiting(mail, key)' # <<>>
  PROVE  \/ key \in DOMAIN msgs /\ Waiting(mail, key)'[1] = msgs[key]
         \/ Waiting(mail, key)' = Waiting(mail, key)
<1>1. PICK q, k, p : q = Waiting(mail, key) /\ k = Kept(r, key) /\ p = Waiting(mail, key)'
  OBVIOUS
<1>2. IsQueue(q) /\ (key \in Awaited(r) => q # <<>>)
  BY <1>1, WaitingIs DEF Moved, IInv, Shapes
<1>3. k = IF key \in Awaited(r) THEN Tail(q) ELSE q
  BY <1>1 DEF Kept
<1>4. p = IF key \in DOMAIN msgs THEN Append(k, msgs[key]) ELSE k
  BY <1>1 DEF Moved
<1>5. IsQueue(k) /\ Len(k) = Len(q) - (IF key \in Awaited(r) THEN 1 ELSE 0) /\ Len(q) \in Nat /\ Len(k) \in Nat
  BY <1>2, <1>3, QueueIs, TailIs
<1>6. Len(q) \in {0, 1}
  BY <1>1, ChannelOnce
<1>7. p # <<>>
  BY <1>1
<1>9. Len(p) \in {0, 1}
  BY <1>1, OneWaitsThen DEF OneEach
<1>10. CASE key \in DOMAIN msgs
  <2>1. PICK v : v = msgs[key]
    OBVIOUS
  <2>2. p = Append(k, v)
    BY <1>4, <1>10, <2>1
  <2>3. Len(p) = Len(k) + 1
    BY <1>5, <2>2, Appended
  <2>4. Len(k) = 0
    <3>1. PICK i \in Nat : i = Len(k)
      BY <1>5
    <3>2. i + 1 \in {0, 1}
      BY <1>9, <2>3, <3>1
    <3> QED BY <3>1, <3>2
  <2>5. k = <<>>
    BY <1>5, <2>4, QueueIs
  <2>6. p[1] = v
    BY <1>5, <2>2, <2>4, Appended
  <2> QED BY <1>1, <1>10, <2>1, <2>6
<1>11. CASE key \notin DOMAIN msgs
  <2>1. p = k
    BY <1>4, <1>11
  <2>2. key \notin Awaited(r)
    <3>1. Len(k) # 0
      BY <1>5, <1>7, <2>1, QueueIs
    <3> QED BY <1>5, <1>6, <3>1
  <2> QED BY <1>1, <1>3, <2>1, <2>2
<1> QED BY <1>10, <1>11

-----------------------------------------------------------------------------
\* What rank 0 is sent of the labels of a seam, and what becomes of the labels in use.
EdgeHolds(r, labels) ==
  DOMAIN labels \subseteq Owned(r) /\ \A x \in DOMAIN labels : labels[x] \in Nat /\ (labels[x] = BOUNDARY => x \in Conduit(r))
DenseHolds(r, dense) ==
  /\ Range(gc_owned[r]) \cup {OCEAN} \subseteq DOMAIN dense
  /\ dense[OCEAN] = OCEAN /\ \A l \in DOMAIN dense : dense[l] \in Nat

\* What a message from s to r says.
Says(s, r, tag, v) ==
  /\ tag = "count" => v = Len(tile[s].pits)
  /\ tag = "offset" => OffsetHolds(r, v)
  /\ tag = "lw" => WalksHold(Conduit(s), v)
  /\ tag = "edge" => EdgeHolds(s, v)
  /\ tag = "resolved" => ResolvedHolds(r, v)
  /\ tag = "rep" /\ s # 0 => \A p \in v : p.leaf \in Nat
  /\ tag = "rep" /\ s = 0 => \A x \in DOMAIN v : v[x] \in Nat
  /\ tag = "flrel" /\ s # 0 => v = Range(gc_owned[s])
  /\ tag = "flrel" /\ s = 0 => DenseHolds(r, v)
Told(key, v) == Says(key[1], key[2], key[3], v)
MailSays == \A key \in Keys : \A v : Waiting(mail, key) # <<>> /\ v = Waiting(mail, key)[1] => Told(key, v)

\* What a rank has, from the turn on at which it gets it.
RankHolds(r) ==
  /\ r = 0 => myoffset[r] = 1
  /\ at(r) > 1 => TileHolds(r, tile[r])
  /\ at(r) > 2 => OffsetHolds(r, myoffset[r])
  /\ at(r) > 3 => GlobalHolds(r, glab[r])
  /\ at(r) > 4 => LabelsHold(r, glab_pc[r])
  /\ at(r) > 7 /\ flat_replay => LabelsHold(r, gc_owned[r])
WalkedHolds == at(0) = 4 => WalksHold(Conduit(0), walked)

TerrainHolds ==
  /\ terrain \in [Cells -> [elev : Nat, ocean : BOOLEAN, nodata : BOOLEAN]]
  /\ \A c \in Cells : terrain[c].nodata => terrain[c].ocean
PerRank == DOMAIN tile = Ranks /\ DOMAIN myoffset = Ranks /\ DOMAIN glab = Ranks /\ DOMAIN glab_pc = Ranks /\ DOMAIN gc_owned = Ranks

DataInv == TerrainHolds /\ PerRank /\ (\A r \in Ranks : RankHolds(r)) /\ WalkedHolds /\ MailSays

\* What no step changes any more.
Frozen ==
  /\ terrain' = terrain
  /\ \A q \in Ranks : /\ at(q) > 1 => tile'[q] = tile[q]
                      /\ at(q) > 7 => gc_owned'[q] = gc_owned[q]

\* What a message says does not change while it is under way.
LEMMA StaysTold ==
  ASSUME IInv, NEW key \in Keys, Waiting(mail, key) # <<>>, NEW v, Told(key, v), Frozen
  PROVE  Told(key, v)'
<1>1. PICK s, r, tag : s = key[1] /\ r = key[2] /\ tag = key[3]
  OBVIOUS
<1>2. key = <<s, r, tag>> /\ s \in Ranks /\ r \in Ranks /\ Route(s, r, tag)
  BY <1>1, KeyIs
<1>3. Says(s, r, tag, v) /\ terrain' = terrain
  BY <1>1 DEF Told, Frozen
<1>4. Told(key, v)' <=> Says(s, r, tag, v)'
  BY <1>1 DEF Told
<1>5. ASSUME NEW q \in Ranks PROVE at(q) \in Nat
  <2>1. at(q) \in 0 .. 20
    BY NowType DEF IInv
  <2> QED BY <2>1
<1>6. ASSUME tag \notin Rounds PROVE at(s) > SendTurn(key) /\ at(r) <= TakeTurn(key)
  BY <1>1, <1>6, ChannelOnce
<1>7. ASSUME tag \in {"count", "lw", "edge"} PROVE Says(s, r, tag, v)'
  <2>1. at(s) > 1
    <3>1. SendTurn(key) >= 1
      BY <1>1, <1>7 DEF SendTurn
    <3> QED BY <1>2, <1>5, <1>6, <1>7, <3>1, TurnsType DEF Rounds
  <2>2. tile'[s] = tile[s]
    BY <1>2, <2>1 DEF Frozen
  <2> QED BY <1>3, <1>7, <2>2 DEF Says, WalksHold, EdgeHolds, Conduit
<1>8. ASSUME tag \in {"offset", "resolved"} PROVE Says(s, r, tag, v)'
  <2>1. s = 0 /\ r # 0
    BY <1>2, <1>8 DEF Route, ReportTags
  <2>2. PICK back : back = <<r, 0, IF tag = "offset" THEN "count" ELSE "lw">>
    OBVIOUS
  <2>3. back \in Keys /\ back[3] \notin Rounds /\ ~ Unused(back)
    BY <1>2, <2>1, <2>2 DEF Keys, Route, Tags, ReportTags, Rounds, Unused
  <2>4. SendTurn(key) = TakeTurn(back) /\ SendTurn(back) >= 1
    BY <1>1, <1>8, <2>2 DEF SendTurn, TakeTurn
  <2>5. at(0) > TakeTurn(back)
    BY <1>6, <1>8, <2>1, <2>4 DEF Rounds
  <2>6. at(r) > SendTurn(back)
    BY <2>2, <2>3, <2>5, ChannelOnce
  <2>7. at(r) > 1
    <3>1. SendTurn(back) \in 0 .. 15
      BY TurnsType
    <3> QED BY <1>2, <1>5, <2>4, <2>6, <3>1
  <2>8. tile'[r] = tile[r]
    BY <1>2, <2>7 DEF Frozen
  <2> QED BY <1>3, <1>8, <2>8 DEF Says, OffsetHolds, ResolvedHolds, Conduit
<1>9. ASSUME tag = "rep" PROVE Says(s, r, tag, v)'
  BY <1>3, <1>9 DEF Says
<1>10. ASSUME tag = "flrel", s # 0 PROVE Says(s, r, tag, v)'
  <2>1. SendTurn(key) = 7
    BY <1>1, <1>10 DEF SendTurn
  <2>2. at(s) > 7
    BY <1>6, <1>10, <2>1 DEF Rounds
  <2>3. gc_owned'[s] = gc_owned[s]
    BY <1>2, <2>2 DEF Frozen
  <2> QED BY <1>3, <1>10, <2>3 DEF Says, Range
<1>11. ASSUME tag = "flrel", s = 0 PROVE Says(s, r, tag, v)'
  <2>1. r # 0
    BY <1>2, <1>11 DEF Route, Beside
  <2>2. PICK back : back = <<r, 0, "flrel">>
    OBVIOUS
  <2>3. back \in Keys /\ back[3] \notin Rounds
    BY <1>2, <1>11, <2>1, <2>2 DEF Keys, Route, Tags, ReportTags, Rounds
  <2>4. SendTurn(key) = 8 /\ TakeTurn(back) = 8 /\ SendTurn(back) = 7
    BY <1>1, <1>11, <2>1, <2>2 DEF SendTurn, TakeTurn
  <2>5. at(0) > TakeTurn(back)
    BY <1>6, <1>11, <2>4 DEF Rounds
  <2>6. ~ Unused(back)
    <3>1. flat_replay \/ at(0) \notin 5 .. 8
      BY <1>2, <1>11 DEF IInv, StageIs
    <3>2. Len(Waiting(mail, key)) = Used(key, 0, 8) - Used(key, r, 8)
      BY <1>1, <1>11, <2>1, <2>4 DEF IInv, ChannelsAre, SentOn, TakenOff, TakeTurn
    <3>3. ASSUME ~ flat_replay PROVE FALSE
      <4>1. Used(key, 0, 8) = 0 /\ Used(key, r, 8) = 0
        BY <1>1, <1>11, <3>3 DEF Used
      <4>2. Len(Waiting(mail, key)) = 0
        BY <3>2, <4>1
      <4> QED BY <4>2, EmptyOrNot
    <3> QED BY <3>3 DEF Unused
  <2>7. at(r) > 7
    BY <2>2, <2>3, <2>4, <2>5, <2>6, ChannelOnce
  <2>8. gc_owned'[r] = gc_owned[r]
    BY <1>2, <2>7 DEF Frozen
  <2> QED BY <1>3, <1>11, <2>8 DEF Says, DenseHolds, Range
<1>12. ASSUME tag \notin {"count", "lw", "edge", "offset", "resolved", "rep", "flrel"} PROVE Says(s, r, tag, v)'
  BY <1>12 DEF Says
<1> QED BY <1>4, <1>7, <1>8, <1>9, <1>10, <1>11, <1>12

\* A rank that makes no step.
SameRank(q) ==
  /\ pc'[q] = pc[q] /\ tile'[q] = tile[q] /\ myoffset'[q] = myoffset[q] /\ glab'[q] = glab[q]
  /\ glab_pc'[q] = glab_pc[q] /\ gc_owned'[q] = gc_owned[q]

\* It keeps what it has.
LEMMA SameRankHolds ==
  ASSUME NEW q \in Ranks, RankHolds(q), SameRank(q), terrain' = terrain, flat_replay' = flat_replay
  PROVE  RankHolds(q)'
<1>1. at(q)' = at(q)
  BY DEF SameRank, at
<1>2. (at(q) > 1 => TileHolds(q, tile[q]))'
  BY <1>1 DEF RankHolds, SameRank, TileHolds
<1>3. (at(q) > 2 => OffsetHolds(q, myoffset[q]))'
  BY <1>1 DEF RankHolds, SameRank, OffsetHolds
<1>4. (at(q) > 3 => GlobalHolds(q, glab[q]))'
  BY <1>1 DEF RankHolds, SameRank, GlobalHolds, LabelsHold
<1>5. (at(q) > 4 => LabelsHold(q, glab_pc[q]))'
  BY <1>1 DEF RankHolds, SameRank, LabelsHold
<1>6. (at(q) > 7 /\ flat_replay => LabelsHold(q, gc_owned[q]))'
  BY <1>1 DEF RankHolds, SameRank, LabelsHold
<1>7. (q = 0 => myoffset[q] = 1)'
  BY DEF RankHolds, SameRank
<1> QED BY <1>2, <1>3, <1>4, <1>5, <1>6, <1>7 DEF RankHolds

\* What has been walked by rank 0 stays while another rank makes its step.
LEMMA WalkedStays ==
  ASSUME IInv, DataInv, SameRank(0), walked' = walked, Frozen
  PROVE  WalkedHolds'
<1>1. at(0)' = at(0) /\ tile'[0] = tile[0]
  BY DEF SameRank, at
<1>2. WalkedHolds
  BY DEF DataInv
<1> QED BY <1>1, <1>2 DEF WalkedHolds, WalksHold, Conduit

\* The messages that carry data of the tiles and the labels.
DataTags == {"count", "offset", "lw", "edge", "resolved", "rep", "flrel"}

\* A step of a rank keeps the data if what it has, and what it sends, is as it should be.
LEMMA Carry ==
  ASSUME IInv, IInv', DataInv, NEW r \in Ranks, NEW msgs, Moved(r, msgs), Frozen, PerRank', flat_replay' = flat_replay,
         \A q \in Ranks \ {r} : SameRank(q), RankHolds(r)', WalkedHolds',
         \A key \in DOMAIN msgs : key[3] \in DataTags => Told(key, msgs[key])'
  PROVE  DataInv'
<1>1. ASSUME NEW q \in Ranks PROVE RankHolds(q)'
  <2>1. terrain' = terrain
    BY DEF Frozen
  <2>2. CASE q = r
    BY <2>2
  <2>3. CASE q # r
    BY <2>1, <2>3, SameRankHolds DEF DataInv
  <2> QED BY <2>2, <2>3
<1>2. TerrainHolds'
  BY DEF DataInv, Frozen, TerrainHolds
<1>3. ASSUME NEW key \in Keys, NEW v, Waiting(mail, key)' # <<>>, v = Waiting(mail, key)'[1] PROVE Told(key, v)'
  <2>1. CASE key[3] \notin DataTags
    BY <2>1 DEF Told, Says, DataTags
  <2>2. CASE key[3] \in DataTags
    <3>1. key[3] \notin Rounds
      BY <2>2 DEF Rounds, DataTags
    <3>2. CASE key \in DOMAIN msgs /\ Waiting(mail, key)'[1] = msgs[key]
      <4>1. Told(key, msgs[key])'
        BY <2>2, <3>2
      <4>2. v = msgs[key]
        BY <1>3, <3>2
      <4> QED BY <4>1, <4>2
    <3>3. CASE Waiting(mail, key)' = Waiting(mail, key)
      <4>1. v = Waiting(mail, key)[1]
        BY <1>3, <3>3
      <4>2. Waiting(mail, key) # <<>>
        BY <1>3, <3>3
      <4>3. Told(key, v)
        BY <4>1, <4>2 DEF DataInv, MailSays
      <4>4. Told(key, v)'
        BY <4>2, <4>3, StaysTold
      <4> QED BY <4>4
    <3> QED BY <1>3, <3>1, <3>2, <3>3, NewMail
  <2> QED BY <2>1, <2>2
<1>4. MailSays'
  BY <1>3 DEF MailSays
<1> QED BY <1>1, <1>2, <1>4 DEF DataInv

-----------------------------------------------------------------------------
\* Where a step of a rank leaves the ranks.
LEMMA StepsTo ==
  ASSUME IInv, NEW r \in Ranks, NEW x, pc' = [pc EXCEPT ![r] = x]
  PROVE  pc'[r] = x /\ at(r)' = Turn(x) /\ \A q \in Ranks \ {r} : pc'[q] = pc[q] /\ at(q)' = at(q)
<1>1. pc = [q \in Ranks |-> pc[q]]
  BY DEF IInv, Shapes
<1>2. pc'[r] = x /\ \A q \in Ranks \ {r} : pc'[q] = pc[q]
  BY <1>1
<1> QED BY <1>2 DEF at

\* setup_tile up to the receives.
LEMMA SendStripsData ==
  ASSUME IInv, IInv', DataInv, NEW r \in Ranks, SendStrips(r), gc_owned' = gc_owned
  PROVE  DataInv'
<1>1. /\ pc[r] = "start" /\ pc' = [pc EXCEPT ![r] = "halo"] /\ mail' = Sent(mail, Strips(r))
      /\ terrain' = terrain /\ flat_replay' = flat_replay /\ tile' = tile /\ myoffset' = myoffset
      /\ glab' = glab /\ walked' = walked /\ glab_pc' = glab_pc
  BY DEF SendStrips, At, floodVars, startVars
<1>2. pc'[r] = "halo" /\ at(r)' = 1 /\ \A q \in Ranks \ {r} : pc'[q] = pc[q] /\ at(q)' = at(q)
  <2>1. PICK x : x = "halo"
    OBVIOUS
  <2>2. Turn(x) = 1 /\ pc' = [pc EXCEPT ![r] = x]
    BY <1>1, <2>1, TurnIs
  <2> QED BY <2>1, <2>2, StepsTo
<1>3. PICK msgs : msgs = Strips(r)
  OBVIOUS
<1>4. DOMAIN msgs = {<<r, s, "strip">> : s \in Beside(r)}
  BY <1>3 DEF Strips
<1>5. DOMAIN msgs \subseteq Keys /\ \A key \in DOMAIN msgs : key[3] = "strip"
  BY <1>4, SeamKeysAre
<1>6. Moved(r, msgs)
  BY <1>1, <1>3, <1>5, AwaitsNone, MailSent
<1>7. Frozen /\ \A q \in Ranks \ {r} : SameRank(q)
  BY <1>1, <1>2 DEF Frozen, SameRank
<1>8. RankHolds(r)'
  BY <1>1, <1>2 DEF RankHolds, DataInv
<1>9. PerRank' /\ WalkedHolds'
  <2>1. PerRank'
    BY <1>1 DEF PerRank, DataInv
  <2>2. WalkedHolds'
    <3>1. CASE r = 0
      BY <1>2, <3>1 DEF WalkedHolds
    <3>2. CASE r # 0
      <4>1. SameRank(0)
        BY <1>7, <3>2, BesideIs
      <4> QED BY <1>1, <1>7, <4>1, WalkedStays
    <3> QED BY <3>1, <3>2
  <2> QED BY <2>1, <2>2
<1>10. \A key \in DOMAIN msgs : key[3] \notin DataTags
  BY <1>5 DEF DataTags
<1> QED BY <1>1, <1>6, <1>7, <1>8, <1>9, <1>10, Carry

\* What the flood of a tile comes to.
LEMMA TileFlooded ==
  ASSUME TerrainHolds, NEW r \in Ranks, NEW columns, NEW seen, seen = Over(Restrict(terrain, Owned(r)), columns),
         NEW given, given = [c \in Owned(r) |-> IF seen[c].ocean THEN OCEAN
                                                ELSE IF c \in Marked(r, seen) THEN BOUNDARY ELSE NO_DEP],
         NEW t, t = Flooded(Owned(r), [c \in Owned(r) |-> seen[c].elev], given)
  PROVE  TileHolds(r, t)
<1> DEFINE W == Owned(r)
           E == [c \in W |-> seen[c].elev]
           S == Seeds(W, E, given)
<1>1. W \in SUBSET Cells
  BY OwnedIs
<1>2. \A c \in W : seen[c] = terrain[c]
  BY <1>1 DEF Restrict, TerrainHolds, Over
<1>3. \A c \in W : E[c] \in Nat
  BY <1>1, <1>2 DEF TerrainHolds
<1>4. given = [c \in W |-> given[c]] /\ \A c \in W : given[c] \in {OCEAN, BOUNDARY, NO_DEP}
  <2>1. DOMAIN given = W
    OBVIOUS
  <2>2. given = [c \in W |-> given[c]]
    BY <2>1
  <2>3. ASSUME NEW c \in W PROVE given[c] \in {OCEAN, BOUNDARY, NO_DEP}
    OBVIOUS
  <2> QED BY <2>2, <2>3
<1>5. \A c \in W : terrain[c].ocean => given[c] = OCEAN
  BY <1>2
<1>6. S \subseteq W
  BY DEF Seeds
<1>7. t = FloodedFrom(W, E, given, S)
  BY DEF Flooded
<1> HIDE DEF E, S
<1>8. TileFits(W, given, t)
  <2>1. TileFits(W, given, FloodedFrom(W, E, given, S))
    BY <1>1, <1>3, <1>4, <1>6, FloodFits
  <2> QED BY <1>7, <2>1
<1>9. OCEAN # NO_DEP
  BY LabelAssumption DEF OCEAN
<1> QED BY <1>5, <1>8, <1>9 DEF TileFits, TileHolds

\* What a report says.
LEMMA ReportSays ==
  ASSUME NEW r \in Ranks, NEW tag \in ReportTags, NEW v, NEW key \in DOMAIN Report(r, tag, v)
  PROVE  Report(r, tag, v)[key] = v /\ key[1] = r /\ r # 0 /\ key[2] = 0 /\ key[3] = tag /\ key \in Keys
<1>1. key \in Keys
  BY ReportIs
<1>2. Report(r, tag, v)[key] = v
  BY DEF Report
<1> QED BY <1>1, <1>2, ReportIs

\* What is known of a rank at its turn.
LEMMA RankIs ==
  ASSUME DataInv, NEW r \in Ranks
  PROVE  RankHolds(r) /\ TerrainHolds /\ PerRank /\ MailSays /\ WalkedHolds
BY DEF DataInv

\* The rest of setup_tile, flood_tile, and the count sent to rank 0.
LEMMA FloodTileData ==
  ASSUME IInv, IInv', DataInv, NEW r \in Ranks, FloodTile(r), gc_owned' = gc_owned
  PROVE  DataInv'
<1>1. PICK columns, seen, given, t :
        /\ seen = Over(Restrict(terrain, Owned(r)), columns)
        /\ given = [c \in Owned(r) |-> IF seen[c].ocean THEN OCEAN
                                       ELSE IF c \in Marked(r, seen) THEN BOUNDARY ELSE NO_DEP]
        /\ t = Flooded(Owned(r), [c \in Owned(r) |-> seen[c].elev], given)
        /\ tile' = [tile EXCEPT ![r] = t]
        /\ mail' = Sent(Receive(mail, Awaited(r)), Report(r, "count", Len(t.pits)))
  BY DEF FloodTile
<1>2. PICK x : x = IF r = 0 THEN "counts" ELSE "offset"
  OBVIOUS
<1>3. /\ pc[r] = "halo" /\ Has(mail, Awaited(r)) /\ pc' = [pc EXCEPT ![r] = x]
      /\ terrain' = terrain /\ flat_replay' = flat_replay /\ myoffset' = myoffset
      /\ glab' = glab /\ walked' = walked /\ glab_pc' = glab_pc
  BY <1>2 DEF FloodTile, At, startVars
<1>4. /\ pc'[r] = x /\ at(r) = 1 /\ at(r)' = 2 /\ \A q \in Ranks \ {r} : pc'[q] = pc[q] /\ at(q)' = at(q)
  <2>1. Turn(x) = 2 /\ at(r) = 1
    BY <1>2, <1>3, TurnIs DEF at
  <2> QED BY <1>3, <2>1, StepsTo
<1>5. TerrainHolds /\ PerRank
  BY RankIs
<1>6. TileHolds(r, t)
  BY <1>1, <1>5, TileFlooded
<1>7. DOMAIN tile' = Ranks /\ tile'[r] = t /\ \A q \in Ranks \ {r} : tile'[q] = tile[q]
  BY <1>1, <1>5 DEF PerRank
<1>8. PICK msgs : msgs = Report(r, "count", Len(t.pits))
  OBVIOUS
<1>9. DOMAIN msgs \subseteq Keys
  BY <1>8, ReportIs DEF ReportTags
<1>10. Moved(r, msgs)
  BY <1>1, <1>3, <1>8, <1>9, MailTakenSent
<1>11. Frozen /\ \A q \in Ranks \ {r} : SameRank(q)
  BY <1>3, <1>4, <1>7 DEF Frozen, SameRank
<1>12. RankHolds(r)'
  <2>1. TileHolds(r, tile[r])'
    BY <1>3, <1>6, <1>7 DEF TileHolds
  <2>2. (r = 0 => myoffset[r] = 1)'
    BY <1>3, RankIs DEF RankHolds
  <2> QED BY <1>4, <2>1, <2>2 DEF RankHolds
<1>13. PerRank'
  BY <1>3, <1>5, <1>7 DEF PerRank
<1>14. WalkedHolds'
  <2>1. CASE r = 0
    BY <1>4, <2>1 DEF WalkedHolds
  <2>2. CASE r # 0
    <3>1. SameRank(0)
      BY <1>11, <2>2, BesideIs
    <3> QED BY <1>3, <1>11, <3>1, WalkedStays
  <2> QED BY <2>1, <2>2
<1>15. ASSUME NEW key \in DOMAIN msgs PROVE Told(key, msgs[key])'
  <2>1. msgs[key] = Len(t.pits) /\ key[1] = r /\ key[3] = "count"
    BY <1>8, ReportSays DEF ReportTags
  <2>2. PICK v : v = msgs[key]
    OBVIOUS
  <2>3. v = Len(tile'[r].pits)
    BY <1>7, <2>1, <2>2
  <2>4. Told(key, v)'
    BY <2>1, <2>3 DEF Told, Says
  <2> QED BY <2>2, <2>4
<1> QED BY <1>3, <1>10, <1>11, <1>12, <1>13, <1>14, <1>15, Carry

\* A rank learns its offset.
LEMMA TakeOffsetData ==
  ASSUME IInv, IInv', DataInv, NEW r \in Ranks, TakeOffset(r), gc_owned' = gc_owned
  PROVE  DataInv'
<1>1. PICK key : key = <<0, r, "offset">>
  OBVIOUS
<1>2. PICK o : o = First(mail, key)
  OBVIOUS
<1>3. /\ pc[r] = "offset" /\ Has(mail, Awaited(r)) /\ pc' = [pc EXCEPT ![r] = "walk"]
      /\ myoffset' = [myoffset EXCEPT ![r] = o] /\ mail' = Receive(mail, Awaited(r))
      /\ terrain' = terrain /\ flat_replay' = flat_replay /\ tile' = tile
      /\ glab' = glab /\ walked' = walked /\ glab_pc' = glab_pc
  BY <1>1, <1>2 DEF TakeOffset, At, startVars
<1>4. /\ pc'[r] = "walk" /\ at(r) = 2 /\ at(r)' = 3 /\ \A q \in Ranks \ {r} : pc'[q] = pc[q] /\ at(q)' = at(q)
  <2>1. PICK x : x = "walk"
    OBVIOUS
  <2>2. Turn(x) = 3 /\ at(r) = 2 /\ pc' = [pc EXCEPT ![r] = x]
    BY <1>3, <2>1, TurnIs DEF at
  <2> QED BY <2>1, <2>2, StepsTo
<1>5. RankHolds(r) /\ PerRank /\ MailSays
  BY RankIs
<1>6. key \in Awaited(r) /\ key \in DOMAIN mail
  BY <1>1, <1>3 DEF Awaited, Has
<1>7. key \in Keys /\ Waiting(mail, key) # <<>> /\ o = Waiting(mail, key)[1]
  BY <1>2, <1>6, WaitingIs DEF IInv, Shapes
<1>8. OffsetHolds(r, o)
  <2>1. Told(key, o)
    BY <1>5, <1>7 DEF MailSays
  <2> QED BY <1>1, <2>1 DEF Told, Says
<1>9. DOMAIN myoffset' = Ranks /\ myoffset'[r] = o /\ \A q \in Ranks \ {r} : myoffset'[q] = myoffset[q]
  BY <1>3, <1>5 DEF PerRank
<1>10. Moved(r, NoMail)
  BY <1>3, MailTaken
<1>11. Frozen /\ \A q \in Ranks \ {r} : SameRank(q)
  BY <1>3, <1>4, <1>9 DEF Frozen, SameRank
<1>12. RankHolds(r)'
  <2>1. (at(r) > 1 => TileHolds(r, tile[r]))'
    BY <1>3, <1>4, <1>5 DEF RankHolds, TileHolds
  <2>2. OffsetHolds(r, myoffset[r])'
    BY <1>3, <1>8, <1>9 DEF OffsetHolds
  <2>3. r # 0
    BY <1>3 DEF IInv, StageIs, ZeroStages
  <2> QED BY <1>4, <2>1, <2>2, <2>3 DEF RankHolds
<1>13. PerRank'
  BY <1>3, <1>5, <1>9 DEF PerRank
<1>14. WalkedHolds'
  <2>1. CASE r = 0
    BY <1>4, <2>1 DEF WalkedHolds
  <2>2. CASE r # 0
    <3>1. SameRank(0)
      BY <1>11, <2>2, BesideIs
    <3> QED BY <1>3, <1>11, <3>1, WalkedStays
  <2> QED BY <2>1, <2>2
<1>15. DOMAIN NoMail = {}
  BY DEF NoMail
<1> QED BY <1>3, <1>10, <1>11, <1>12, <1>13, <1>14, <1>15, Carry

\* What has come from a rank that rank 0 waits for.
LEMMA HasCome ==
  ASSUME IInv, DataInv, Has(mail, Awaited(0)), NEW t \in Others, NEW tag, <<t, 0, tag>> \in Awaited(0), NEW v, v = First(mail, <<t, 0, tag>>)
  PROVE  Says(t, 0, tag, v) /\ (tag \notin Rounds => at(t) > SendTurn(<<t, 0, tag>>))
<1>1. PICK key : key = <<t, 0, tag>>
  OBVIOUS
<1>2. key \in DOMAIN mail
  BY <1>1 DEF Has
<1>3. key \in Keys /\ Waiting(mail, key) # <<>> /\ v = Waiting(mail, key)[1]
  BY <1>1, <1>2, WaitingIs DEF IInv, Shapes
<1>4. Told(key, v)
  BY <1>3 DEF DataInv, MailSays
<1>5. key[3] \notin Rounds => at(key[1]) > SendTurn(key)
  BY <1>3, ChannelOnce
<1> QED BY <1>1, <1>4, <1>5 DEF Told

\* What a rank that is not rank 0 has been sent by it.
LEMMA HasHeard ==
  ASSUME IInv, DataInv, NEW t \in Others, NEW tag, Has(mail, Awaited(t)), <<0, t, tag>> \in Awaited(t), NEW v, v = First(mail, <<0, t, tag>>)
  PROVE  Says(0, t, tag, v)
<1>1. PICK key : key = <<0, t, tag>>
  OBVIOUS
<1>2. key \in DOMAIN mail
  BY <1>1 DEF Has
<1>3. key \in Keys /\ Waiting(mail, key) # <<>> /\ v = Waiting(mail, key)[1]
  BY <1>1, <1>2, WaitingIs DEF IInv, Shapes
<1>4. Told(key, v)
  BY <1>3 DEF DataInv, MailSays
<1> QED BY <1>1, <1>4 DEF Told

\* Rank 0 numbers the depressions of the tiles.
LEMMA NumberTilesData ==
  ASSUME IInv, IInv', DataInv, NumberTiles, gc_owned' = gc_owned
  PROVE  DataInv'
<1>0. 0 \in Ranks /\ Others \subseteq Ranks
  BY BesideIs DEF Others
<1>1. PICK counts : counts = [t \in Ranks |-> IF t = 0 THEN Len(tile[0].pits) ELSE First(mail, <<t, 0, "count">>)]
  OBVIOUS
<1>2. PICK offsets : offsets = Offsets0(counts)
  OBVIOUS
<1>3. LabelOffsets = offsets
  BY <1>1, <1>2 DEF LabelOffsets
<1>4. PICK msgs : msgs = [key \in FromZero("offset") |-> offsets[key[2]]]
  OBVIOUS
<1>5. /\ pc[0] = "counts" /\ Has(mail, Awaited(0)) /\ pc' = [pc EXCEPT ![0] = "walk"]
      /\ mail' = Sent(Receive(mail, Awaited(0)), msgs)
      /\ terrain' = terrain /\ flat_replay' = flat_replay /\ tile' = tile /\ myoffset' = myoffset
      /\ glab' = glab /\ walked' = walked /\ glab_pc' = glab_pc
  BY <1>3, <1>4 DEF NumberTiles, At, startVars
<1>6. /\ pc'[0] = "walk" /\ at(0) = 2 /\ at(0)' = 3 /\ \A q \in Ranks \ {0} : pc'[q] = pc[q] /\ at(q)' = at(q)
  <2>1. PICK x : x = "walk"
    OBVIOUS
  <2>2. Turn(x) = 3 /\ at(0) = 2 /\ pc' = [pc EXCEPT ![0] = x]
    BY <1>5, <2>1, TurnIs DEF at
  <2> QED BY <1>0, <2>1, <2>2, StepsTo
<1>7. RankHolds(0) /\ PerRank
  BY <1>0, RankIs
<1>8. ASSUME NEW t \in Ranks PROVE counts[t] = Len(tile[t].pits) /\ TileHolds(t, tile[t])
  <2>1. CASE t = 0
    BY <1>1, <1>6, <1>7, <2>1 DEF RankHolds
  <2>2. CASE t # 0
    <3>1. PICK v : v = First(mail, <<t, 0, "count">>)
      OBVIOUS
    <3>2. t \in Others /\ <<t, 0, "count">> \in Awaited(0)
      BY <1>5, <2>2 DEF Others, Awaited, ToZero
    <3>3. Says(t, 0, "count", v) /\ at(t) > SendTurn(<<t, 0, "count">>)
      BY <1>5, <3>1, <3>2, HasCome DEF Rounds
    <3>4. v = Len(tile[t].pits)
      BY <3>3 DEF Says
    <3>5. at(t) > 1
      BY <3>3 DEF SendTurn
    <3>6. TileHolds(t, tile[t])
      BY <3>5 DEF DataInv, RankHolds
    <3> QED BY <1>1, <2>2, <3>1, <3>4, <3>6
  <2> QED BY <2>1, <2>2
<1>9. ASSUME NEW t \in Ranks PROVE counts[t] \in Nat /\ counts[t] <= Cardinality(Owned(t))
  BY <1>8 DEF TileHolds
<1>10. ASSUME NEW t \in Ranks PROVE offsets[t] \in Nat \ {0} /\ offsets[t] + counts[t] <= Width * Height + 1
  BY <1>2, <1>9, OffsetsFit
<1>11. DOMAIN msgs \subseteq Keys
  BY <1>4, ReplyIs DEF ReplyTags
<1>12. Moved(0, msgs)
  BY <1>0, <1>5, <1>11, MailTakenSent
<1>13. Frozen /\ \A q \in Ranks \ {0} : SameRank(q)
  BY <1>5, <1>6 DEF Frozen, SameRank
<1>14. RankHolds(0)'
  <2>1. TileHolds(0, tile[0])'
    BY <1>0, <1>5, <1>8 DEF TileHolds
  <2>2. OffsetHolds(0, myoffset[0])
    <3>1. myoffset[0] = 1
      BY <1>7 DEF RankHolds
    <3>2. PICK n, o, m : n = Len(tile[0].pits) /\ o = offsets[0] /\ m = Width * Height
      OBVIOUS
    <3>3. n \in Nat /\ o \in Nat \ {0} /\ o + n <= m + 1 /\ m \in Nat
      <4>1. m \in Nat
        BY <3>2, CellCount DEF CellTotal
      <4> QED BY <1>0, <1>8, <1>9, <1>10, <3>2, <4>1
    <3>4. 1 + n <= m + 1
      BY <3>3
    <3> QED BY <3>1, <3>2, <3>4 DEF OffsetHolds
  <2>3. OffsetHolds(0, myoffset[0])'
    BY <1>5, <2>2 DEF OffsetHolds
  <2>4. (0 = 0 => myoffset[0] = 1)'
    BY <1>5, <1>7 DEF RankHolds
  <2> QED BY <1>6, <2>1, <2>3, <2>4 DEF RankHolds
<1>15. PerRank' /\ WalkedHolds'
  BY <1>5, <1>6, <1>7 DEF PerRank, WalkedHolds
<1>16. ASSUME NEW key \in DOMAIN msgs PROVE Told(key, msgs[key])'
  <2>1. PICK t \in Others : key = <<0, t, "offset">>
    BY <1>4 DEF FromZero
  <2>2. PICK v : v = msgs[key]
    OBVIOUS
  <2>3. v = offsets[t]
    BY <1>4, <2>1, <2>2
  <2>4. OffsetHolds(t, v)'
    BY <1>0, <1>5, <1>8, <1>10, <2>3 DEF OffsetHolds
  <2>5. Told(key, v)'
    BY <2>1, <2>4 DEF Told, Says
  <2> QED BY <2>2, <2>5
<1> QED BY <1>0, <1>5, <1>12, <1>13, <1>14, <1>15, <1>16, Carry

\* The columns at the seams are the rank's own.
LEMMA SeamsOwned ==
  ASSUME NEW r \in Ranks
  PROVE  SeamCells(r) \subseteq Owned(r) /\ LeftEdge(r) \subseteq Owned(r) /\ RightEdge(r) \subseteq Owned(r)
<1>1. X0(r) \in Nat /\ X1(r) \in Nat /\ X0(r) < X1(r)
  BY BoundsAre
<1>2. \A c \in Cells : XOf(c) \in Int
  BY CellIs
<1>3. LeftEdge(r) \subseteq Owned(r)
  BY <1>1, <1>2 DEF LeftEdge, Column, Owned, Between
<1>4. RightEdge(r) \subseteq Owned(r)
  BY <1>1, <1>2 DEF RightEdge, Column, Owned, Between
<1> QED BY <1>3, <1>4 DEF SeamCells

\* build_global_labels and the first phase of resolve_conduits.
LEMMA WalkData ==
  ASSUME IInv, IInv', DataInv, NEW r \in Ranks, Walk(r), gc_owned' = gc_owned
  PROVE  DataInv'
<1>1. PICK g : g = [c \in Owned(r) |-> gmap(tile[r].label[c], myoffset[r])]
  OBVIOUS
<1>2. PICK x : x = IF r = 0 THEN "gather" ELSE "resolved"
  OBVIOUS
<1>3. /\ pc[r] = "walk" /\ Has(mail, Awaited(r)) /\ pc' = [pc EXCEPT ![r] = x] /\ glab' = [glab EXCEPT ![r] = g]
      /\ walked' = IF r = 0 THEN Walks(0) ELSE walked
      /\ terrain' = terrain /\ flat_replay' = flat_replay /\ tile' = tile /\ myoffset' = myoffset /\ glab_pc' = glab_pc
  BY <1>1, <1>2 DEF Walk, At, floodVars, startVars
<1>4. /\ pc'[r] = x /\ at(r) = 3 /\ at(r)' = 4 /\ \A q \in Ranks \ {r} : pc'[q] = pc[q] /\ at(q)' = at(q)
  <2>1. Turn(x) = 4 /\ at(r) = 3
    BY <1>2, <1>3, TurnIs DEF at
  <2> QED BY <1>3, <2>1, StepsTo
<1>5. RankHolds(r) /\ PerRank
  BY RankIs
<1>6. TileHolds(r, tile[r]) /\ OffsetHolds(r, myoffset[r]) /\ (r = 0 => myoffset[r] = 1)
  BY <1>4, <1>5 DEF RankHolds
<1>7. GlobalHolds(r, g) /\ WalksHold(Conduit(r), Walks(r))
  BY <1>1, <1>6, GlobalLabels, WalksMade
<1>8. DOMAIN glab' = Ranks /\ glab'[r] = g /\ \A q \in Ranks \ {r} : glab'[q] = glab[q]
  BY <1>3, <1>5 DEF PerRank
<1>9. PICK lw, edge : lw = Walks(r) /\ edge = Restrict(g, SeamCells(r))
  OBVIOUS
<1>10. mail' = Sent(Sent(mail, Report(r, "lw", lw)), Report(r, "edge", edge))
  BY <1>8, <1>9 DEF Walk
<1>11. PICK f, h : f = Report(r, "lw", lw) /\ h = Report(r, "edge", edge)
  OBVIOUS
<1>12. /\ DOMAIN f \subseteq Keys
       /\ \A key \in Keys : key \in DOMAIN f <=> key[1] = r /\ r # 0 /\ key[2] = 0 /\ key[3] = "lw"
  BY <1>11, ReportIs DEF ReportTags
<1>13. /\ DOMAIN h \subseteq Keys
       /\ \A key \in Keys : key \in DOMAIN h <=> key[1] = r /\ r # 0 /\ key[2] = 0 /\ key[3] = "edge"
  BY <1>11, ReportIs DEF ReportTags
<1>14. DOMAIN f \cap DOMAIN h = {}
  BY <1>12, <1>13
<1>15. mail' = Sent(Sent(mail, f), h)
  BY <1>10, <1>11
<1>16. PICK msgs : Moved(r, msgs) /\ IsBoth(msgs, f, h)
  BY <1>3, <1>12, <1>13, <1>14, <1>15, AwaitsNone, MailSentTwice
<1>17. Frozen /\ \A q \in Ranks \ {r} : SameRank(q)
  BY <1>3, <1>4, <1>8 DEF Frozen, SameRank
<1>18. RankHolds(r)'
  <2>1. TileHolds(r, tile[r])'
    BY <1>3, <1>6 DEF TileHolds
  <2>2. OffsetHolds(r, myoffset[r])'
    BY <1>3, <1>6 DEF OffsetHolds
  <2>3. GlobalHolds(r, glab[r])'
    BY <1>3, <1>7, <1>8 DEF GlobalHolds, LabelsHold
  <2>4. (r = 0 => myoffset[r] = 1)'
    BY <1>3, <1>6
  <2> QED BY <1>4, <2>1, <2>2, <2>3, <2>4 DEF RankHolds
<1>19. PerRank'
  BY <1>3, <1>5, <1>8 DEF PerRank
<1>20. WalksHold(Conduit(r), lw)'
  BY <1>3, <1>7, <1>9 DEF WalksHold, Conduit
<1>21. WalkedHolds'
  <2>1. CASE r = 0
    <3>1. walked' = lw
      BY <1>3, <1>9, <2>1
    <3>2. WalksHold(Conduit(0), lw)'
      BY <1>20, <2>1
    <3> QED BY <3>1, <3>2 DEF WalkedHolds, WalksHold
  <2>2. CASE r # 0
    <3>1. SameRank(0) /\ walked' = walked
      BY <1>3, <1>17, <2>2, BesideIs
    <3> QED BY <1>17, <3>1, WalkedStays
  <2> QED BY <2>1, <2>2
<1>22. EdgeHolds(r, edge)'
  <2>1. DOMAIN edge = SeamCells(r) /\ \A c \in SeamCells(r) : edge[c] = g[c]
    BY <1>9 DEF Restrict
  <2>2. EdgeHolds(r, edge)
    BY <1>7, <2>1, SeamsOwned DEF EdgeHolds, GlobalHolds, LabelsHold, Conduit
  <2> QED BY <1>3, <2>2 DEF EdgeHolds, Conduit
<1>23. ASSUME NEW key \in DOMAIN msgs PROVE Told(key, msgs[key])'
  <2>1. PICK v : v = msgs[key]
    OBVIOUS
  <2>2. CASE key \in DOMAIN f
    <3>1. v = lw /\ key[1] = r /\ key[3] = "lw"
      BY <1>11, <1>16, <2>1, <2>2, ReportSays DEF IsBoth, ReportTags
    <3>2. WalksHold(Conduit(r), v)'
      BY <1>20, <3>1
    <3>3. Told(key, v)'
      BY <3>1, <3>2 DEF Told, Says
    <3> QED BY <2>1, <3>3
  <2>3. CASE key \in DOMAIN h
    <3>1. v = edge /\ key[1] = r /\ key[3] = "edge"
      BY <1>11, <1>16, <2>1, <2>3, ReportSays DEF IsBoth, ReportTags
    <3>2. EdgeHolds(r, v)'
      BY <1>22, <3>1
    <3>3. Told(key, v)'
      BY <3>1, <3>2 DEF Told, Says
    <3> QED BY <2>1, <3>3
  <2> QED BY <1>16, <2>2, <2>3 DEF IsBoth
<1> QED BY <1>3, <1>16, <1>17, <1>18, <1>19, <1>21, <1>23, Carry

\* Resolved labels laid over those of a rank.
LEMMA Overlaid ==
  ASSUME NEW r \in Ranks, TileHolds(r, tile[r]), NEW g, GlobalHolds(r, g), NEW v, ResolvedHolds(r, v)
  PROVE  LabelsHold(r, Over(v, g))
<1>1. DOMAIN v = Conduit(r) /\ Conduit(r) \subseteq Owned(r) /\ g \in [Owned(r) -> Nat]
  BY DEF ResolvedHolds, Conduit, GlobalHolds, LabelsHold
<1>2. DOMAIN v \cup DOMAIN g = Owned(r)
  BY <1>1
<1>3. Over(v, g) = [c \in Owned(r) |-> IF c \in Conduit(r) THEN v[c] ELSE g[c]]
  BY <1>1, <1>2 DEF Over
<1>4. ASSUME NEW c \in Owned(r), terrain[c].ocean PROVE c \notin Conduit(r) /\ g[c] = OCEAN
  <2>1. tile[r].label[c] = OCEAN
    BY <1>4 DEF TileHolds
  <2>2. OCEAN # BOUNDARY
    <3>1. CellTotal \in Nat \ {0} /\ CellTotal < BOUNDARY
      BY LabelAssumption, CellCount DEF CellTotal
    <3> QED BY <3>1 DEF OCEAN
  <2>3. g[c] = OCEAN
    BY <1>4 DEF GlobalHolds, LabelsHold
  <2> QED BY <2>1, <2>2, <2>3 DEF Conduit
<1>5. \A c \in Conduit(r) : v[c] \in Nat
  BY DEF ResolvedHolds
<1> QED BY <1>1, <1>3, <1>4, <1>5 DEF LabelsHold

\* The stage after the conduits.
LEMMA AfterIs == Turn(AfterConduits) = IF flat_replay THEN 5 ELSE 9
BY TurnIs DEF AfterConduits

\* A rank lays the resolved labels over its own.
LEMMA OverlayData ==
  ASSUME IInv, IInv', DataInv, NEW r \in Ranks, Overlay(r), gc_owned' = gc_owned
  PROVE  DataInv'
<1>1. PICK v : v = First(mail, <<0, r, "resolved">>)
  OBVIOUS
<1>2. PICK x : x = AfterConduits
  OBVIOUS
<1>3. /\ pc[r] = "resolved" /\ Has(mail, Awaited(r)) /\ pc' = [pc EXCEPT ![r] = x] /\ mail' = Receive(mail, Awaited(r))
      /\ glab_pc' = [glab_pc EXCEPT ![r] = Over(v, glab[r])]
      /\ terrain' = terrain /\ flat_replay' = flat_replay /\ tile' = tile /\ myoffset' = myoffset
      /\ glab' = glab /\ walked' = walked
  BY <1>1, <1>2 DEF Overlay, At, floodVars, startVars
<1>4. /\ pc'[r] = x /\ at(r) = 4 /\ at(r)' = Turn(x) /\ \A q \in Ranks \ {r} : pc'[q] = pc[q] /\ at(q)' = at(q)
  <2>1. at(r) = 4
    BY <1>3, TurnIs DEF at
  <2> QED BY <1>3, <2>1, StepsTo
<1>5. Turn(x) \in {5, 9} /\ (flat_replay => Turn(x) = 5)
  BY <1>2, AfterIs
<1>6. RankHolds(r) /\ PerRank
  BY RankIs
<1>7. TileHolds(r, tile[r]) /\ OffsetHolds(r, myoffset[r]) /\ GlobalHolds(r, glab[r]) /\ r # 0
  <2>1. r # 0
    BY <1>3 DEF IInv, StageIs, ZeroStages
  <2> QED BY <1>4, <1>6, <2>1 DEF RankHolds
<1>8. ResolvedHolds(r, v)
  <2>1. r \in Others /\ <<0, r, "resolved">> \in Awaited(r)
    BY <1>3, <1>7 DEF Others, Awaited
  <2>2. Says(0, r, "resolved", v)
    BY <1>1, <1>3, <2>1, HasHeard
  <2> QED BY <2>2 DEF Says
<1>9. PICK l : l = Over(v, glab[r])
  OBVIOUS
<1>10. LabelsHold(r, l)
  BY <1>7, <1>8, <1>9, Overlaid
<1>11. DOMAIN glab_pc' = Ranks /\ glab_pc'[r] = l /\ \A q \in Ranks \ {r} : glab_pc'[q] = glab_pc[q]
  BY <1>3, <1>6, <1>9 DEF PerRank
<1>12. Moved(r, NoMail)
  BY <1>3, MailTaken
<1>13. Frozen /\ \A q \in Ranks \ {r} : SameRank(q)
  BY <1>3, <1>4, <1>11 DEF Frozen, SameRank
<1>14. RankHolds(r)'
  <2>1. TileHolds(r, tile[r])'
    BY <1>3, <1>7 DEF TileHolds
  <2>2. OffsetHolds(r, myoffset[r])'
    BY <1>3, <1>7 DEF OffsetHolds
  <2>3. GlobalHolds(r, glab[r])'
    BY <1>3, <1>7 DEF GlobalHolds, LabelsHold
  <2>4. LabelsHold(r, glab_pc[r])'
    BY <1>3, <1>10, <1>11 DEF LabelsHold
  <2>5. ~ (at(r)' > 7 /\ flat_replay')
    BY <1>3, <1>4, <1>5
  <2> QED BY <1>7, <2>1, <2>2, <2>3, <2>4, <2>5 DEF RankHolds
<1>15. PerRank'
  BY <1>3, <1>6, <1>11 DEF PerRank
<1>16. WalkedHolds'
  BY <1>3, <1>7, <1>13, BesideIs, WalkedStays
<1>17. DOMAIN NoMail = {}
  BY DEF NoMail
<1> QED BY <1>3, <1>12, <1>13, <1>14, <1>15, <1>16, <1>17, Carry

\* What rank 0 has gathered when it resolves the conduits.
LEMMA ChasedOut ==
  ASSUME IInv, DataInv, pc[0] = "gather", Has(mail, Awaited(0)), NEW t \in Ranks
  PROVE  ResolvedHolds(t, ResolvedOf(t))
<1>0. 0 \in Ranks /\ at(0) = 4
  BY BesideIs, TurnIs DEF at
<1>1. RankHolds(0) /\ WalkedHolds
  BY <1>0, RankIs
<1>2. PICK own : own = Restrict(glab[0], SeamCells(0))
  OBVIOUS
<1>3. PICK lwOf : lwOf = [s \in Ranks |-> IF s = 0 THEN walked ELSE First(mail, <<s, 0, "lw">>)]
  OBVIOUS
<1>4. PICK edgeOf : edgeOf = [s \in Ranks |-> IF s = 0 THEN own ELSE First(mail, <<s, 0, "edge">>)]
  OBVIOUS
<1>5. PICK lw : lw = [c \in UNION {DOMAIN lwOf[s] : s \in Ranks} |-> lwOf[TileOf(c)][c]]
  OBVIOUS
<1>6. PICK edge : edge = [c \in UNION {DOMAIN edgeOf[s] : s \in Ranks} |-> edgeOf[TileOf(c)][c]]
  OBVIOUS
<1>7. ASSUME NEW s \in Ranks PROVE WalksHold(Conduit(s), lwOf[s])
  <2>1. CASE s = 0
    BY <1>0, <1>1, <1>3, <2>1 DEF WalkedHolds
  <2>2. CASE s # 0
    <3>1. PICK v : v = First(mail, <<s, 0, "lw">>)
      OBVIOUS
    <3>2. s \in Others /\ <<s, 0, "lw">> \in Awaited(0)
      BY <2>2 DEF Others, Awaited, ToZero
    <3>3. Says(s, 0, "lw", v)
      BY <3>1, <3>2, HasCome
    <3> QED BY <1>3, <2>2, <3>1, <3>3 DEF Says
  <2> QED BY <2>1, <2>2
<1>8. ASSUME NEW s \in Ranks PROVE EdgeHolds(s, edgeOf[s])
  <2>1. CASE s = 0
    <3>1. GlobalHolds(0, glab[0])
      BY <1>0, <1>1 DEF RankHolds
    <3>2. DOMAIN own = SeamCells(0) /\ \A c \in SeamCells(0) : own[c] = glab[0][c]
      BY <1>2 DEF Restrict
    <3>3. EdgeHolds(0, own)
      BY <1>0, <3>1, <3>2, SeamsOwned DEF EdgeHolds, GlobalHolds, LabelsHold, Conduit
    <3> QED BY <1>4, <2>1, <3>3
  <2>2. CASE s # 0
    <3>1. PICK v : v = First(mail, <<s, 0, "edge">>)
      OBVIOUS
    <3>2. s \in Others /\ <<s, 0, "edge">> \in Awaited(0)
      BY <2>2 DEF Others, Awaited, ToZero
    <3>3. Says(s, 0, "edge", v)
      BY <3>1, <3>2, HasCome
    <3> QED BY <1>4, <2>2, <3>1, <3>3 DEF Says
  <2> QED BY <2>1, <2>2
<1>9. AllWalks = lw
  <2>1. \A s \in Ranks : lwOf[s] = IF s = 0 THEN walked ELSE First(mail, <<s, 0, "lw">>)
    BY <1>3
  <2>2. \A c \in UNION {DOMAIN lwOf[s] : s \in Ranks} : TileOf(c) \in Ranks
    BY <1>7, TileIs DEF WalksHold, Conduit
  <2>3. UNION {DOMAIN lwOf[s] : s \in Ranks} =
        UNION {DOMAIN (IF s = 0 THEN walked ELSE First(mail, <<s, 0, "lw">>)) : s \in Ranks}
    BY <2>1
  <2> QED BY <1>5, <2>1, <2>2, <2>3 DEF AllWalks, Gathered
<1>10. AllEdges = edge
  <2>1. \A s \in Ranks : edgeOf[s] = IF s = 0 THEN own ELSE First(mail, <<s, 0, "edge">>)
    BY <1>4
  <2>2. \A c \in UNION {DOMAIN edgeOf[s] : s \in Ranks} : TileOf(c) \in Ranks
    BY <1>8, TileIs DEF EdgeHolds
  <2>3. UNION {DOMAIN edgeOf[s] : s \in Ranks} =
        UNION {DOMAIN (IF s = 0 THEN own ELSE First(mail, <<s, 0, "edge">>)) : s \in Ranks}
    BY <2>1
  <2> QED BY <1>2, <1>6, <2>1, <2>2, <2>3 DEF AllEdges, Gathered
<1>11. DOMAIN lw = UNION {Conduit(s) : s \in Ranks}
  BY <1>5, <1>7 DEF WalksHold
<1>12. ASSUME NEW s \in Ranks, NEW c \in Conduit(s)
       PROVE  c \in Cells /\ TileOf(c) = s /\ c \in DOMAIN lw /\ lw[c] = lwOf[s][c]
  <2>1. c \in Owned(s) /\ c \in DOMAIN lw
    BY <1>11 DEF Conduit
  <2>2. c \in Cells /\ TileOf(c) = s
    BY <2>1, TileIs
  <2>3. lw[c] = lwOf[TileOf(c)][c]
    BY <1>5, <2>1
  <2> QED BY <2>1, <2>2, <2>3
<1>13. ASSUME NEW c \in DOMAIN lw, lw[c].terminal PROVE lw[c].label \in Nat
  <2>1. PICK s \in Ranks : c \in Conduit(s)
    BY <1>11
  <2> QED BY <1>7, <1>12, <1>13, <2>1 DEF WalksHold
<1>14. IsFiniteSet(DOMAIN lw)
  <2>1. DOMAIN lw \subseteq Cells
    BY <1>11, <1>12
  <2> QED BY <2>1, CellIs, FS_Subset
<1>15. ASSUME NEW c \in DOMAIN edge PROVE edge[c] \in Nat /\ (edge[c] = BOUNDARY => c \in DOMAIN lw)
  <2>1. PICK s \in Ranks : c \in DOMAIN edgeOf[s]
    BY <1>6
  <2>2. TileOf(c) = s
    BY <1>8, <2>1, TileIs DEF EdgeHolds
  <2>3. edge[c] = edgeOf[s][c]
    BY <1>6, <2>2
  <2>4. edgeOf[s][c] \in Nat /\ (edgeOf[s][c] = BOUNDARY => c \in Conduit(s))
    BY <1>8, <2>1 DEF EdgeHolds
  <2> QED BY <1>11, <2>3, <2>4
<1>16. ASSUME NEW c \in DOMAIN lw PROVE ChaseOrOcean(lw, edge, c) \in Nat
  BY <1>13, <1>14, <1>15, <1>16, ChaseFits
<1>17. {x \in DOMAIN lw : TileOf(x) = t} = Conduit(t)
  BY <1>11, <1>12
<1>18. ResolvedOf(t) = [c \in Conduit(t) |-> ChaseOrOcean(lw, edge, c)]
  BY <1>9, <1>10, <1>17 DEF ResolvedOf
<1> QED BY <1>12, <1>16, <1>18 DEF ResolvedHolds

\* The chase on rank 0.
LEMMA ResolveData ==
  ASSUME IInv, IInv', DataInv, Resolve, gc_owned' = gc_owned
  PROVE  DataInv'
<1>0. 0 \in Ranks /\ Others \subseteq Ranks
  BY BesideIs DEF Others
<1>1. PICK x : x = AfterConduits
  OBVIOUS
<1>2. PICK l : l = Over(ResolvedOf(0), glab[0])
  OBVIOUS
<1>3. PICK msgs : msgs = [key \in FromZero("resolved") |-> ResolvedOf(key[2])]
  OBVIOUS
<1>4. /\ pc[0] = "gather" /\ Has(mail, Awaited(0)) /\ pc' = [pc EXCEPT ![0] = x]
      /\ mail' = Sent(Receive(mail, Awaited(0)), msgs)
      /\ glab_pc' = [glab_pc EXCEPT ![0] = l]
      /\ terrain' = terrain /\ flat_replay' = flat_replay /\ tile' = tile /\ myoffset' = myoffset /\ glab' = glab
  BY <1>1, <1>2, <1>3 DEF Resolve, At, floodVars, startVars
<1>5. /\ pc'[0] = x /\ at(0) = 4 /\ at(0)' = Turn(x) /\ \A q \in Ranks \ {0} : pc'[q] = pc[q] /\ at(q)' = at(q)
  <2>1. at(0) = 4
    BY <1>4, TurnIs DEF at
  <2> QED BY <1>0, <1>4, <2>1, StepsTo
<1>6. Turn(x) \in {5, 9} /\ (flat_replay => Turn(x) = 5)
  BY <1>1, AfterIs
<1>7. RankHolds(0) /\ PerRank
  BY <1>0, RankIs
<1>8. TileHolds(0, tile[0]) /\ OffsetHolds(0, myoffset[0]) /\ GlobalHolds(0, glab[0]) /\ myoffset[0] = 1
  BY <1>5, <1>7 DEF RankHolds
<1>9. \A t \in Ranks : ResolvedHolds(t, ResolvedOf(t))
  BY <1>4, ChasedOut
<1>10. LabelsHold(0, l)
  BY <1>0, <1>2, <1>8, <1>9, Overlaid
<1>11. DOMAIN glab_pc' = Ranks /\ glab_pc'[0] = l /\ \A q \in Ranks \ {0} : glab_pc'[q] = glab_pc[q]
  BY <1>0, <1>4, <1>7 DEF PerRank
<1>12. DOMAIN msgs \subseteq Keys
  BY <1>3, ReplyIs DEF ReplyTags
<1>13. Moved(0, msgs)
  BY <1>0, <1>4, <1>12, MailTakenSent
<1>14. Frozen /\ \A q \in Ranks \ {0} : SameRank(q)
  <2>1. gc_owned' = gc_owned
    OBVIOUS
  <2> QED BY <1>4, <1>5, <1>11, <2>1 DEF Frozen, SameRank
<1>15. RankHolds(0)'
  <2>1. TileHolds(0, tile[0])'
    BY <1>4, <1>8 DEF TileHolds
  <2>2. OffsetHolds(0, myoffset[0])'
    BY <1>4, <1>8 DEF OffsetHolds
  <2>3. GlobalHolds(0, glab[0])'
    BY <1>4, <1>8 DEF GlobalHolds, LabelsHold
  <2>4. LabelsHold(0, glab_pc[0])'
    BY <1>4, <1>10, <1>11 DEF LabelsHold
  <2>5. ~ (at(0)' > 7 /\ flat_replay') /\ myoffset'[0] = 1
    BY <1>4, <1>5, <1>6, <1>8
  <2> QED BY <2>1, <2>2, <2>3, <2>4, <2>5 DEF RankHolds
<1>16. PerRank'
  BY <1>4, <1>7, <1>11 DEF PerRank
<1>17. WalkedHolds'
  BY <1>5, <1>6 DEF WalkedHolds
<1>18. ASSUME NEW key \in DOMAIN msgs PROVE Told(key, msgs[key])'
  <2>1. PICK t \in Others : key = <<0, t, "resolved">>
    BY <1>3 DEF FromZero
  <2>2. PICK v : v = msgs[key]
    OBVIOUS
  <2>3. v = ResolvedOf(t)
    BY <1>3, <2>1, <2>2
  <2>4. ResolvedHolds(t, v)
    BY <1>0, <1>9, <2>3
  <2>6. tile'[t] = tile[t]
    BY <1>4
  <2>7. ResolvedHolds(t, v)'
    BY <2>4, <2>6 DEF ResolvedHolds, Conduit
  <2>8. Told(key, v)'
    BY <2>1, <2>7 DEF Told, Says
  <2> QED BY <2>2, <2>8
<1> QED BY <1>0, <1>4, <1>13, <1>14, <1>15, <1>16, <1>17, <1>18, Carry

-----------------------------------------------------------------------------
\* A rank past the conduits whose labels are as they should be.
LEMMA RankStays ==
  ASSUME NEW r \in Ranks, RankHolds(r), at(r) > 4, terrain' = terrain, tile'[r] = tile[r], myoffset'[r] = myoffset[r],
         glab'[r] = glab[r], LabelsHold(r, glab_pc[r])', (at(r) > 7 /\ flat_replay => LabelsHold(r, gc_owned[r]))',
         StageIs(r)
  PROVE  RankHolds(r)'
<1>1. at(r) > 1 /\ at(r) > 2 /\ at(r) > 3
  <2>1. at(r) \in 0 .. 20
    BY NowType
  <2> QED BY <2>1
<1>2. TileHolds(r, tile[r]) /\ OffsetHolds(r, myoffset[r]) /\ GlobalHolds(r, glab[r]) /\ (r = 0 => myoffset[r] = 1)
  BY <1>1 DEF RankHolds
<1>3. TileHolds(r, tile[r])'
  BY <1>2 DEF TileHolds
<1>4. OffsetHolds(r, myoffset[r])'
  BY <1>2 DEF OffsetHolds
<1>5. GlobalHolds(r, glab[r])'
  BY <1>2 DEF GlobalHolds, LabelsHold
<1> QED BY <1>2, <1>3, <1>4, <1>5 DEF RankHolds

\* The surviving labels of the cells of a rank.
LEMMA SurvivorsFit ==
  ASSUME NEW r \in Ranks, LabelsHold(r, glab_pc[r]), NEW survmap, \A x \in DOMAIN survmap : survmap[x] \in Nat
  PROVE  LabelsHold(r, SurvivorOf(r, survmap))
<1>1. ASSUME NEW c \in Owned(r)
      PROVE  SurvivorOf(r, survmap)[c] \in Nat /\ (terrain[c].ocean => SurvivorOf(r, survmap)[c] = OCEAN)
  <2>1. OCEAN \in Nat /\ glab_pc[r][c] \in Nat
    BY DEF OCEAN, LabelsHold
  <2>2. CASE terrain[c].ocean \/ owned[r][c] \notin Cells \ {OCEAN}
    <3>1. SurvivorOf(r, survmap)[c] =
            IF terrain[c].ocean \/ owned[r][c] \notin Cells \ {OCEAN} THEN OCEAN
            ELSE IF owned[r][c] \in DOMAIN survmap THEN survmap[owned[r][c]]
            ELSE glab_pc[r][c]
      BY Zenon DEF SurvivorOf
    <3>2. SurvivorOf(r, survmap)[c] = OCEAN
      BY <2>2, <3>1
    <3> QED BY <2>1, <3>2
  <2>3. CASE ~ (terrain[c].ocean \/ owned[r][c] \notin Cells \ {OCEAN}) /\ owned[r][c] \in DOMAIN survmap
    <3>1. SurvivorOf(r, survmap)[c] = survmap[owned[r][c]]
      BY <2>3 DEF SurvivorOf
    <3> QED BY <2>3, <3>1
  <2>4. CASE ~ (terrain[c].ocean \/ owned[r][c] \notin Cells \ {OCEAN}) /\ owned[r][c] \notin DOMAIN survmap
    <3>1. SurvivorOf(r, survmap)[c] = glab_pc[r][c]
      BY <2>4 DEF SurvivorOf
    <3> QED BY <2>1, <2>4, <3>1
  <2> QED BY <2>2, <2>3, <2>4
<1>2. DOMAIN SurvivorOf(r, survmap) = Owned(r) /\ SurvivorOf(r, survmap) = [c \in Owned(r) |-> SurvivorOf(r, survmap)[c]]
  BY DEF SurvivorOf
<1> QED BY <1>1, <1>2 DEF LabelsHold

\* The leaves of a rank have numbers.
LEMMA LeavesAreNumbers ==
  ASSUME NEW r \in Ranks, OffsetHolds(r, myoffset[r]), TileHolds(r, tile[r]), NEW p \in PitBasins(r)
  PROVE  p.leaf \in Nat
<1>1. PICK k \in DOMAIN tile[r].pits : p = [rb |-> owned[r][tile[r].pits[k]], leaf |-> myoffset[r] + k - 1]
  BY DEF PitBasins
<1>2. k \in Nat \ {0} /\ myoffset[r] \in Nat \ {0}
  BY DEF OffsetHolds, TileHolds
<1> QED BY <1>1, <1>2

\* The lowest leaf of a basin is one.
LEMMA LowestAreNumbers ==
  ASSUME NEW pairs, \A p \in pairs : p.leaf \in Nat, NEW x \in DOMAIN LowestLeaf(pairs)
  PROVE  LowestLeaf(pairs)[x] \in Nat
<1> DEFINE S == {p.leaf : p \in {q \in pairs : q.rb = x}}
<1>1. PICK p \in pairs : p.rb = x
  BY DEF LowestLeaf
<1>2. S \subseteq Nat /\ S # {}
  BY <1>1
<1>3. LowestLeaf(pairs)[x] = Min(S)
  BY DEF LowestLeaf
<1> HIDE DEF S
<1>4. PICK m \in S : \A y \in S : m <= y
  BY <1>2, Least
<1>5. Min(S) \in S
  BY <1>4 DEF Min
<1> QED BY <1>2, <1>3, <1>5

\* Rank 0 picks the surviving leaf of each basin.
LEMMA PickSurvivorsData ==
  ASSUME IInv, IInv', DataInv, PickSurvivors, glab' = glab, walked' = walked
  PROVE  DataInv'
<1>0. 0 \in Ranks /\ Others \subseteq Ranks
  BY BesideIs DEF Others
<1>1. PICK pairs : pairs = PitBasins(0) \cup UNION {First(mail, k) : k \in Awaited(0)}
  OBVIOUS
<1>2. PICK s, l : s = LowestLeaf(pairs) /\ l = SurvivorOf(0, s)
  OBVIOUS
<1>3. PICK msgs : msgs = [key \in FromZero("rep") |-> s]
  OBVIOUS
<1>4. surv' = s
  BY <1>1, <1>2 DEF PickSurvivors
<1>5. gc_owned' = [gc_owned EXCEPT ![0] = l]
  BY <1>2, <1>4 DEF PickSurvivors
<1>6. /\ pc[0] = "leaves" /\ Has(mail, Awaited(0)) /\ pc' = [pc EXCEPT ![0] = "used"]
      /\ mail' = Sent(Receive(mail, Awaited(0)), msgs)
      /\ terrain' = terrain /\ flat_replay' = flat_replay /\ tile' = tile /\ myoffset' = myoffset /\ glab_pc' = glab_pc
  BY <1>3, <1>4 DEF PickSurvivors, At, floodVars, startVars
<1>7. /\ pc'[0] = "used" /\ at(0) = 7 /\ at(0)' = 8 /\ \A q \in Ranks \ {0} : pc'[q] = pc[q] /\ at(q)' = at(q)
  BY <1>0, <1>6, StepsTo, TurnIs DEF at
<1>8. RankHolds(0) /\ PerRank
  BY <1>0, RankIs
<1>9. TileHolds(0, tile[0]) /\ OffsetHolds(0, myoffset[0]) /\ LabelsHold(0, glab_pc[0])
  BY <1>7, <1>8 DEF RankHolds
<1>10. ASSUME NEW p \in pairs PROVE p.leaf \in Nat
  <2>1. CASE p \in PitBasins(0)
    BY <1>0, <1>9, <2>1, LeavesAreNumbers
  <2>2. CASE p \notin PitBasins(0)
    <3>1. PICK k \in Awaited(0) : p \in First(mail, k)
      BY <1>1, <2>2
    <3>2. PICK t \in Others : k = <<t, 0, "rep">>
      BY <1>6, <3>1 DEF Awaited, ToZero
    <3>3. PICK v : v = First(mail, <<t, 0, "rep">>)
      OBVIOUS
    <3>4. Says(t, 0, "rep", v)
      BY <1>6, <3>1, <3>2, <3>3, HasCome
    <3>5. t # 0
      BY <3>2 DEF Others
    <3> QED BY <3>1, <3>2, <3>3, <3>4, <3>5 DEF Says
  <2> QED BY <2>1, <2>2
<1>11. \A x \in DOMAIN s : s[x] \in Nat
  BY <1>2, <1>10, LowestAreNumbers
<1>12. LabelsHold(0, l)
  BY <1>0, <1>2, <1>9, <1>11, SurvivorsFit
<1>13. DOMAIN gc_owned' = Ranks /\ gc_owned'[0] = l /\ \A q \in Ranks \ {0} : gc_owned'[q] = gc_owned[q]
  BY <1>0, <1>5, <1>8 DEF PerRank
<1>14. DOMAIN msgs \subseteq Keys
  BY <1>3, ReplyIs DEF ReplyTags
<1>15. Moved(0, msgs)
  BY <1>0, <1>6, <1>14, MailTakenSent
<1>16. Frozen /\ \A q \in Ranks \ {0} : SameRank(q)
  BY <1>6, <1>7, <1>13 DEF Frozen, SameRank
<1>17. RankHolds(0)'
  <2>1. LabelsHold(0, gc_owned[0])'
    BY <1>6, <1>12, <1>13 DEF LabelsHold
  <2>2. LabelsHold(0, glab_pc[0])'
    BY <1>6, <1>9 DEF LabelsHold
  <2>3. (at(0) > 7 /\ flat_replay => LabelsHold(0, gc_owned[0]))'
    BY <2>1
  <2>4. StageIs(0) /\ at(0) > 4
    BY <1>0, <1>7 DEF IInv
  <2> QED BY <1>0, <1>6, <1>8, <2>2, <2>3, <2>4, RankStays
<1>18. PerRank'
  BY <1>6, <1>8, <1>13 DEF PerRank
<1>19. WalkedHolds'
  BY <1>7 DEF WalkedHolds
<1>20. ASSUME NEW key \in DOMAIN msgs PROVE Told(key, msgs[key])'
  <2>1. PICK t \in Others : key = <<0, t, "rep">>
    BY <1>3 DEF FromZero
  <2>2. PICK v : v = msgs[key]
    OBVIOUS
  <2>3. v = s
    BY <1>3, <2>2
  <2>4. Told(key, v)'
    BY <1>11, <2>1, <2>3 DEF Told, Says
  <2> QED BY <2>2, <2>4
<1> QED BY <1>0, <1>6, <1>15, <1>16, <1>17, <1>18, <1>19, <1>20, Carry

\* A rank maps its cells to the surviving leaves.
LEMMA MapCellsData ==
  ASSUME IInv, IInv', DataInv, NEW r \in Ranks, MapCells(r), glab' = glab, walked' = walked
  PROVE  DataInv'
<1>1. PICK s : s = First(mail, <<0, r, "rep">>)
  OBVIOUS
<1>2. PICK l : l = SurvivorOf(r, s)
  OBVIOUS
<1>3. PICK msgs : msgs = Report(r, "flrel", Range(l))
  OBVIOUS
<1>4. /\ pc[r] = "surv" /\ Has(mail, Awaited(r)) /\ pc' = [pc EXCEPT ![r] = "dense"]
      /\ gc_owned' = [gc_owned EXCEPT ![r] = l] /\ mail' = Sent(Receive(mail, Awaited(r)), msgs)
      /\ terrain' = terrain /\ flat_replay' = flat_replay /\ tile' = tile /\ myoffset' = myoffset /\ glab_pc' = glab_pc
  BY <1>1, <1>2, <1>3 DEF MapCells, At, floodVars, startVars
<1>5. /\ pc'[r] = "dense" /\ at(r) = 7 /\ at(r)' = 8 /\ \A q \in Ranks \ {r} : pc'[q] = pc[q] /\ at(q)' = at(q)
  <2>1. PICK x : x = "dense"
    OBVIOUS
  <2>2. pc' = [pc EXCEPT ![r] = x]
    BY <1>4, <2>1
  <2>3. pc'[r] = x /\ at(r)' = Turn(x) /\ \A q \in Ranks \ {r} : pc'[q] = pc[q] /\ at(q)' = at(q)
    BY <2>2, StepsTo
  <2>4. Turn(x) = 8 /\ at(r) = 7
    BY <1>4, <2>1, TurnIs DEF at
  <2> QED BY <2>1, <2>3, <2>4
<1>6. r # 0 /\ r \in Others
  BY <1>4 DEF IInv, StageIs, ZeroStages, Others
<1>7. RankHolds(r) /\ PerRank
  BY RankIs
<1>8. TileHolds(r, tile[r]) /\ OffsetHolds(r, myoffset[r]) /\ LabelsHold(r, glab_pc[r])
  BY <1>5, <1>7 DEF RankHolds
<1>9. \A x \in DOMAIN s : s[x] \in Nat
  <2>1. <<0, r, "rep">> \in Awaited(r)
    BY <1>4 DEF Awaited
  <2>2. Says(0, r, "rep", s)
    BY <1>1, <1>4, <1>6, <2>1, HasHeard
  <2> QED BY <2>2 DEF Says
<1>10. LabelsHold(r, l)
  BY <1>2, <1>8, <1>9, SurvivorsFit
<1>11. DOMAIN gc_owned' = Ranks /\ gc_owned'[r] = l /\ \A q \in Ranks \ {r} : gc_owned'[q] = gc_owned[q]
  BY <1>4, <1>7 DEF PerRank
<1>12. DOMAIN msgs \subseteq Keys
  BY <1>3, ReportIs DEF ReportTags
<1>13. Moved(r, msgs)
  BY <1>4, <1>12, MailTakenSent
<1>14. Frozen /\ \A q \in Ranks \ {r} : SameRank(q)
  BY <1>4, <1>5, <1>11 DEF Frozen, SameRank
<1>15. RankHolds(r)'
  <2>1. LabelsHold(r, gc_owned[r])'
    BY <1>4, <1>10, <1>11 DEF LabelsHold
  <2>2. LabelsHold(r, glab_pc[r])'
    BY <1>4, <1>8 DEF LabelsHold
  <2>3. (at(r) > 7 /\ flat_replay => LabelsHold(r, gc_owned[r]))'
    BY <2>1
  <2>4. StageIs(r) /\ at(r) > 4
    BY <1>5 DEF IInv
  <2> QED BY <1>4, <1>7, <2>2, <2>3, <2>4, RankStays
<1>16. PerRank'
  BY <1>4, <1>7, <1>11 DEF PerRank
<1>17. WalkedHolds'
  <2>1. SameRank(0)
    BY <1>6, <1>14, BesideIs
  <2> QED BY <1>14, <2>1, WalkedStays
<1>18. ASSUME NEW key \in DOMAIN msgs PROVE Told(key, msgs[key])'
  <2>1. msgs[key] = Range(l) /\ key[1] = r /\ key[3] = "flrel"
    BY <1>3, ReportSays DEF ReportTags
  <2>2. PICK v : v = msgs[key]
    OBVIOUS
  <2>3. v = Range(gc_owned'[r])
    BY <1>11, <2>1, <2>2
  <2>4. Told(key, v)'
    BY <1>6, <2>1, <2>3 DEF Told, Says, Range
  <2> QED BY <2>2, <2>4
<1> QED BY <1>4, <1>13, <1>14, <1>15, <1>16, <1>17, <1>18, Carry

\* Labels without gaps.
LEMMA DensifiedIs ==
  ASSUME NEW labels, labels \subseteq Nat
  PROVE  /\ DOMAIN Densified(labels) = labels \cup {OCEAN} /\ Densified(labels)[OCEAN] = OCEAN
         /\ \A l \in labels \cup {OCEAN} : Densified(labels)[l] \in Nat
<1>1. PICK S : S = labels \cup {OCEAN}
  OBVIOUS
<1>2. S \subseteq Nat /\ OCEAN = 0 /\ OCEAN \in S
  BY <1>1 DEF OCEAN
<1>3. Densified(labels) = [l \in S |-> Cardinality({k \in S : k < l})]
  BY <1>1 DEF Densified
<1>4. ASSUME NEW l \in S PROVE Cardinality({k \in S : k < l}) \in Nat
  <2>1. l \in Nat /\ IsFiniteSet(0 .. l)
    BY <1>2, FS_Interval
  <2>2. \A k \in S : k < l => k \in 0 .. l
    BY <1>2, <2>1
  <2>3. {k \in S : k < l} \subseteq 0 .. l
    BY <2>2
  <2> QED BY <2>1, <2>3, FS_Subset, FS_CardinalityType
<1>5. Cardinality({k \in S : k < OCEAN}) = 0
  <2>1. \A k \in S : ~ (k < OCEAN)
    BY <1>2
  <2>2. {k \in S : k < OCEAN} = {}
    BY <2>1
  <2> QED BY <2>2, FS_EmptySet
<1> QED BY <1>1, <1>2, <1>3, <1>4, <1>5

\* The dense labels of the cells of a rank.
LEMMA DenseFits ==
  ASSUME NEW r \in Ranks, LabelsHold(r, gc_owned[r]), NEW dense, DenseHolds(r, dense)
  PROVE  LabelsHold(r, [c \in Owned(r) |-> dense[gc_owned[r][c]]])
<1>1. ASSUME NEW c \in Owned(r)
      PROVE  dense[gc_owned[r][c]] \in Nat /\ (terrain[c].ocean => dense[gc_owned[r][c]] = OCEAN)
  <2>1. gc_owned[r][c] \in Range(gc_owned[r])
    BY DEF LabelsHold, Range
  <2>2. terrain[c].ocean => gc_owned[r][c] = OCEAN
    BY DEF LabelsHold
  <2> QED BY <2>1, <2>2 DEF DenseHolds
<1> QED BY <1>1 DEF LabelsHold

\* Rank 0 makes the labels in use dense.
LEMMA DensifyData ==
  ASSUME IInv, IInv', DataInv, Densify, glab' = glab, walked' = walked
  PROVE  DataInv'
<1>0. 0 \in Ranks /\ Others \subseteq Ranks
  BY BesideIs DEF Others
<1>1. PICK labels : labels = Range(gc_owned[0]) \cup UNION {First(mail, k) : k \in Awaited(0)}
  OBVIOUS
<1>2. PICK dense : dense = Densified(labels)
  OBVIOUS
<1>3. PICK l : l = [c \in Owned(0) |-> dense[gc_owned[0][c]]]
  OBVIOUS
<1>4. PICK msgs : msgs = [key \in FromZero("flrel") |-> dense]
  OBVIOUS
<1>5. fl_relabel' = dense
  BY <1>1, <1>2 DEF Densify
<1>6. glab_pc' = [glab_pc EXCEPT ![0] = l]
  BY <1>3, <1>5 DEF Densify
<1>7. /\ pc[0] = "used" /\ Has(mail, Awaited(0)) /\ pc' = [pc EXCEPT ![0] = "settled"]
      /\ mail' = Sent(Receive(mail, Awaited(0)), msgs)
      /\ terrain' = terrain /\ flat_replay' = flat_replay /\ tile' = tile /\ myoffset' = myoffset /\ gc_owned' = gc_owned
  BY <1>4, <1>5 DEF Densify, At, floodVars, startVars
<1>8. /\ pc'[0] = "settled" /\ at(0) = 8 /\ at(0)' = 9 /\ \A q \in Ranks \ {0} : pc'[q] = pc[q] /\ at(q)' = at(q)
  BY <1>0, <1>7, StepsTo, TurnIs DEF at
<1>9. flat_replay
  BY <1>0, <1>8 DEF IInv, StageIs
<1>10. RankHolds(0) /\ PerRank
  BY <1>0, RankIs
<1>11. ASSUME NEW t \in Ranks PROVE Range(gc_owned[t]) \subseteq labels /\ LabelsHold(t, gc_owned[t])
  <2>1. CASE t = 0
    BY <1>1, <1>8, <1>9, <1>10, <2>1 DEF RankHolds
  <2>2. CASE t # 0
    <3>1. t \in Others /\ <<t, 0, "flrel">> \in Awaited(0)
      BY <1>7, <2>2 DEF Others, Awaited, ToZero
    <3>2. PICK v : v = First(mail, <<t, 0, "flrel">>)
      OBVIOUS
    <3>3. Says(t, 0, "flrel", v) /\ at(t) > SendTurn(<<t, 0, "flrel">>)
      BY <1>7, <3>1, <3>2, HasCome DEF Rounds
    <3>4. v = Range(gc_owned[t]) /\ at(t) > 7
      BY <2>2, <3>3 DEF Says, SendTurn
    <3>5. v \subseteq labels
      BY <1>1, <3>1, <3>2
    <3>6. LabelsHold(t, gc_owned[t])
      BY <1>9, <3>4 DEF DataInv, RankHolds
    <3> QED BY <3>4, <3>5, <3>6
  <2> QED BY <2>1, <2>2
<1>12. labels \subseteq Nat
  <2>1. ASSUME NEW x \in labels PROVE \E t \in Ranks : x \in Range(gc_owned[t])
    <3>1. CASE x \in Range(gc_owned[0])
      BY <1>0, <3>1
    <3>2. CASE x \notin Range(gc_owned[0])
      <4>1. PICK k \in Awaited(0) : x \in First(mail, k)
        BY <1>1, <3>2
      <4>2. PICK t \in Others : k = <<t, 0, "flrel">>
        BY <1>7, <4>1 DEF Awaited, ToZero
      <4>3. PICK v : v = First(mail, <<t, 0, "flrel">>)
        OBVIOUS
      <4>4. Says(t, 0, "flrel", v) /\ t # 0
        BY <1>7, <4>1, <4>2, <4>3, HasCome DEF Others
      <4>5. v = Range(gc_owned[t])
        BY <4>4 DEF Says
      <4> QED BY <1>0, <4>1, <4>2, <4>3, <4>5
    <3> QED BY <3>1, <3>2
  <2>2. ASSUME NEW t \in Ranks, NEW x \in Range(gc_owned[t]) PROVE x \in Nat
    BY <1>11 DEF LabelsHold, Range
  <2> QED BY <2>1, <2>2
<1>13. \A t \in Ranks : DenseHolds(t, dense)
  <2>1. /\ DOMAIN dense = labels \cup {OCEAN} /\ dense[OCEAN] = OCEAN
        /\ \A x \in labels \cup {OCEAN} : dense[x] \in Nat
    BY <1>2, <1>12, DensifiedIs
  <2> QED BY <1>11, <2>1 DEF DenseHolds
<1>14. LabelsHold(0, l)
  BY <1>0, <1>3, <1>11, <1>13, DenseFits
<1>15. DOMAIN glab_pc' = Ranks /\ glab_pc'[0] = l /\ \A q \in Ranks \ {0} : glab_pc'[q] = glab_pc[q]
  BY <1>0, <1>6, <1>10 DEF PerRank
<1>16. DOMAIN msgs \subseteq Keys
  BY <1>4, ReplyIs DEF ReplyTags
<1>17. Moved(0, msgs)
  BY <1>0, <1>7, <1>16, MailTakenSent
<1>18. Frozen /\ \A q \in Ranks \ {0} : SameRank(q)
  BY <1>7, <1>8, <1>15 DEF Frozen, SameRank
<1>19. RankHolds(0)'
  <2>1. LabelsHold(0, glab_pc[0])'
    BY <1>7, <1>14, <1>15 DEF LabelsHold
  <2>2. LabelsHold(0, gc_owned[0])'
    BY <1>0, <1>7, <1>11 DEF LabelsHold
  <2>3. (at(0) > 7 /\ flat_replay => LabelsHold(0, gc_owned[0]))'
    BY <2>2
  <2>4. StageIs(0) /\ at(0) > 4
    BY <1>0, <1>8 DEF IInv
  <2> QED BY <1>0, <1>7, <1>10, <2>1, <2>3, <2>4, RankStays
<1>20. PerRank'
  BY <1>7, <1>10, <1>15 DEF PerRank
<1>21. WalkedHolds'
  BY <1>8 DEF WalkedHolds
<1>22. ASSUME NEW key \in DOMAIN msgs PROVE Told(key, msgs[key])'
  <2>1. PICK t \in Others : key = <<0, t, "flrel">>
    BY <1>4 DEF FromZero
  <2>2. PICK v : v = msgs[key]
    OBVIOUS
  <2>3. v = dense
    BY <1>4, <2>2
  <2>4. DenseHolds(t, v)'
    BY <1>0, <1>7, <1>13, <2>3 DEF DenseHolds, Range
  <2>5. Told(key, v)'
    BY <2>1, <2>4 DEF Told, Says
  <2> QED BY <2>2, <2>5
<1> QED BY <1>0, <1>7, <1>17, <1>18, <1>19, <1>20, <1>21, <1>22, Carry

\* A rank takes its dense labels.
LEMMA TakeDenseData ==
  ASSUME IInv, IInv', DataInv, NEW r \in Ranks, TakeDense(r), glab' = glab, walked' = walked
  PROVE  DataInv'
<1>1. PICK dense : dense = First(mail, <<0, r, "flrel">>)
  OBVIOUS
<1>2. PICK l : l = [c \in Owned(r) |-> dense[gc_owned[r][c]]]
  OBVIOUS
<1>3. /\ pc[r] = "dense" /\ Has(mail, Awaited(r)) /\ pc' = [pc EXCEPT ![r] = "settled"]
      /\ glab_pc' = [glab_pc EXCEPT ![r] = l] /\ mail' = Receive(mail, Awaited(r))
      /\ terrain' = terrain /\ flat_replay' = flat_replay /\ tile' = tile /\ myoffset' = myoffset /\ gc_owned' = gc_owned
  BY <1>1, <1>2 DEF TakeDense, At, floodVars, startVars
<1>4. /\ pc'[r] = "settled" /\ at(r) = 8 /\ at(r)' = 9 /\ \A q \in Ranks \ {r} : pc'[q] = pc[q] /\ at(q)' = at(q)
  <2>1. PICK x : x = "settled"
    OBVIOUS
  <2>2. pc' = [pc EXCEPT ![r] = x]
    BY <1>3, <2>1
  <2>3. pc'[r] = x /\ at(r)' = Turn(x) /\ \A q \in Ranks \ {r} : pc'[q] = pc[q] /\ at(q)' = at(q)
    BY <2>2, StepsTo
  <2>4. Turn(x) = 9 /\ at(r) = 8
    BY <1>3, <2>1, TurnIs DEF at
  <2> QED BY <2>1, <2>3, <2>4
<1>5. r # 0 /\ r \in Others /\ flat_replay
  BY <1>3, <1>4 DEF IInv, StageIs, ZeroStages, Others
<1>6. RankHolds(r) /\ PerRank
  BY RankIs
<1>7. LabelsHold(r, gc_owned[r])
  BY <1>4, <1>5, <1>6 DEF RankHolds
<1>8. DenseHolds(r, dense)
  <2>1. <<0, r, "flrel">> \in Awaited(r)
    BY <1>3 DEF Awaited
  <2>2. Says(0, r, "flrel", dense)
    BY <1>1, <1>3, <1>5, <2>1, HasHeard
  <2> QED BY <2>2 DEF Says
<1>9. LabelsHold(r, l)
  BY <1>2, <1>7, <1>8, DenseFits
<1>10. DOMAIN glab_pc' = Ranks /\ glab_pc'[r] = l /\ \A q \in Ranks \ {r} : glab_pc'[q] = glab_pc[q]
  BY <1>3, <1>6 DEF PerRank
<1>11. Moved(r, NoMail)
  BY <1>3, MailTaken
<1>12. Frozen /\ \A q \in Ranks \ {r} : SameRank(q)
  BY <1>3, <1>4, <1>10 DEF Frozen, SameRank
<1>13. RankHolds(r)'
  <2>1. LabelsHold(r, glab_pc[r])'
    BY <1>3, <1>9, <1>10 DEF LabelsHold
  <2>2. LabelsHold(r, gc_owned[r])'
    BY <1>3, <1>7 DEF LabelsHold
  <2>3. (at(r) > 7 /\ flat_replay => LabelsHold(r, gc_owned[r]))'
    BY <2>2
  <2>4. StageIs(r) /\ at(r) > 4
    BY <1>4 DEF IInv
  <2> QED BY <1>3, <1>6, <2>1, <2>3, <2>4, RankStays
<1>14. PerRank'
  BY <1>3, <1>6, <1>10 DEF PerRank
<1>15. WalkedHolds'
  <2>1. SameRank(0)
    BY <1>5, <1>12, BesideIs
  <2> QED BY <1>3, <1>12, <2>1, WalkedStays
<1>16. DOMAIN NoMail = {}
  BY DEF NoMail
<1> QED BY <1>3, <1>11, <1>12, <1>13, <1>14, <1>15, <1>16, Carry

\* A step that leaves the data as they are.
QuietlyTo(r, x) ==
  /\ pc' = [pc EXCEPT ![r] = x]
  /\ terrain' = terrain /\ flat_replay' = flat_replay /\ tile' = tile /\ myoffset' = myoffset
  /\ glab' = glab /\ walked' = walked /\ glab_pc' = glab_pc /\ gc_owned' = gc_owned

\* They stay as they should be.
LEMMA QuietData ==
  ASSUME IInv, IInv', DataInv, NEW r \in Ranks, NEW x, QuietlyTo(r, x), at(r) > 4, Turn(x) > 4, Turn(x) > 7 => at(r) > 7,
         NEW msgs, Moved(r, msgs), \A key \in DOMAIN msgs : key[3] \in DataTags => Told(key, msgs[key])'
  PROVE  DataInv'
<1>1. /\ terrain' = terrain /\ flat_replay' = flat_replay /\ tile' = tile /\ myoffset' = myoffset
      /\ glab' = glab /\ walked' = walked /\ glab_pc' = glab_pc /\ gc_owned' = gc_owned /\ pc' = [pc EXCEPT ![r] = x]
  BY DEF QuietlyTo
<1>2. pc'[r] = x /\ at(r)' = Turn(x) /\ \A q \in Ranks \ {r} : pc'[q] = pc[q] /\ at(q)' = at(q)
  BY <1>1, StepsTo
<1>3. RankHolds(r) /\ PerRank
  BY RankIs
<1>4. Frozen /\ \A q \in Ranks \ {r} : SameRank(q)
  BY <1>1, <1>2 DEF Frozen, SameRank
<1>5. RankHolds(r)'
  <2>1. LabelsHold(r, glab_pc[r])'
    BY <1>1, <1>3 DEF LabelsHold, RankHolds
  <2>2. (at(r) > 7 /\ flat_replay => LabelsHold(r, gc_owned[r]))'
    BY <1>1, <1>2, <1>3 DEF LabelsHold, RankHolds
  <2>3. StageIs(r)
    BY DEF IInv
  <2> QED BY <1>1, <1>3, <2>1, <2>2, <2>3, RankStays
<1>6. PerRank'
  BY <1>1, <1>3 DEF PerRank
<1>7. WalkedHolds'
  <2>1. CASE r = 0
    BY <1>2, <2>1 DEF WalkedHolds
  <2>2. CASE r # 0
    <3>1. SameRank(0)
      BY <1>4, <2>2, BesideIs
    <3> QED BY <1>1, <1>4, <3>1, WalkedStays
  <2> QED BY <2>1, <2>2
<1> QED BY <1>1, <1>4, <1>5, <1>6, <1>7, Carry

\* A vote.
LEMMA RoundData ==
  ASSUME IInv, IInv', DataInv, NEW r \in Ranks, Round(r), glab' = glab, walked' = walked
  PROVE  DataInv'
<1>1. PICK x : x = IF r = 0 THEN "votes" ELSE "answer"
  OBVIOUS
<1>2. PICK v : mail' = Sent(Receive(mail, Awaited(r)), Report(r, "chg", v))
  BY DEF Round
<1>3. PICK msgs : msgs = Report(r, "chg", v)
  OBVIOUS
<1>4. QuietlyTo(r, x) /\ pc[r] \in {"round", "bands"} /\ Has(mail, Awaited(r))
  BY <1>1 DEF Round, At, floodVars, startVars, QuietlyTo
<1>5. at(r) = 5 /\ Turn(x) = 6
  BY <1>1, <1>4, TurnIs DEF at
<1>6. DOMAIN msgs \subseteq Keys
  BY <1>3, ReportIs DEF ReportTags
<1>7. Moved(r, msgs)
  BY <1>2, <1>3, <1>4, <1>6, MailTakenSent
<1>8. \A key \in DOMAIN msgs : key[3] \notin DataTags
  <2>1. ASSUME NEW key \in DOMAIN msgs PROVE key[3] = "chg"
    BY <1>3, ReportSays DEF ReportTags
  <2> QED BY <2>1 DEF DataTags
<1> QED BY <1>4, <1>5, <1>7, <1>8, QuietData

\* The decision whether another round follows.
LEMMA DecideData ==
  ASSUME IInv, IInv', DataInv, Decide, glab' = glab, walked' = walked
  PROVE  DataInv'
<1>0. 0 \in Ranks
  BY BesideIs
<1>1. PICK go \in BOOLEAN : \E msgs : DecidedAs(go, msgs)
  BY DecisionIs
<1>2. PICK msgs : DecidedAs(go, msgs)
  BY <1>1
<1>3. PICK x : x = IF go THEN "bands" ELSE "leaves"
  OBVIOUS
<1>4. QuietlyTo(0, x) /\ pc[0] = "votes" /\ Moved(0, msgs)
  BY <1>2, <1>3 DEF Decide, At, floodVars, startVars, QuietlyTo, DecidedAs
<1>5. at(0) = 6 /\ Turn(x) \in {5, 7}
  BY <1>3, <1>4, TurnIs DEF at
<1>6. \A key \in DOMAIN msgs : key[3] \notin DataTags
  <2>1. DOMAIN msgs \subseteq Keys
    BY <1>4 DEF Moved
  <2>2. \A key \in DOMAIN msgs : key[3] \in {"cont", "band"}
    BY <1>2, <2>1 DEF DecidedAs
  <2> QED BY <2>2 DEF DataTags
<1> QED BY <1>0, <1>4, <1>5, <1>6, QuietData

\* What a rank does that hears the decision.
LEMMA HeedData ==
  ASSUME IInv, IInv', DataInv, NEW r \in Ranks, Heed(r), glab' = glab, walked' = walked
  PROVE  DataInv'
<1>1. PICK go : go = First(mail, <<0, r, "cont">>)
  OBVIOUS
<1>2. PICK x, msgs : x = (IF go THEN "bands" ELSE "surv") /\ msgs = IF go THEN Bands(r) ELSE Report(r, "rep", PitBasins(r))
  OBVIOUS
<1>3. QuietlyTo(r, x) /\ pc[r] = "answer" /\ Has(mail, Awaited(r)) /\ mail' = Sent(Receive(mail, Awaited(r)), msgs)
  BY <1>1, <1>2 DEF Heed, At, floodVars, startVars, QuietlyTo
<1>4. at(r) = 6 /\ Turn(x) \in {5, 7}
  BY <1>2, <1>3, TurnIs DEF at
<1>5. RankHolds(r)
  BY RankIs
<1>6. CASE go
  <2>1. msgs = Bands(r)
    BY <1>2, <1>6
  <2>2. DOMAIN msgs \subseteq Keys /\ \A key \in DOMAIN msgs : key[3] = "band"
    BY <2>1, BandKeys
  <2>3. Moved(r, msgs)
    BY <1>3, <2>2, MailTakenSent
  <2>4. \A key \in DOMAIN msgs : key[3] \notin DataTags
    BY <2>2 DEF DataTags
  <2> QED BY <1>3, <1>4, <2>3, <2>4, QuietData
<1>7. CASE ~ go
  <2>1. msgs = Report(r, "rep", PitBasins(r))
    BY <1>2, <1>7
  <2>2. DOMAIN msgs \subseteq Keys
    BY <2>1, ReportIs DEF ReportTags
  <2>3. Moved(r, msgs)
    BY <1>3, <2>2, MailTakenSent
  <2>4. OffsetHolds(r, myoffset[r]) /\ TileHolds(r, tile[r])
    BY <1>4, <1>5 DEF RankHolds
  <2>5. \A p \in PitBasins(r) : p.leaf \in Nat
    BY <2>4, LeavesAreNumbers
  <2>6. ASSUME NEW key \in DOMAIN msgs PROVE Told(key, msgs[key])'
    <3>1. msgs[key] = PitBasins(r) /\ key[1] = r /\ r # 0 /\ key[3] = "rep"
      BY <2>1, ReportSays DEF ReportTags
    <3>2. PICK v : v = msgs[key]
      OBVIOUS
    <3>3. \A p \in v : p.leaf \in Nat
      BY <2>5, <3>1, <3>2
    <3>4. Told(key, v)'
      BY <3>1, <3>3 DEF Told, Says
    <3> QED BY <3>2, <3>4
  <2> QED BY <1>3, <1>4, <2>3, <2>6, QuietData
<1> QED BY <1>6, <1>7

\* The ranks have met at the barrier.
AllMet == \A q \in Ranks : at(q) > 9

\* Once the ranks have met, no data is under way.
LEMMA NoDataLeft ==
  ASSUME IInv, AllMet, NEW key \in Keys, key[3] \in DataTags
  PROVE  Waiting(mail, key) = <<>>
<1>1. key[3] \notin Rounds /\ key[2] \in Ranks
  BY KeyIs DEF DataTags, Rounds
<1>2. at(key[2]) \in 0 .. 20 /\ at(key[2]) > 9
  BY <1>1, NowType DEF IInv, AllMet
<1>3. TakeTurn(key) \in 1 .. 8
  BY DEF TakeTurn, DataTags
<1>4. ~ (at(key[2]) <= TakeTurn(key))
  BY <1>2, <1>3
<1> QED BY <1>1, <1>4, ChannelOnce

\* So nothing that is under way says anything of the data.
LEMMA NothingSaid == IInv /\ AllMet => MailSays
BY NoDataLeft DEF MailSays, Told, Says, DataTags

\* And so it is after a step.
LEMMA NothingSaidThen == IInv' /\ AllMet' => MailSays'
BY NothingSaid, PTL

\* From then on the data stay as they are.
Unmoved ==
  /\ terrain' = terrain /\ flat_replay' = flat_replay /\ tile' = tile /\ myoffset' = myoffset
  /\ glab' = glab /\ walked' = walked /\ glab_pc' = glab_pc /\ gc_owned' = gc_owned

\* The data stay as they should be.
LEMMA LateData ==
  ASSUME IInv, IInv', DataInv, \A q \in Ranks : at(q) >= 9, AllMet', Unmoved
  PROVE  DataInv'
<1>1. MailSays'
  BY NothingSaidThen
<1>2. TerrainHolds' /\ PerRank'
  BY DEF DataInv, TerrainHolds, PerRank, Unmoved
<1>3. ASSUME NEW q \in Ranks PROVE RankHolds(q)'
  <2>1. at(q) > 4 /\ at(q) > 7
    <3>1. at(q) \in 0 .. 20 /\ at(q) >= 9
      BY NowType DEF IInv
    <3> QED BY <3>1
  <2>2. RankHolds(q) /\ StageIs(q)
    BY DEF DataInv, IInv
  <2>3. LabelsHold(q, glab_pc[q])'
    BY <2>1, <2>2 DEF RankHolds, LabelsHold, Unmoved
  <2>4. (at(q) > 7 /\ flat_replay => LabelsHold(q, gc_owned[q]))'
    BY <2>1, <2>2 DEF RankHolds, LabelsHold, Unmoved
  <2> QED BY <2>1, <2>2, <2>3, <2>4, RankStays DEF Unmoved
<1>4. WalkedHolds'
  <2>1. 0 \in Ranks
    BY BesideIs
  <2>2. at(0)' > 9
    BY <2>1 DEF AllMet
  <2> QED BY <2>2 DEF WalkedHolds
<1> QED BY <1>1, <1>2, <1>3, <1>4 DEF DataInv

\* A step of a rank past the barrier.
LEMMA PastData ==
  ASSUME IInv, IInv', DataInv, NEW r \in Ranks, NEW x, pc' = [pc EXCEPT ![r] = x], at(r) > 9, Turn(x) > 9, Unmoved
  PROVE  DataInv' /\ (\A q \in Ranks : at(q) > 9) /\ AllMet'
<1>1. pc'[r] = x /\ at(r)' = Turn(x) /\ \A q \in Ranks \ {r} : pc'[q] = pc[q] /\ at(q)' = at(q)
  BY StepsTo
<1>2. \A q \in Ranks : at(q) > 9
  BY DEF IInv, BarriersHold
<1>3. AllMet'
  BY <1>1, <1>2 DEF AllMet
<1>4. ASSUME NEW q \in Ranks PROVE at(q) >= 9
  <2>1. at(q) \in 0 .. 20 /\ at(q) > 9
    BY <1>2, NowType DEF IInv
  <2> QED BY <2>1
<1> QED BY <1>2, <1>3, <1>4, LateData

\* The steps there.
LateStep ==
  \/ FindOutlets \/ BuildTree \/ PointAcross \/ Verify
LateMove(r, x) == pc' = [pc EXCEPT ![r] = x] /\ at(r) > 9 /\ Turn(x) > 9 /\ Unmoved

\* Each of them is such a step of one rank.
LEMMA LateSteps ==
  ASSUME IInv, LateStep
  PROVE  \E r \in Ranks : \E x : LateMove(r, x)
<1>0. 0 \in Ranks
  BY BesideIs
<1>1. ASSUME FindOutlets PROVE \E r \in Ranks : \E x : LateMove(r, x)
  <2>1. OutletStep /\ glab' = glab /\ walked' = walked /\ gc_owned' = gc_owned
    BY <1>1 DEF FindOutlets, conduitVars, haloVars
  <2>2. CASE Merge
    <3>1. pc[0] = "merge" /\ pc' = [pc EXCEPT ![0] = "records"] /\ Unmoved
      BY <2>1, <2>2 DEF Merge, At, Unmoved, floodVars, startVars
    <3>2. LateMove(0, "records")
      BY <3>1, TurnIs DEF LateMove, at
    <3> QED BY <1>0, <3>2
  <2>3. ASSUME NEW r \in Ranks, ScanTile(r) PROVE \E q \in Ranks : \E x : LateMove(q, x)
    <3>1. pc[r] = "scan" /\ pc' = [pc EXCEPT ![r] = "seam"] /\ Unmoved
      BY <2>1, <2>3 DEF ScanTile, At, Unmoved, floodVars, startVars
    <3>2. LateMove(r, "seam")
      BY <3>1, TurnIs DEF LateMove, at
    <3> QED BY <3>2
  <2>4. ASSUME NEW r \in Ranks, ScanSeam(r) PROVE \E q \in Ranks : \E x : LateMove(q, x)
    <3>1. PICK x : x = IF r = 0 THEN "merge" ELSE "ship"
      OBVIOUS
    <3>2. pc[r] = "seam" /\ pc' = [pc EXCEPT ![r] = x] /\ Unmoved
      BY <2>1, <2>4, <3>1 DEF ScanSeam, At, Unmoved, floodVars, startVars
    <3>3. LateMove(r, x)
      BY <3>1, <3>2, TurnIs DEF LateMove, at
    <3> QED BY <3>3
  <2> QED BY <2>1, <2>2, <2>3, <2>4 DEF OutletStep
<1>2. ASSUME BuildTree PROVE \E r \in Ranks : \E x : LateMove(r, x)
  <2>1. TreeStep /\ glab' = glab /\ walked' = walked /\ gc_owned' = gc_owned
    BY <1>2 DEF BuildTree, conduitVars, haloVars
  <2>2. CASE Place(fl_relabel, surv)
    <3>1. pc[0] = "records" /\ pc' = [pc EXCEPT ![0] = "placed"] /\ Unmoved
      BY <2>1, <2>2 DEF Place, At, Unmoved, floodVars, startVars
    <3>2. LateMove(0, "placed")
      BY <3>1, TurnIs DEF LateMove, at
    <3> QED BY <1>0, <3>2
  <2>3. CASE Assemble(outlet_db_dist)
    <3>1. pc[0] = "sweep" /\ pc' = [pc EXCEPT ![0] = "totals"] /\ Unmoved
      BY <2>1, <2>3 DEF Assemble, At, Unmoved, floodVars, startVars
    <3>2. LateMove(0, "totals")
      BY <3>1, TurnIs DEF LateMove, at
    <3> QED BY <1>0, <3>2
  <2>4. CASE Total
    <3>1. pc[0] = "totals" /\ pc' = [pc EXCEPT ![0] = "flows"] /\ Unmoved
      BY <2>1, <2>4 DEF Total, At, Unmoved, floodVars, startVars
    <3>2. LateMove(0, "flows")
      BY <3>1, TurnIs DEF LateMove, at
    <3> QED BY <1>0, <3>2
  <2>5. ASSUME NEW r \in Ranks, ShipRecords(r) PROVE \E q \in Ranks : \E x : LateMove(q, x)
    <3>1. pc[r] = "ship" /\ pc' = [pc EXCEPT ![r] = "placed"] /\ Unmoved
      BY <2>1, <2>5 DEF ShipRecords, At, Unmoved, floodVars, startVars
    <3>2. LateMove(r, "placed")
      BY <3>1, TurnIs DEF LateMove, at
    <3> QED BY <3>2
  <2>6. ASSUME NEW r \in Ranks, Tally(r) PROVE \E q \in Ranks : \E x : LateMove(q, x)
    <3>1. pc[r] = "tree" /\ pc' = [pc EXCEPT ![r] = "flows"] /\ Unmoved
      BY <2>1, <2>6 DEF Tally, At, Unmoved, floodVars, startVars
    <3>2. LateMove(r, "flows")
      BY <3>1, TurnIs DEF LateMove, at
    <3> QED BY <3>2
  <2> QED BY <2>1, <2>2, <2>3, <2>4, <2>5, <2>6 DEF TreeStep
<1>3. ASSUME PointAcross PROVE \E r \in Ranks : \E x : LateMove(r, x)
  <2>1. PICK r \in Ranks : FixFlows(r)
    BY <1>3 DEF PointAcross
  <2>2. glab' = glab /\ walked' = walked /\ gc_owned' = gc_owned
    BY <1>3 DEF PointAcross, conduitVars, haloVars
  <2>3. pc[r] = "flows" /\ pc' = [pc EXCEPT ![r] = "shipped"] /\ Unmoved
    BY <2>1, <2>2 DEF FixFlows, At, Unmoved, floodVars, startVars
  <2>4. LateMove(r, "shipped")
    BY <2>3, TurnIs DEF LateMove, at
  <2> QED BY <2>4
<1>4. ASSUME Verify PROVE \E r \in Ranks : \E x : LateMove(r, x)
  <2>1. pc[0] = "verify" /\ pc' = [pc EXCEPT ![0] = "done"] /\ Unmoved
    BY <1>4 DEF Verify, Unmoved, floodVars, startVars, conduitVars, haloVars
  <2>2. LateMove(0, "done")
    BY <2>1, TurnIs DEF LateMove, at
  <2> QED BY <1>0, <2>2
<1> QED BY <1>1, <1>2, <1>3, <1>4 DEF LateStep

\* The ranks leaving a barrier leave the data alone.
LEMMA LeaveBarrierData ==
  ASSUME IInv, IInv', DataInv, LeaveBarrier
  PROVE  DataInv' /\ Unmoved /\ AllMet' /\ (\A q \in Ranks : at(q) \in {9, 14, 18} /\ at(q)' \in {10, 15, 19, 20} /\ (at(q)' = 10 <=> at(q) = 9))
<1>1. PICK b \in Barriers : Meet(b)
  BY DEF LeaveBarrier
<1>2. PICK p, n, m : /\ p = Turn(b.at) /\ n = Turn(b.zero) /\ m = Turn(b.others)
                     /\ p \in {9, 14, 18} /\ n = p + 1 /\ m = IF p = 18 THEN 20 ELSE p + 1
  BY TurnIs DEF Barriers
<1>3. \A q \in Ranks : at(q) = p /\ at(q)' = (IF q = 0 THEN n ELSE m)
  BY <1>1, <1>2 DEF Meet, at
<1>4. \A q \in Ranks : at(q) \in {9, 14, 18} /\ at(q)' \in {10, 15, 19, 20} /\ (at(q)' = 10 <=> at(q) = 9)
  BY <1>2, <1>3
<1>5. AllMet' /\ \A q \in Ranks : at(q) >= 9
  BY <1>4 DEF AllMet
<1>6. Unmoved
  BY DEF LeaveBarrier, Unmoved, floodVars, startVars, conduitVars, haloVars
<1> QED BY <1>4, <1>5, <1>6, LateData

\* Nor does a step of no rank.
LEMMA StutterData ==
  ASSUME IInv, IInv', DataInv, UNCHANGED vars
  PROVE  DataInv'
<1>1. Unmoved /\ pc' = pc /\ mail' = mail
  BY DEF vars, rankVars, conduitVars, haloVars, Unmoved
<1>2. Frozen /\ \A q \in Ranks : SameRank(q)
  BY <1>1 DEF Frozen, SameRank, Unmoved
<1>3. \A q \in Ranks : RankHolds(q)'
  BY <1>1, <1>2, SameRankHolds DEF DataInv, Unmoved
<1>4. TerrainHolds' /\ PerRank'
  BY <1>1 DEF DataInv, TerrainHolds, PerRank, Unmoved
<1>5. WalkedHolds'
  BY <1>1, <1>2, WalkedStays, BesideIs DEF Unmoved
<1>6. MailSays'
  <2>1. ASSUME NEW key \in Keys, NEW v, Waiting(mail, key)' # <<>>, v = Waiting(mail, key)'[1] PROVE Told(key, v)'
    <3>1. Waiting(mail, key)' = Waiting(mail, key)
      BY <1>1 DEF Waiting
    <3>2. Waiting(mail, key) # <<>> /\ v = Waiting(mail, key)[1]
      BY <2>1, <3>1
    <3>3. Told(key, v)
      BY <3>2 DEF DataInv, MailSays
    <3> QED BY <1>2, <3>2, <3>3, StaysTold
  <2> QED BY <2>1 DEF MailSays
<1> QED BY <1>3, <1>4, <1>5, <1>6 DEF DataInv

\* At the start there is the raster only.
LEMMA InitData ==
  ASSUME Init
  PROVE  DataInv
<1>1. /\ pc = [r \in Ranks |-> "start"] /\ mail = NoMail /\ tile = [r \in Ranks |-> [label |-> <<>>, flow |-> <<>>, pits |-> <<>>]]
      /\ myoffset = [r \in Ranks |-> 1] /\ glab_pc = [r \in Ranks |-> <<>>] /\ glab = [r \in Ranks |-> <<>>]
      /\ gc_owned = [r \in Ranks |-> <<>>]
  BY DEF Init, InitRanks, InitHalo, InitConduits
<1>2. \A r \in Ranks : pc[r] = "start" /\ at(r) = 0 /\ myoffset[r] = 1
  BY <1>1, TurnIs DEF at
<1>3. \A r \in Ranks : RankHolds(r)
  BY <1>2 DEF RankHolds
<1>4. PerRank
  BY <1>1 DEF PerRank
<1>5. TerrainHolds
  <2>1. PICK call \in Inputs : terrain = call.terrain
    BY DEF Init, InitRanks
  <2> QED BY <2>1, InputsAssumption DEF TerrainHolds
<1>6. WalkedHolds
  BY <1>2, BesideIs DEF WalkedHolds
<1>7. MailSays
  <2>1. \A key : Waiting(mail, key) = <<>>
    BY <1>1 DEF Waiting, NoMail
  <2> QED BY <2>1 DEF MailSays
<1> QED BY <1>3, <1>4, <1>5, <1>6, <1>7 DEF DataInv

\* Every step keeps the data as they should be.
LEMMA NextData ==
  ASSUME IInv, IInv', DataInv, [Next]_vars
  PROVE  DataInv'
<1>1. CASE Conduits
  <2>1. ConduitStep /\ gc_owned' = gc_owned
    BY <1>1 DEF Conduits, haloVars
  <2> QED BY <2>1, SendStripsData, FloodTileData, TakeOffsetData, WalkData, OverlayData, NumberTilesData, ResolveData DEF ConduitStep
<1>2. CASE FlatLabels
  <2>1. HaloStep /\ glab' = glab /\ walked' = walked
    BY <1>2 DEF FlatLabels, conduitVars
  <2> QED BY <2>1, DecideData, PickSurvivorsData, DensifyData, RoundData, HeedData, MapCellsData, TakeDenseData DEF HaloStep
<1>3. CASE LateStep
  <2>1. PICK r \in Ranks : \E x : LateMove(r, x)
    BY <1>3, LateSteps
  <2>2. PICK x : LateMove(r, x)
    BY <2>1
  <2> QED BY <2>2, PastData DEF LateMove
<1>4. CASE LeaveBarrier
  BY <1>4, LeaveBarrierData
<1>5. CASE UNCHANGED vars
  BY <1>5, StutterData
<1> QED BY <1>1, <1>2, <1>3, <1>4, <1>5 DEF Next, LateStep

\* Every behaviour has the stages and the data as they should be.
LEMMA DataAlways == Spec => [](IInv /\ DataInv)
<1>1. Init => IInv /\ DataInv
  BY InitHolds, InitData
<1>2. (IInv /\ DataInv) /\ [Next]_vars => (IInv /\ DataInv)'
  BY NextKeeps, NextData
<1> QED BY <1>1, <1>2, PTL DEF Spec

-----------------------------------------------------------------------------
\* The passes: a database has the lowest of the entries for each pair of labels.
Lows(db, entries) ==
  /\ DOMAIN db = {e.key : e \in entries}
  /\ \A key \in DOMAIN db :
       \E e \in entries : /\ e.key = key /\ db[key] = [oelev |-> e.oelev, ocell |-> e.ocell]
                          /\ \A f \in entries : f.key = key => e.oelev <= f.oelev
AreEntries(entries) ==
  \A e \in entries : e = [key |-> e.key, oelev |-> e.oelev, ocell |-> e.ocell] /\ e.oelev \in Nat /\ e.ocell \in Nat

\* Of some entries one is below all others.
LEMMA LowestEntry ==
  ASSUME NEW here, AreEntries(here), here # {}, \A e, f \in here : e.key = f.key
  PROVE  \E e \in here : \A f \in here \ {e} : Below(e, f)
<1> DEFINE T == {e.oelev : e \in here}
<1>1. T \subseteq Nat /\ T # {}
  BY DEF AreEntries
<1>2. PICK n \in T : \A m \in T : n <= m
  <2> HIDE DEF T
  <2> QED BY <1>1, Least
<1> DEFINE U == {e.ocell : e \in {f \in here : f.oelev = n}}
<1>3. U \subseteq Nat /\ U # {}
  BY DEF AreEntries
<1>4. PICK k \in U : \A m \in U : k <= m
  <2> HIDE DEF U
  <2> QED BY <1>3, Least
<1>5. PICK e \in here : e.oelev = n /\ e.ocell = k
  BY <1>4
<1>6. ASSUME NEW f \in here, f # e PROVE Below(e, f)
  <2>1. n <= f.oelev /\ n \in Nat /\ k \in Nat /\ f.oelev \in Nat /\ f.ocell \in Nat
    BY <1>1, <1>2, <1>3, <1>4 DEF AreEntries
  <2>2. CASE f.oelev = n
    <3>1. k <= f.ocell
      BY <1>4, <2>2
    <3>2. f.ocell # k
      <4>1. e = [key |-> e.key, oelev |-> e.oelev, ocell |-> e.ocell] /\ f = [key |-> f.key, oelev |-> f.oelev, ocell |-> f.ocell]
        BY DEF AreEntries
      <4>2. e.key = f.key
        OBVIOUS
      <4> QED BY <1>5, <1>6, <2>2, <4>1, <4>2
    <3> QED BY <1>5, <2>1, <2>2, <3>1, <3>2 DEF Below
  <2>3. CASE f.oelev # n
    BY <1>5, <2>1, <2>3 DEF Below
  <2> QED BY <2>2, <2>3
<1> QED BY <1>6

\* What a reduction of entries comes to.
LEMMA ReducedLows ==
  ASSUME NEW entries, AreEntries(entries)
  PROVE  Lows(Reduced(entries), entries)
<1> DEFINE Here(key) == {e \in entries : e.key = key}
           Best(key) == CHOOSE e \in Here(key) : \A f \in Here(key) \ {e} : Below(e, f)
<1>1. Reduced(entries) = [key \in {e.key : e \in entries} |-> [oelev |-> Best(key).oelev, ocell |-> Best(key).ocell]]
  BY DEF Reduced
<1>2. ASSUME NEW key \in {e.key : e \in entries}
      PROVE  /\ Best(key) \in entries /\ Best(key).key = key
             /\ \A f \in entries : f.key = key => Best(key).oelev <= f.oelev
  <2>1. Here(key) # {} /\ AreEntries(Here(key)) /\ \A e, f \in Here(key) : e.key = f.key
    BY DEF AreEntries
  <2>2. \E e \in Here(key) : \A f \in Here(key) \ {e} : Below(e, f)
    <3> HIDE DEF Here
    <3> QED BY <2>1, LowestEntry
  <2>3. Best(key) \in Here(key) /\ \A f \in Here(key) \ {Best(key)} : Below(Best(key), f)
    BY <2>2
  <2>4. ASSUME NEW f \in Here(key) PROVE Best(key).oelev <= f.oelev
    <3> HIDE DEF Best
    <3>1. Best(key).oelev \in Nat /\ f.oelev \in Nat
      BY <2>1, <2>3 DEF AreEntries
    <3> QED BY <2>3, <3>1 DEF Below
  <2> QED BY <2>3, <2>4
<1> HIDE DEF Best, Here
<1>3. DOMAIN Reduced(entries) = {e.key : e \in entries}
  BY <1>1
<1>4. ASSUME NEW key \in DOMAIN Reduced(entries)
      PROVE  \E e \in entries : /\ e.key = key /\ Reduced(entries)[key] = [oelev |-> e.oelev, ocell |-> e.ocell]
                                /\ \A f \in entries : f.key = key => e.oelev <= f.oelev
  BY <1>1, <1>2, <1>3, <1>4
<1> QED BY <1>3, <1>4 DEF Lows

\* The entries of a database.
LEMMA EntriesLow ==
  ASSUME NEW db, NEW entries, AreEntries(entries), Lows(db, entries)
  PROVE  /\ AreEntries(AsEntries(db)) /\ AsEntries(db) \subseteq entries
         /\ \A f \in entries : \E e \in AsEntries(db) : e.key = f.key /\ e.oelev <= f.oelev
<1>1. ASSUME NEW k \in DOMAIN db
      PROVE  \E e \in entries : /\ e = [key |-> k, oelev |-> db[k].oelev, ocell |-> db[k].ocell]
                                /\ \A f \in entries : f.key = k => e.oelev <= f.oelev
  <2>1. PICK e \in entries : /\ e.key = k /\ db[k] = [oelev |-> e.oelev, ocell |-> e.ocell]
                             /\ \A f \in entries : f.key = k => e.oelev <= f.oelev
    BY DEF Lows
  <2>2. db[k].oelev = e.oelev /\ db[k].ocell = e.ocell
    BY <2>1
  <2>3. e = [key |-> e.key, oelev |-> e.oelev, ocell |-> e.ocell]
    BY DEF AreEntries
  <2>4. e = [key |-> k, oelev |-> db[k].oelev, ocell |-> db[k].ocell]
    BY <2>1, <2>2, <2>3
  <2> QED BY <2>1, <2>4
<1>2. AsEntries(db) \subseteq entries
  BY <1>1 DEF AsEntries
<1>3. ASSUME NEW f \in entries PROVE \E e \in AsEntries(db) : e.key = f.key /\ e.oelev <= f.oelev
  <2>1. f.key \in DOMAIN db
    BY DEF Lows
  <2>2. PICK e \in entries : /\ e = [key |-> f.key, oelev |-> db[f.key].oelev, ocell |-> db[f.key].ocell]
                             /\ e.oelev <= f.oelev
    BY <1>1, <2>1
  <2>3. e \in AsEntries(db) /\ e.key = f.key
    BY <2>1, <2>2 DEF AsEntries
  <2> QED BY <2>2, <2>3
<1>4. AreEntries(AsEntries(db))
  BY <1>2 DEF AreEntries
<1> QED BY <1>2, <1>3, <1>4

\* Merging databases.
LEMMA MergedLows ==
  ASSUME NEW entries, AreEntries(entries), NEW merged, merged \subseteq entries,
         \A f \in entries : \E e \in merged : e.key = f.key /\ e.oelev <= f.oelev
  PROVE  Lows(Reduced(merged), entries)
<1>1. AreEntries(merged)
  BY DEF AreEntries
<1>2. Lows(Reduced(merged), merged)
  BY <1>1, ReducedLows
<1>3. PICK db : db = Reduced(merged)
  OBVIOUS
<1>4. DOMAIN db = {e.key : e \in entries}
  <2>1. DOMAIN db = {e.key : e \in merged}
    BY <1>2, <1>3 DEF Lows
  <2>2. \A f \in entries : \E e \in merged : e.key = f.key
    OBVIOUS
  <2>3. \A e \in merged : e \in entries
    OBVIOUS
  <2> QED BY <2>1, <2>2, <2>3
<1>5. ASSUME NEW key \in DOMAIN db
      PROVE  \E e \in entries : /\ e.key = key /\ db[key] = [oelev |-> e.oelev, ocell |-> e.ocell]
                                /\ \A f \in entries : f.key = key => e.oelev <= f.oelev
  <2>1. PICK e \in merged : /\ e.key = key /\ db[key] = [oelev |-> e.oelev, ocell |-> e.ocell]
                            /\ \A f \in merged : f.key = key => e.oelev <= f.oelev
    BY <1>2, <1>3, <1>5 DEF Lows
  <2>2. ASSUME NEW f \in entries, f.key = key PROVE e.oelev <= f.oelev
    <3>1. PICK g \in merged : g.key = f.key /\ g.oelev <= f.oelev
      OBVIOUS
    <3>2. e.oelev <= g.oelev
      BY <2>1, <2>2, <3>1
    <3>3. e.oelev \in Nat /\ g.oelev \in Nat /\ f.oelev \in Nat
      BY DEF AreEntries
    <3> QED BY <3>1, <3>2, <3>3
  <2> QED BY <2>1, <2>2
<1> QED BY <1>3, <1>4, <1>5 DEF Lows

-----------------------------------------------------------------------------
(***************************************************************************)
(* The outlets the ranks find, as scans of the finished labels.            *)
(***************************************************************************)
Scan(P) == EntriesOf(Known(Cells), P)
InTile(r) == Touching(Owned(r))
AtSeam(r) == Straddling(RightEdge(r), UNION {LeftEdge(s) : s \in {r + 1} \cap Ranks})
AllPairs == UNION {InTile(r) \cup AtSeam(r) : r \in Ranks}

\* A rank has the passes of its tile and of the seam on its right, rank 0 then
\* those of the raster, and so have the messages.
FoundHolds(r) ==
  /\ at(r) > 10 => Lows(found[r].intra, Scan(InTile(r)))
  /\ at(r) > 11 => Lows(found[r].edge, Scan(AtSeam(r)))
MergedHolds == at(0) > 12 => Lows(outlet_db_dist, Scan(AllPairs))
FoundShape == found = [r \in Ranks |-> [intra |-> found[r].intra, edge |-> found[r].edge]]

OutletSays(s, tag, v) ==
  /\ tag = "left" => v = Known(LeftEdge(s))
  /\ tag = "intra" => Lows(v, Scan(InTile(s)))
  /\ tag = "odbedge" => Lows(v, Scan(AtSeam(s)))
OutletTold(key, v) == OutletSays(key[1], key[3], v)
OutletMail == \A key \in Keys : \A v : Waiting(mail, key) # <<>> /\ v = Waiting(mail, key)[1] => OutletTold(key, v)

OutletInv == FoundShape /\ (\A r \in Ranks : FoundHolds(r)) /\ MergedHolds /\ OutletMail

\* Pairs of cells of the raster.
LEMMA PairsAre ==
  /\ \A r \in Ranks : InTile(r) \subseteq Cells \X Cells /\ AtSeam(r) \subseteq Cells \X Cells
  /\ AllPairs \subseteq Cells \X Cells
<1>1. ASSUME NEW r \in Ranks PROVE InTile(r) \subseteq Cells \X Cells /\ AtSeam(r) \subseteq Cells \X Cells
  <2>1. Owned(r) \subseteq Cells /\ RightEdge(r) \subseteq Cells /\ \A s : LeftEdge(s) \subseteq Cells
    BY DEF Owned, Between, RightEdge, LeftEdge, Column
  <2>2. InTile(r) \subseteq Cells \X Cells
    BY <2>1 DEF InTile, Touching
  <2>3. UNION {LeftEdge(s) : s \in {r + 1} \cap Ranks} \subseteq Cells
    BY <2>1
  <2>4. AtSeam(r) \subseteq Cells \X Cells
    BY <2>1, <2>3 DEF AtSeam, Straddling
  <2> QED BY <2>2, <2>4
<1>2. AllPairs \subseteq Cells \X Cells
  BY <1>1 DEF AllPairs
<1> QED BY <1>1, <1>2

\* What is known of a cell once the ranks have met.
LEMMA CellsKnown ==
  ASSUME IInv, DataInv, AllMet, NEW c \in Cells
  PROVE  /\ CellOf(c).label \in Nat /\ CellOf(c).elev \in Nat /\ CellOf(c).nodata \in BOOLEAN
         /\ CellOf(c).nodata => CellOf(c).label = OCEAN
         /\ CellOf(c).elev = elev[c] /\ CellOf(c).label = FinalLabel[c]
<1>1. PICK t \in Ranks : t = TileOf(c) /\ c \in Owned(t)
  BY TileIs
<1>2. at(t) > 4
  <2>1. at(t) \in 0 .. 20 /\ at(t) > 9
    BY <1>1, NowType DEF IInv, AllMet
  <2> QED BY <2>1
<1>3. LabelsHold(t, glab_pc[t])
  BY <1>1, <1>2 DEF DataInv, RankHolds
<1>4. /\ terrain[c].elev \in Nat /\ terrain[c].nodata \in BOOLEAN
      /\ terrain[c].nodata => terrain[c].ocean
  BY DEF DataInv, TerrainHolds
<1>5. FinalLabel[c] = glab_pc[t][c] /\ elev[c] = terrain[c].elev
  BY <1>1 DEF FinalLabel, elev, ElevOf
<1> QED BY <1>1, <1>3, <1>4, <1>5 DEF CellOf, LabelsHold

\* An entry of a pair, and the pairs that have one.
EntryOf(known, p) ==
  [key |-> KeyOf(known[p[1]].label, known[p[2]].label), oelev |-> known[OutletCell(known, p[1], p[2])].elev,
   ocell |-> OutletCell(known, p[1], p[2])]
Parts(known, p) ==
  known[p[1]].label # known[p[2]].label /\ ~ OutletSkip(known[p[1]]) /\ ~ OutletSkip(known[p[2]])

\* The entries of some pairs are those of the pairs whose sides differ and count.
LEMMA EntriesAre ==
  ASSUME NEW known, NEW P
  PROVE  EntriesOf(known, P) = {EntryOf(known, p) : p \in {q \in P : Parts(known, q)}}
BY DEF EntriesOf, EntryOf, Parts

\* Who knows the cells of some pairs finds their entries.
LEMMA SeenEntries ==
  ASSUME NEW known, NEW P, P \subseteq Cells \X Cells,
         \A p \in P : known[p[1]] = CellOf(p[1]) /\ known[p[2]] = CellOf(p[2])
  PROVE  EntriesOf(known, P) = Scan(P)
<1>1. PICK whole : whole = Known(Cells)
  OBVIOUS
<1>2. \A c \in Cells : whole[c] = CellOf(c)
  BY <1>1 DEF Known
<1>3. ASSUME NEW p \in P
      PROVE  EntryOf(known, p) = EntryOf(whole, p) /\ (Parts(known, p) <=> Parts(whole, p))
  <2>1. known[p[1]] = whole[p[1]] /\ known[p[2]] = whole[p[2]]
    BY <1>2
  <2>2. OutletCell(known, p[1], p[2]) = OutletCell(whole, p[1], p[2]) /\ OutletCell(whole, p[1], p[2]) \in {p[1], p[2]}
    BY <2>1 DEF OutletCell
  <2> QED BY <2>1, <2>2 DEF EntryOf, Parts
<1>4. {EntryOf(known, p) : p \in {q \in P : Parts(known, q)}} = {EntryOf(whole, p) : p \in {q \in P : Parts(whole, q)}}
  BY <1>3
<1> QED BY <1>1, <1>4, EntriesAre DEF Scan

\* The entries have cells and elevations.
LEMMA ScanEntries ==
  ASSUME IInv, DataInv, AllMet, NEW P, P \subseteq Cells \X Cells
  PROVE  AreEntries(Scan(P))
<1>1. PICK known : known = Known(Cells)
  OBVIOUS
<1>2. \A c \in Cells : known[c] = CellOf(c)
  BY <1>1 DEF Known
<1>3. ASSUME NEW p \in P
      PROVE  LET e == EntryOf(known, p)
             IN  e = [key |-> e.key, oelev |-> e.oelev, ocell |-> e.ocell] /\ e.oelev \in Nat /\ e.ocell \in Nat
  <2>1. PICK c \in Cells : c = OutletCell(known, p[1], p[2])
    BY DEF OutletCell
  <2>2. known[c].elev \in Nat /\ c \in Nat
    BY <1>2, CellsKnown, CellCount
  <2> QED BY <2>1, <2>2 DEF EntryOf
<1>4. Scan(P) = {EntryOf(known, p) : p \in {q \in P : Parts(known, q)}}
  BY <1>1, EntriesAre DEF Scan
<1> QED BY <1>3, <1>4 DEF AreEntries

\* A scan stays what it is as long as the data do.
LEMMA ScanStays ==
  ASSUME Unmoved
  PROVE  /\ Known(Cells)' = Known(Cells)
         /\ \A r \in Ranks : Scan(InTile(r))' = Scan(InTile(r)) /\ Scan(AtSeam(r))' = Scan(AtSeam(r))
                             /\ Known(LeftEdge(r))' = Known(LeftEdge(r))
         /\ Scan(AllPairs)' = Scan(AllPairs)
<1>1. Known(Cells)' = Known(Cells)
  BY DEF Known, CellOf, Unmoved
<1>2. \A r \in Ranks : Known(LeftEdge(r))' = Known(LeftEdge(r))
  BY DEF Known, CellOf, Unmoved
<1>3. PICK known : known = Known(Cells) /\ known = Known(Cells)'
  BY <1>1
<1>4. \A r \in Ranks : Scan(InTile(r))' = Scan(InTile(r)) /\ Scan(AtSeam(r))' = Scan(AtSeam(r))
  BY <1>3 DEF Scan
<1>5. Scan(AllPairs)' = Scan(AllPairs)
  BY <1>3 DEF Scan
<1> QED BY <1>1, <1>2, <1>4, <1>5

\* What a message says of the outlets does not change while it is under way.
LEMMA OutletStaysTold ==
  ASSUME Unmoved, NEW key \in Keys, NEW v, OutletTold(key, v)
  PROVE  OutletTold(key, v)'
<1>1. key[1] \in Ranks
  BY KeyIs
<1>2. PICK s \in Ranks : s = key[1]
  BY <1>1
<1>3. PICK tag : tag = key[3]
  OBVIOUS
<1>4. OutletSays(s, tag, v)
  BY <1>2, <1>3 DEF OutletTold
<1>5. OutletSays(s, tag, v)'
  BY <1>4, ScanStays DEF OutletSays
<1> QED BY <1>2, <1>3, <1>5 DEF OutletTold

\* No rank has scanned yet.
AllBefore == \A q \in Ranks : at(q) <= 10

\* Until the ranks have met there is nothing to say of the outlets.
LEMMA BeforeInv == IInv /\ AllBefore /\ FoundShape => OutletInv
<1> SUFFICES ASSUME IInv, AllBefore, FoundShape PROVE OutletInv
  OBVIOUS
<1>1. \A q \in Ranks : ~ (at(q) > 10) /\ ~ (at(q) > 11) /\ ~ (at(q) > 12)
  <2>1. \A q \in Ranks : at(q) \in 0 .. 20 /\ at(q) <= 10
    BY NowType DEF IInv, AllBefore
  <2> QED BY <2>1
<1>2. \A r \in Ranks : FoundHolds(r)
  BY <1>1 DEF FoundHolds
<1>3. MergedHolds
  BY <1>1, BesideIs DEF MergedHolds
<1>4. ASSUME NEW key \in Keys, NEW v, Waiting(mail, key) # <<>>, v = Waiting(mail, key)[1] PROVE OutletTold(key, v)
  <2>1. CASE key[3] \in {"left", "intra", "odbedge"}
    <3>1. key[3] \notin Rounds /\ key[1] \in Ranks
      BY <2>1, KeyIs DEF Rounds
    <3>2. at(key[1]) > SendTurn(key)
      BY <1>4, <3>1, ChannelOnce
    <3>3. SendTurn(key) \in {10, 11}
      BY <2>1 DEF SendTurn
    <3>4. at(key[1]) \in 0 .. 20 /\ at(key[1]) <= 10
      BY <3>1, NowType DEF IInv, AllBefore
    <3> QED BY <3>2, <3>3, <3>4
  <2>2. CASE key[3] \notin {"left", "intra", "odbedge"}
    BY <2>2 DEF OutletTold, OutletSays
  <2> QED BY <2>1, <2>2
<1> QED BY <1>2, <1>3, <1>4 DEF OutletInv, OutletMail

\* And so it is after a step.
LEMMA BeforeInvThen == IInv' /\ AllBefore' /\ FoundShape' => OutletInv'
BY BeforeInv, PTL

\* A step of a rank on the near side of the barrier.
LEMMA EarlyOutlets ==
  ASSUME IInv, IInv', OutletInv, found' = found, NEW r \in Ranks, NEW x, pc' = [pc EXCEPT ![r] = x], Turn(x) <= 9
  PROVE  OutletInv'
<1>1. at(r)' = Turn(x)
  BY StepsTo
<1>2. \A q \in Ranks : at(q)' \in 0 .. 20
  <2>1. \A q \in Ranks : at(q) \in 0 .. 20
    BY NowType DEF IInv
  <2>2. \A q \in Ranks \ {r} : at(q)' = at(q)
    BY StepsTo
  <2> QED BY <1>1, <2>1, <2>2, TurnType
<1>3. (\A q, s \in Ranks : at(q) > 9 => at(s) > 9)'
  BY DEF IInv, BarriersHold
<1>4. AllBefore'
  <2>1. ASSUME NEW q \in Ranks PROVE at(q)' <= 10
    <3>1. ~ (at(r)' > 9)
      BY <1>1, TurnType
    <3>2. ~ (at(q)' > 9) /\ at(q)' \in 0 .. 20
      BY <1>2, <1>3, <3>1
    <3> QED BY <3>2
  <2> QED BY <2>1 DEF AllBefore
<1>5. FoundShape'
  BY DEF OutletInv, FoundShape
<1> QED BY <1>4, <1>5, BeforeInvThen

\* The steps up to the barrier.
EarlyMove(r, x) == pc' = [pc EXCEPT ![r] = x] /\ Turn(x) <= 9

\* Each of them is such a step of one rank.
LEMMA EarlyMoves ==
  ASSUME ConduitStep \/ HaloStep
  PROVE  \E r \in Ranks : \E x : EarlyMove(r, x)
<1>0. 0 \in Ranks
  BY BesideIs
<1>1. \A x \in {"halo", "counts", "offset", "walk", "gather", "resolved", AfterConduits, "votes", "answer", "bands",
                "leaves", "surv", "used", "dense", "settled"} : Turn(x) <= 9
  BY TurnIs, AfterIs
<1>2. ASSUME NEW r \in Ranks,
             NEW x \in {"halo", "counts", "offset", "walk", "gather", "resolved", AfterConduits, "votes", "answer", "bands",
                        "leaves", "surv", "used", "dense", "settled"},
             pc' = [pc EXCEPT ![r] = x]
      PROVE  \E q \in Ranks : \E y : EarlyMove(q, y)
  BY <1>1, <1>2 DEF EarlyMove
<1>3. ASSUME NEW r \in Ranks, SendStrips(r) PROVE pc' = [pc EXCEPT ![r] = "halo"]
  BY <1>3 DEF SendStrips
<1>4. ASSUME NEW r \in Ranks, FloodTile(r)
      PROVE  \E x \in {"counts", "offset"} : pc' = [pc EXCEPT ![r] = x]
  BY <1>4 DEF FloodTile
<1>5. ASSUME NEW r \in Ranks, TakeOffset(r) PROVE pc' = [pc EXCEPT ![r] = "walk"]
  BY <1>5 DEF TakeOffset
<1>6. ASSUME NEW r \in Ranks, Walk(r) PROVE \E x \in {"gather", "resolved"} : pc' = [pc EXCEPT ![r] = x]
  BY <1>6 DEF Walk
<1>7. ASSUME NEW r \in Ranks, Overlay(r) PROVE pc' = [pc EXCEPT ![r] = AfterConduits]
  BY <1>7 DEF Overlay
<1>8. ASSUME NumberTiles PROVE pc' = [pc EXCEPT ![0] = "walk"]
  BY <1>8 DEF NumberTiles
<1>9. ASSUME Resolve PROVE pc' = [pc EXCEPT ![0] = AfterConduits]
  BY <1>9 DEF Resolve
<1>10. ASSUME Decide PROVE \E x \in {"bands", "leaves"} : pc' = [pc EXCEPT ![0] = x]
  BY <1>10 DEF Decide
<1>11. ASSUME PickSurvivors PROVE pc' = [pc EXCEPT ![0] = "used"]
  BY <1>11 DEF PickSurvivors
<1>12. ASSUME Densify PROVE pc' = [pc EXCEPT ![0] = "settled"]
  BY <1>12 DEF Densify
<1>13. ASSUME NEW r \in Ranks, Round(r) PROVE \E x \in {"votes", "answer"} : pc' = [pc EXCEPT ![r] = x]
  BY <1>13 DEF Round
<1>14. ASSUME NEW r \in Ranks, Heed(r) PROVE \E x \in {"bands", "surv"} : pc' = [pc EXCEPT ![r] = x]
  BY <1>14 DEF Heed
<1>15. ASSUME NEW r \in Ranks, MapCells(r) PROVE pc' = [pc EXCEPT ![r] = "dense"]
  BY <1>15 DEF MapCells
<1>16. ASSUME NEW r \in Ranks, TakeDense(r) PROVE pc' = [pc EXCEPT ![r] = "settled"]
  BY <1>16 DEF TakeDense
<1>17. CASE ConduitStep
  <2>1. ASSUME NEW r \in Ranks, SendStrips(r) \/ FloodTile(r) \/ TakeOffset(r) \/ Walk(r) \/ Overlay(r)
        PROVE  \E q \in Ranks : \E y : EarlyMove(q, y)
    BY <1>2, <1>3, <1>4, <1>5, <1>6, <1>7, <2>1
  <2>2. ASSUME NumberTiles \/ Resolve PROVE \E q \in Ranks : \E y : EarlyMove(q, y)
    BY <1>0, <1>2, <1>8, <1>9, <2>2
  <2> QED BY <1>17, <2>1, <2>2 DEF ConduitStep
<1>18. CASE HaloStep
  <2>1. ASSUME NEW r \in Ranks, Round(r) \/ Heed(r) \/ MapCells(r) \/ TakeDense(r)
        PROVE  \E q \in Ranks : \E y : EarlyMove(q, y)
    BY <1>2, <1>13, <1>14, <1>15, <1>16, <2>1
  <2>2. ASSUME Decide \/ PickSurvivors \/ Densify PROVE \E q \in Ranks : \E y : EarlyMove(q, y)
    BY <1>0, <1>2, <1>10, <1>11, <1>12, <2>2
  <2> QED BY <1>18, <2>1, <2>2 DEF HaloStep
<1> QED BY <1>17, <1>18

\* A step of a rank past the barrier keeps the outlets if what it has, and what it
\* sends, is as it should be.
LEMMA OutletCarry ==
  ASSUME IInv, IInv', OutletInv, NEW r \in Ranks, NEW msgs, NEW x, Moved(r, msgs), LateMove(r, x), FoundShape',
         \A q \in Ranks \ {r} : found'[q] = found[q], FoundHolds(r)', MergedHolds',
         \A key \in DOMAIN msgs : OutletTold(key, msgs[key])'
  PROVE  OutletInv'
<1>1. Unmoved /\ \A q \in Ranks \ {r} : at(q)' = at(q)
  BY StepsTo DEF LateMove
<1>2. ASSUME NEW q \in Ranks PROVE FoundHolds(q)'
  <2>1. CASE q = r
    BY <2>1
  <2>2. CASE q # r
    <3>1. FoundHolds(q) /\ found'[q] = found[q] /\ at(q)' = at(q)
      BY <1>1, <2>2 DEF OutletInv
    <3>2. Scan(InTile(q))' = Scan(InTile(q)) /\ Scan(AtSeam(q))' = Scan(AtSeam(q))
      BY <1>1, ScanStays
    <3> QED BY <3>1, <3>2 DEF FoundHolds
  <2> QED BY <2>1, <2>2
<1>3. ASSUME NEW key \in Keys, NEW v, Waiting(mail, key)' # <<>>, v = Waiting(mail, key)'[1] PROVE OutletTold(key, v)'
  <2>1. CASE key[3] \in Rounds
    BY <2>1 DEF OutletTold, OutletSays, Rounds
  <2>2. CASE key[3] \notin Rounds
    <3>1. CASE key \in DOMAIN msgs /\ Waiting(mail, key)'[1] = msgs[key]
      <4>1. OutletTold(key, msgs[key])'
        BY <3>1
      <4>2. v = msgs[key]
        BY <1>3, <3>1
      <4> QED BY <4>1, <4>2
    <3>2. CASE Waiting(mail, key)' = Waiting(mail, key)
      <4>1. v = Waiting(mail, key)[1] /\ Waiting(mail, key) # <<>>
        BY <1>3, <3>2
      <4>2. OutletTold(key, v)
        BY <4>1 DEF OutletInv, OutletMail
      <4> QED BY <1>1, <4>2, OutletStaysTold
    <3> QED BY <1>3, <2>2, <3>1, <3>2, NewMail
  <2> QED BY <2>1, <2>2
<1>4. OutletMail'
  BY <1>3 DEF OutletMail
<1> QED BY <1>2, <1>4 DEF OutletInv

-----------------------------------------------------------------------------
\* A rank that knows the cells of its pairs reduces the scan of them.
LEMMA ReducedScan ==
  ASSUME IInv, DataInv, AllMet, NEW known, NEW P, P \subseteq Cells \X Cells,
         \A p \in P : known[p[1]] = CellOf(p[1]) /\ known[p[2]] = CellOf(p[2])
  PROVE  Lows(Reduced(EntriesOf(known, P)), Scan(P))
BY SeenEntries, ScanEntries, ReducedLows

\* The scan of the tile.
LEMMA ScanTileOutlets ==
  ASSUME IInv, IInv', DataInv, OutletInv, AllMet, NEW r \in Ranks, ScanTile(r), LateMove(r, "seam")
  PROVE  OutletInv'
<1>1. pc[r] = "scan" /\ at(r) = 10 /\ mail' = Sent(mail, LeftStrip(r)) /\ outlet_db_dist' = outlet_db_dist
  BY TurnIs DEF ScanTile, At, at
<1>2. PICK db : db = Reduced(EntriesOf(Known(Owned(r)), Touching(Owned(r))))
  OBVIOUS
<1>3. found' = [found EXCEPT ![r].intra = db]
  BY <1>2 DEF ScanTile
<1>4. Lows(db, Scan(InTile(r)))
  <2>1. PICK known : known = Known(Owned(r))
    OBVIOUS
  <2>2. InTile(r) \subseteq Cells \X Cells
    BY PairsAre
  <2>3. \A p \in InTile(r) : known[p[1]] = CellOf(p[1]) /\ known[p[2]] = CellOf(p[2])
    BY <2>1 DEF InTile, Touching, Known
  <2>4. Lows(Reduced(EntriesOf(known, InTile(r))), Scan(InTile(r)))
    BY <2>2, <2>3, ReducedScan
  <2> QED BY <1>2, <2>1, <2>4 DEF InTile
<1>5. PICK msgs : msgs = LeftStrip(r)
  OBVIOUS
<1>6. DOMAIN msgs = {<<r, s, "left">> : s \in {r - 1} \cap Ranks}
  BY <1>5 DEF LeftStrip
<1>7. DOMAIN msgs \subseteq Keys
  BY <1>6, LeftKeysAre
<1>8. Moved(r, msgs)
  BY <1>1, <1>5, <1>7, AwaitsNone, MailSent
<1>9. Unmoved /\ at(r)' = 11 /\ \A q \in Ranks \ {r} : at(q)' = at(q)
  <2>1. PICK x : x = "seam"
    OBVIOUS
  <2>2. Unmoved /\ pc' = [pc EXCEPT ![r] = x]
    BY <2>1 DEF LateMove
  <2>3. at(r)' = Turn(x) /\ \A q \in Ranks \ {r} : at(q)' = at(q)
    BY <2>2, StepsTo
  <2> QED BY <2>1, <2>2, <2>3, TurnIs
<1>10. ASSUME NEW key \in DOMAIN msgs PROVE OutletTold(key, msgs[key])'
  <2>1. msgs[key] = Known(LeftEdge(r)) /\ key[1] = r /\ key[3] = "left"
    BY <1>5, <1>6 DEF LeftStrip
  <2>2. Known(LeftEdge(r))' = Known(LeftEdge(r))
    BY <1>9, ScanStays
  <2>3. PICK v : v = msgs[key]
    OBVIOUS
  <2>4. v = Known(LeftEdge(r))'
    BY <2>1, <2>2, <2>3
  <2>5. OutletSays(r, "left", v)'
    BY <2>4 DEF OutletSays
  <2> QED BY <2>1, <2>3, <2>5 DEF OutletTold
<1>11. FoundShape' /\ found'[r].intra = db /\ \A q \in Ranks \ {r} : found'[q] = found[q]
  <2>1. found = [q \in Ranks |-> [intra |-> found[q].intra, edge |-> found[q].edge]]
    BY DEF OutletInv, FoundShape
  <2>2. found' = [q \in Ranks |-> IF q = r THEN [intra |-> db, edge |-> found[r].edge] ELSE found[q]]
    BY <1>3, <2>1
  <2> QED BY <2>1, <2>2 DEF FoundShape
<1>12. FoundHolds(r)'
  <2>1. Scan(InTile(r))' = Scan(InTile(r))
    BY <1>9, ScanStays
  <2> QED BY <1>4, <1>9, <1>11, <2>1 DEF FoundHolds
<1>13. MergedHolds'
  <2>1. Scan(AllPairs)' = Scan(AllPairs)
    BY <1>9, ScanStays
  <2>2. CASE r = 0
    BY <1>9, <2>2 DEF MergedHolds
  <2>3. CASE r # 0
    <3>1. at(0)' = at(0)
      BY <1>9, <2>3, BesideIs
    <3> QED BY <1>1, <2>1, <3>1 DEF OutletInv, MergedHolds
  <2> QED BY <2>2, <2>3
<1> QED BY <1>8, <1>10, <1>11, <1>12, <1>13, OutletCarry

\* The scan of the seam on the right.
LEMMA ScanSeamOutlets ==
  ASSUME IInv, IInv', DataInv, OutletInv, AllMet, NEW r \in Ranks, ScanSeam(r), NEW x, LateMove(r, x), Turn(x) = 12
  PROVE  OutletInv'
<1>1. pc[r] = "seam" /\ at(r) = 11 /\ Has(mail, Awaited(r)) /\ outlet_db_dist' = outlet_db_dist
  BY TurnIs DEF ScanSeam, At, at
<1>2. PICK right : right = UNION {DOMAIN First(mail, k) : k \in Awaited(r)}
  OBVIOUS
<1>3. PICK known : known = Over(Known(RightEdge(r)), [c \in right |-> First(mail, <<r + 1, r, "left">>)[c]])
  OBVIOUS
<1>4. PICK db : db = Reduced(EntriesOf(known, Straddling(RightEdge(r), right)))
  OBVIOUS
<1>5. /\ found' = [found EXCEPT ![r].edge = db]
      /\ mail' = Sent(Sent(Receive(mail, Awaited(r)), Report(r, "intra", found[r].intra)), Report(r, "odbedge", db))
  BY <1>2, <1>3, <1>4 DEF ScanSeam
<1>6. Awaited(r) = {<<s, r, "left">> : s \in {r + 1} \cap Ranks}
  BY <1>1 DEF Awaited
<1>7. ASSUME NEW s \in {r + 1} \cap Ranks PROVE First(mail, <<s, r, "left">>) = Known(LeftEdge(s))
  <2>1. PICK key : key = <<s, r, "left">>
    OBVIOUS
  <2>2. key \in DOMAIN mail
    BY <1>1, <1>6, <1>7, <2>1 DEF Has
  <2>3. key \in Keys /\ Waiting(mail, key) # <<>> /\ First(mail, key) = Waiting(mail, key)[1]
    BY <2>2, WaitingIs DEF IInv, Shapes
  <2>4. PICK v : v = First(mail, key)
    OBVIOUS
  <2>5. OutletTold(key, v)
    BY <2>3, <2>4 DEF OutletInv, OutletMail
  <2>6. v = Known(LeftEdge(s))
    BY <2>1, <2>5 DEF OutletTold, OutletSays
  <2> QED BY <2>1, <2>4, <2>6
<1>8. right = UNION {LeftEdge(s) : s \in {r + 1} \cap Ranks}
  <2>1. right = UNION {DOMAIN First(mail, <<s, r, "left">>) : s \in {r + 1} \cap Ranks}
    BY <1>2, <1>6
  <2>2. \A s \in {r + 1} \cap Ranks : DOMAIN First(mail, <<s, r, "left">>) = LeftEdge(s)
    BY <1>7 DEF Known
  <2> QED BY <2>1, <2>2
<1>9. Straddling(RightEdge(r), right) = AtSeam(r)
  BY <1>8 DEF AtSeam
<1>10. ASSUME NEW p \in AtSeam(r) PROVE known[p[1]] = CellOf(p[1]) /\ known[p[2]] = CellOf(p[2])
  <2>1. p[1] \in RightEdge(r) /\ p[2] \in right
    BY <1>8 DEF AtSeam, Straddling
  <2>2. PICK s \in {r + 1} \cap Ranks : p[2] \in LeftEdge(s)
    BY <1>8, <2>1
  <2>3. p[2] \in Owned(s) /\ RightEdge(r) \subseteq Owned(r)
    BY <2>2, SeamsOwned
  <2>4. p[2] \notin RightEdge(r)
    <3>1. r # s
      BY <2>2, BoundsAre
    <3> QED BY <2>3, <3>1, TileIs
  <2>5. PICK f, g : f = Known(RightEdge(r)) /\ g = [c \in right |-> First(mail, <<r + 1, r, "left">>)[c]]
    OBVIOUS
  <2>6. DOMAIN f = RightEdge(r) /\ f[p[1]] = CellOf(p[1])
    BY <2>1, <2>5 DEF Known
  <2>7. g[p[2]] = CellOf(p[2]) /\ p[2] \in DOMAIN g
    <3>1. First(mail, <<r + 1, r, "left">>) = Known(LeftEdge(s))
      BY <1>7, <2>2
    <3>2. Known(LeftEdge(s))[p[2]] = CellOf(p[2])
      BY <2>2 DEF Known
    <3> QED BY <2>1, <2>5, <3>1, <3>2
  <2>8. known = Over(f, g)
    BY <1>3, <2>5
  <2> QED BY <2>1, <2>4, <2>6, <2>7, <2>8 DEF Over
<1>11. Lows(db, Scan(AtSeam(r)))
  <2>1. AtSeam(r) \subseteq Cells \X Cells
    BY PairsAre
  <2>2. Lows(Reduced(EntriesOf(known, AtSeam(r))), Scan(AtSeam(r)))
    BY <1>10, <2>1, ReducedScan
  <2> QED BY <1>4, <1>9, <2>2
<1>12. Unmoved /\ at(r)' = 12 /\ \A q \in Ranks \ {r} : at(q)' = at(q)
  BY StepsTo DEF LateMove
<1>13. PICK v : v = found[r].intra
  OBVIOUS
<1>14. Lows(v, Scan(InTile(r)))
  BY <1>1, <1>13 DEF OutletInv, FoundHolds
<1>15. PICK f, g : f = Report(r, "intra", v) /\ g = Report(r, "odbedge", db)
  OBVIOUS
<1>16. DOMAIN f \subseteq Keys /\ DOMAIN g \subseteq Keys /\ DOMAIN f \cap DOMAIN g = {}
  BY <1>15, ReportIs DEF ReportTags, Report
<1>17. PICK msgs : Moved(r, msgs) /\ IsBoth(msgs, f, g)
  BY <1>1, <1>5, <1>13, <1>15, <1>16, MailTakenSentTwice
<1>18. ASSUME NEW key \in DOMAIN msgs PROVE OutletTold(key, msgs[key])'
  <2>1. Scan(InTile(r))' = Scan(InTile(r)) /\ Scan(AtSeam(r))' = Scan(AtSeam(r))
    BY <1>12, ScanStays
  <2>2. CASE key \in DOMAIN f
    <3>1. key[1] = r /\ key[3] = "intra" /\ f[key] = v
      BY <1>15, <2>2, ReportSays DEF ReportTags
    <3>2. msgs[key] = v
      BY <1>16, <1>17, <2>2, <3>1 DEF IsBoth
    <3>3. OutletSays(r, "intra", v)'
      BY <1>14, <2>1 DEF OutletSays
    <3> QED BY <3>1, <3>2, <3>3 DEF OutletTold
  <2>3. CASE key \in DOMAIN g
    <3>1. key[1] = r /\ key[3] = "odbedge" /\ g[key] = db
      BY <1>15, <2>3, ReportSays DEF ReportTags
    <3>2. msgs[key] = db
      BY <1>16, <1>17, <2>3, <3>1 DEF IsBoth
    <3>3. OutletSays(r, "odbedge", db)'
      BY <1>11, <2>1 DEF OutletSays
    <3> QED BY <3>1, <3>2, <3>3 DEF OutletTold
  <2> QED BY <1>17, <2>2, <2>3 DEF IsBoth
<1>19. FoundShape' /\ found'[r].intra = v /\ found'[r].edge = db /\ \A q \in Ranks \ {r} : found'[q] = found[q]
  <2>1. found = [q \in Ranks |-> [intra |-> found[q].intra, edge |-> found[q].edge]]
    BY DEF OutletInv, FoundShape
  <2>2. found' = [q \in Ranks |-> IF q = r THEN [intra |-> v, edge |-> db] ELSE found[q]]
    BY <1>5, <1>13, <2>1
  <2> QED BY <1>13, <2>1, <2>2 DEF FoundShape
<1>20. FoundHolds(r)'
  <2>1. Scan(InTile(r))' = Scan(InTile(r)) /\ Scan(AtSeam(r))' = Scan(AtSeam(r))
    BY <1>12, ScanStays
  <2> QED BY <1>11, <1>14, <1>19, <2>1 DEF FoundHolds
<1>21. MergedHolds'
  <2>1. Scan(AllPairs)' = Scan(AllPairs)
    BY <1>12, ScanStays
  <2>2. CASE r = 0
    BY <1>12, <2>2 DEF MergedHolds
  <2>3. CASE r # 0
    <3>1. at(0)' = at(0)
      BY <1>12, <2>3, BesideIs
    <3> QED BY <1>1, <2>1, <3>1 DEF OutletInv, MergedHolds
  <2> QED BY <2>2, <2>3
<1> QED BY <1>17, <1>18, <1>19, <1>20, <1>21, OutletCarry

\* The members of a sequence put together of four.
LEMMA JoinedRange ==
  ASSUME NEW a, NEW b, IsQueue(a), IsQueue(b)
  PROVE  IsQueue(a \o b) /\ Range(a \o b) = Range(a) \cup Range(b)
<1> DEFINE c == a \o b
<1>1. PICK S : a \in Seq(S) /\ b \in Seq(S)
  <2> DEFINE S == Range(a) \cup Range(b)
  <2>1. Len(a) \in Nat /\ DOMAIN a = 1 .. Len(a) /\ Len(b) \in Nat /\ DOMAIN b = 1 .. Len(b)
    BY QueueIs
  <2>2. (\A i \in 1 .. Len(a) : a[i] \in S) /\ \A i \in 1 .. Len(b) : b[i] \in S
    BY <2>1 DEF Range
  <2> HIDE DEF S
  <2>3. a = [i \in 1 .. Len(a) |-> a[i]] /\ b = [i \in 1 .. Len(b) |-> b[i]]
    BY <2>1 DEF IsQueue
  <2>4. a \in Seq(S) /\ b \in Seq(S)
    BY <2>1, <2>2, <2>3
  <2> QED BY <2>4
<1>2. PICK m \in Nat, n \in Nat : m = Len(a) /\ n = Len(b)
  BY <1>1
<1>3. /\ c \in Seq(S) /\ DOMAIN c = 1 .. m + n /\ Len(c) = m + n
      /\ DOMAIN a = 1 .. m /\ DOMAIN b = 1 .. n
      /\ \A i \in 1 .. m + n : c[i] = IF i <= m THEN a[i] ELSE b[i - m]
  BY <1>1, <1>2
<1> HIDE DEF c
<1>4. ASSUME NEW i \in 1 .. m + n PROVE c[i] \in Range(a) \cup Range(b)
  <2>1. CASE i <= m
    <3>1. i \in 1 .. m
      BY <2>1
    <3>2. c[i] = a[i]
      BY <1>3, <2>1
    <3> QED BY <1>3, <3>1, <3>2 DEF Range
  <2>2. CASE ~ (i <= m)
    <3>1. i - m \in 1 .. n
      BY <2>2
    <3>2. c[i] = b[i - m]
      BY <1>3, <2>2
    <3> QED BY <1>3, <3>1, <3>2 DEF Range
  <2> QED BY <2>1, <2>2
<1>5. ASSUME NEW i \in 1 .. m PROVE a[i] \in Range(c)
  <2>1. i \in 1 .. m + n /\ i <= m
    OBVIOUS
  <2>2. c[i] = a[i]
    BY <1>3, <2>1
  <2> QED BY <1>3, <2>1, <2>2 DEF Range
<1>6. ASSUME NEW i \in 1 .. n PROVE b[i] \in Range(c)
  <2>1. m + i \in 1 .. m + n /\ ~ (m + i <= m) /\ (m + i) - m = i
    OBVIOUS
  <2>2. c[m + i] = b[i]
    BY <1>3, <2>1
  <2> QED BY <1>3, <2>1, <2>2 DEF Range
<1>7. Range(c) = Range(a) \cup Range(b)
  BY <1>3, <1>4, <1>5, <1>6 DEF Range
<1>8. IsQueue(c)
  <2>1. \A i \in 1 .. m + n : c[i] \in Range(c)
    BY <1>3 DEF Range
  <2>2. c = [i \in 1 .. m + n |-> c[i]] /\ m + n \in Nat
    BY <1>3
  <2>3. c \in Seq(Range(c))
    BY <2>1, <2>2
  <2> QED BY <2>3 DEF IsQueue
<1> QED BY <1>7, <1>8 DEF c

\* A sequence of one.
LEMMA OneRange == \A v : IsQueue(<<v>>) /\ Range(<<v>>) = {v}
<1>1. \A v : IsQueue(<<v>>)
  BY OneMessage
<1>2. \A v : DOMAIN <<v>> = {1} /\ <<v>>[1] = v
  OBVIOUS
<1> QED BY <1>1, <1>2 DEF Range

\* What rank 0 merges: the databases of all tiles and of all seams.
LEMMA MergedRange ==
  ASSUME NEW p, NEW f, NEW q, NEW g, IsQueue(p), IsQueue(f), IsQueue(q), IsQueue(g)
  PROVE  Range(p \o f \o q \o g) = Range(p) \cup Range(f) \cup Range(q) \cup Range(g)
<1>1. IsQueue(p \o f) /\ Range(p \o f) = Range(p) \cup Range(f)
  BY JoinedRange
<1>2. PICK a : a = p \o f
  OBVIOUS
<1>3. IsQueue(a \o q) /\ Range(a \o q) = Range(a) \cup Range(q)
  BY <1>1, <1>2, JoinedRange
<1>4. PICK b : b = a \o q
  OBVIOUS
<1>5. Range(b \o g) = Range(b) \cup Range(g)
  BY <1>3, <1>4, JoinedRange
<1> QED BY <1>1, <1>2, <1>3, <1>4, <1>5

\* The scan of all pairs has the entries of the parts.
LEMMA ScanParts ==
  /\ \A r \in Ranks : Scan(InTile(r)) \subseteq Scan(AllPairs) /\ Scan(AtSeam(r)) \subseteq Scan(AllPairs)
  /\ \A f \in Scan(AllPairs) : \E r \in Ranks : f \in Scan(InTile(r)) \/ f \in Scan(AtSeam(r))
<1>1. PICK known : known = Known(Cells)
  OBVIOUS
<1>2. \A P : Scan(P) = {EntryOf(known, p) : p \in {q \in P : Parts(known, q)}}
  BY <1>1, EntriesAre DEF Scan
<1>3. ASSUME NEW r \in Ranks PROVE Scan(InTile(r)) \subseteq Scan(AllPairs) /\ Scan(AtSeam(r)) \subseteq Scan(AllPairs)
  <2>1. InTile(r) \subseteq AllPairs /\ AtSeam(r) \subseteq AllPairs
    BY DEF AllPairs
  <2> QED BY <1>2, <2>1
<1>4. ASSUME NEW f \in Scan(AllPairs) PROVE \E r \in Ranks : f \in Scan(InTile(r)) \/ f \in Scan(AtSeam(r))
  <2>1. PICK p \in AllPairs : Parts(known, p) /\ f = EntryOf(known, p)
    BY <1>2
  <2>2. PICK r \in Ranks : p \in InTile(r) \/ p \in AtSeam(r)
    BY <2>1 DEF AllPairs
  <2> QED BY <1>2, <2>1, <2>2
<1> QED BY <1>3, <1>4

\* Databases of all parts, merged, are one of the whole.
LEMMA MergedParts ==
  ASSUME IInv, DataInv, AllMet, NEW D,
         \A d \in D : \E r \in Ranks : Lows(d, Scan(InTile(r))) \/ Lows(d, Scan(AtSeam(r))),
         \A r \in Ranks : (\E d \in D : Lows(d, Scan(InTile(r)))) /\ (\E d \in D : Lows(d, Scan(AtSeam(r))))
  PROVE  Lows(Reduced(UNION {AsEntries(d) : d \in D}), Scan(AllPairs))
<1>1. AreEntries(Scan(AllPairs)) /\ \A r \in Ranks : AreEntries(Scan(InTile(r))) /\ AreEntries(Scan(AtSeam(r)))
  BY PairsAre, ScanEntries
<1>2. PICK merged : merged = UNION {AsEntries(d) : d \in D}
  OBVIOUS
<1>3. ASSUME NEW d \in D PROVE AsEntries(d) \subseteq Scan(AllPairs)
  <2>1. PICK r \in Ranks : Lows(d, Scan(InTile(r))) \/ Lows(d, Scan(AtSeam(r)))
    OBVIOUS
  <2>2. AsEntries(d) \subseteq Scan(InTile(r)) \/ AsEntries(d) \subseteq Scan(AtSeam(r))
    BY <1>1, <2>1, EntriesLow
  <2> QED BY <2>2, ScanParts
<1>4. ASSUME NEW f \in Scan(AllPairs) PROVE \E e \in merged : e.key = f.key /\ e.oelev <= f.oelev
  <2>1. PICK r \in Ranks : f \in Scan(InTile(r)) \/ f \in Scan(AtSeam(r))
    BY ScanParts
  <2>2. PICK d \in D : \E e \in AsEntries(d) : e.key = f.key /\ e.oelev <= f.oelev
    <3>1. CASE f \in Scan(InTile(r))
      <4>1. PICK d \in D : Lows(d, Scan(InTile(r)))
        OBVIOUS
      <4>2. \E e \in AsEntries(d) : e.key = f.key /\ e.oelev <= f.oelev
        BY <1>1, <3>1, <4>1, EntriesLow
      <4> QED BY <4>2
    <3>2. CASE f \in Scan(AtSeam(r))
      <4>1. PICK d \in D : Lows(d, Scan(AtSeam(r)))
        OBVIOUS
      <4>2. \E e \in AsEntries(d) : e.key = f.key /\ e.oelev <= f.oelev
        BY <1>1, <3>2, <4>1, EntriesLow
      <4> QED BY <4>2
    <3> QED BY <2>1, <3>1, <3>2
  <2> QED BY <1>2, <2>2
<1>5. merged \subseteq Scan(AllPairs)
  BY <1>2, <1>3
<1> QED BY <1>1, <1>2, <1>4, <1>5, MergedLows

\* Rank 0 merges what it has and what it has been sent.
LEMMA MergeOutlets ==
  ASSUME IInv, IInv', DataInv, OutletInv, AllMet, Merge, LateMove(0, "records")
  PROVE  OutletInv'
<1>0. 0 \in Ranks /\ Others = Ranks \ {0} /\ Others = 1 .. ntiles - 1 /\ ntiles \in Nat \ {0}
  BY BesideIs DEF Others, Ranks
<1>1. /\ pc[0] = "merge" /\ at(0) = 12 /\ Has(mail, Awaited(0)) /\ mail' = Receive(mail, Awaited(0)) /\ found' = found
  BY TurnIs DEF Merge, At, at
<1>2. Awaited(0) = {<<t, 0, tag>> : t \in Others, tag \in {"intra", "odbedge"}}
  BY <1>1 DEF Awaited, ToZero
<1>3. PICK f, g : /\ f = [t \in 1 .. ntiles - 1 |-> First(mail, <<t, 0, "intra">>)]
                  /\ g = [t \in 1 .. ntiles - 1 |-> First(mail, <<t, 0, "odbedge">>)]
  OBVIOUS
<1>4. PICK i, e : i = found[0].intra /\ e = found[0].edge
  OBVIOUS
<1>5. PICK p, q : p = <<i>> /\ q = <<e>> /\ outlet_db_dist' = Merged(p \o f \o q \o g)
  BY <1>3, <1>4 DEF Merge
<1>6. IsQueue(f) /\ IsQueue(g)
  <2>1. DOMAIN f = 1 .. ntiles - 1 /\ DOMAIN g = 1 .. ntiles - 1 /\ ntiles - 1 \in Nat
    BY <1>0, <1>3
  <2>2. (\A t \in 1 .. ntiles - 1 : f[t] \in Range(f)) /\ \A t \in 1 .. ntiles - 1 : g[t] \in Range(g)
    BY <2>1 DEF Range
  <2>3. f = [t \in 1 .. ntiles - 1 |-> f[t]] /\ g = [t \in 1 .. ntiles - 1 |-> g[t]]
    BY <1>3
  <2>4. f \in Seq(Range(f))
    BY <2>1, <2>2, <2>3
  <2>5. g \in Seq(Range(g))
    BY <2>1, <2>2, <2>3
  <2> QED BY <2>4, <2>5 DEF IsQueue
<1>7. PICK D : D = {i, e} \cup Range(f) \cup Range(g)
  OBVIOUS
<1>8. outlet_db_dist' = Reduced(UNION {AsEntries(d) : d \in D})
  <2>1. PICK dbs : dbs = p \o f \o q \o g
    OBVIOUS
  <2>2. {dbs[k] : k \in DOMAIN dbs} = D
    <3>1. IsQueue(p) /\ IsQueue(q) /\ Range(p) = {i} /\ Range(q) = {e}
      BY <1>5, OneRange
    <3>2. Range(dbs) = Range(p) \cup Range(f) \cup Range(q) \cup Range(g)
      BY <1>6, <2>1, <3>1, MergedRange
    <3>3. Range(dbs) = D
      BY <1>7, <3>1, <3>2
    <3> QED BY <3>3 DEF Range
  <2>3. UNION {AsEntries(dbs[k]) : k \in DOMAIN dbs} = UNION {AsEntries(d) : d \in D}
    BY <2>2
  <2>4. outlet_db_dist' = Merged(dbs)
    BY <1>5, <2>1
  <2>5. Merged(dbs) = Reduced(UNION {AsEntries(dbs[k]) : k \in DOMAIN dbs})
    BY DEF Merged
  <2> QED BY <2>3, <2>4, <2>5
<1>9. Lows(i, Scan(InTile(0))) /\ Lows(e, Scan(AtSeam(0)))
  BY <1>0, <1>1, <1>4 DEF OutletInv, FoundHolds
<1>10. ASSUME NEW t \in Others PROVE Lows(f[t], Scan(InTile(t))) /\ Lows(g[t], Scan(AtSeam(t)))
  <2>1. ASSUME NEW tag \in {"intra", "odbedge"}, NEW v, v = First(mail, <<t, 0, tag>>) PROVE OutletSays(t, tag, v)
    <3>1. PICK key : key = <<t, 0, tag>>
      OBVIOUS
    <3>2. key \in DOMAIN mail
      BY <1>1, <1>2, <3>1 DEF Has
    <3>3. key \in Keys /\ Waiting(mail, key) # <<>> /\ v = Waiting(mail, key)[1]
      BY <2>1, <3>1, <3>2, WaitingIs DEF IInv, Shapes
    <3>4. OutletTold(key, v)
      BY <3>3 DEF OutletInv, OutletMail
    <3> QED BY <3>1, <3>4 DEF OutletTold
  <2>2. f[t] = First(mail, <<t, 0, "intra">>) /\ g[t] = First(mail, <<t, 0, "odbedge">>)
    BY <1>0, <1>3
  <2>3. OutletSays(t, "intra", f[t]) /\ OutletSays(t, "odbedge", g[t])
    BY <2>1, <2>2
  <2> QED BY <2>3 DEF OutletSays
<1>11. \A d \in D : \E r \in Ranks : Lows(d, Scan(InTile(r))) \/ Lows(d, Scan(AtSeam(r)))
  <2>1. \A d \in Range(f) : \E t \in Others : d = f[t]
    BY <1>0, <1>3 DEF Range
  <2>2. \A d \in Range(g) : \E t \in Others : d = g[t]
    BY <1>0, <1>3 DEF Range
  <2> QED BY <1>0, <1>7, <1>9, <1>10, <2>1, <2>2
<1>12. ASSUME NEW r \in Ranks PROVE (\E d \in D : Lows(d, Scan(InTile(r)))) /\ (\E d \in D : Lows(d, Scan(AtSeam(r))))
  <2>1. CASE r = 0
    BY <1>7, <1>9, <2>1
  <2>2. CASE r # 0
    <3>1. r \in Others /\ r \in DOMAIN f /\ r \in DOMAIN g
      BY <1>0, <1>3, <2>2
    <3>2. f[r] \in D /\ g[r] \in D
      BY <1>7, <3>1 DEF Range
    <3> QED BY <1>10, <3>1, <3>2
  <2> QED BY <2>1, <2>2
<1>13. PICK db : db = Reduced(UNION {AsEntries(d) : d \in D})
  OBVIOUS
<1>14. Lows(db, Scan(AllPairs))
  BY <1>11, <1>12, <1>13, MergedParts
<1>15. Moved(0, NoMail) /\ DOMAIN NoMail = {}
  BY <1>0, <1>1, MailTaken DEF NoMail
<1>16. Unmoved /\ at(0)' = 13
  <2>1. PICK x : x = "records"
    OBVIOUS
  <2>2. Unmoved /\ pc' = [pc EXCEPT ![0] = x]
    BY <2>1 DEF LateMove
  <2>3. at(0)' = Turn(x)
    BY <1>0, <2>2, StepsTo
  <2> QED BY <2>1, <2>2, <2>3, TurnIs
<1>17. FoundShape'
  BY <1>1 DEF OutletInv, FoundShape
<1>18. FoundHolds(0)'
  <2>1. Scan(InTile(0))' = Scan(InTile(0)) /\ Scan(AtSeam(0))' = Scan(AtSeam(0))
    BY <1>0, <1>16, ScanStays
  <2> QED BY <1>1, <1>4, <1>9, <2>1 DEF FoundHolds
<1>19. MergedHolds'
  <2>1. Scan(AllPairs)' = Scan(AllPairs)
    BY <1>16, ScanStays
  <2>2. outlet_db_dist' = db
    BY <1>8, <1>13
  <2> QED BY <1>14, <2>1, <2>2 DEF MergedHolds
<1> QED BY <1>0, <1>1, <1>15, <1>17, <1>18, <1>19, OutletCarry

-----------------------------------------------------------------------------
\* The steps after the merge: they send nothing of the outlets.
TreeMove(r, x, msgs) ==
  /\ LateMove(r, x) /\ Moved(r, msgs) /\ \A key \in DOMAIN msgs : key[3] \notin {"left", "intra", "odbedge"}
  /\ at(r) > 11 /\ (r = 0 => at(r) > 12)

\* They keep what is said of the outlets.
LEMMA TreeMoveOutlets ==
  ASSUME IInv, IInv', OutletInv, found' = found, outlet_db_dist' = outlet_db_dist,
         NEW r \in Ranks, NEW x, NEW msgs, TreeMove(r, x, msgs)
  PROVE  OutletInv'
<1>1. Unmoved /\ \A q \in Ranks \ {r} : at(q)' = at(q)
  BY StepsTo DEF TreeMove, LateMove
<1>2. FoundShape'
  BY DEF OutletInv, FoundShape
<1>3. FoundHolds(r)'
  <2>1. at(r) > 10 /\ at(r) > 11
    <3>1. at(r) \in 0 .. 20 /\ at(r) > 11
      BY NowType DEF IInv, TreeMove
    <3> QED BY <3>1
  <2>2. Scan(InTile(r))' = Scan(InTile(r)) /\ Scan(AtSeam(r))' = Scan(AtSeam(r))
    BY <1>1, ScanStays
  <2> QED BY <2>1, <2>2 DEF OutletInv, FoundHolds
<1>4. MergedHolds'
  <2>1. Scan(AllPairs)' = Scan(AllPairs)
    BY <1>1, ScanStays
  <2>2. CASE r = 0
    BY <2>1, <2>2 DEF OutletInv, MergedHolds, TreeMove
  <2>3. CASE r # 0
    <3>1. at(0)' = at(0)
      BY <1>1, <2>3, BesideIs
    <3> QED BY <2>1, <3>1 DEF OutletInv, MergedHolds
  <2> QED BY <2>2, <2>3
<1>5. ASSUME NEW key \in DOMAIN msgs PROVE OutletTold(key, msgs[key])'
  <2>1. key[3] \notin {"left", "intra", "odbedge"}
    BY DEF TreeMove
  <2> QED BY <2>1 DEF OutletTold, OutletSays
<1>6. Moved(r, msgs) /\ LateMove(r, x)
  BY DEF TreeMove
<1> QED BY <1>2, <1>3, <1>4, <1>5, <1>6, OutletCarry

\* The records, the tree, and the volumes.
LEMMA TreeMoves ==
  ASSUME IInv, BuildTree \/ PointAcross \/ Verify
  PROVE  /\ found' = found /\ outlet_db_dist' = outlet_db_dist
         /\ \E r \in Ranks : \E x, msgs : TreeMove(r, x, msgs)
<1>0. 0 \in Ranks
  BY BesideIs
<1>1. DOMAIN NoMail = {}
  BY DEF NoMail
<1>2. found' = found /\ outlet_db_dist' = outlet_db_dist
  BY DEF BuildTree, PointAcross, Verify, outletVars
<1>3. CASE BuildTree
  <2>1. TreeStep /\ glab' = glab /\ walked' = walked /\ gc_owned' = gc_owned
    BY <1>3 DEF BuildTree, conduitVars, haloVars
  <2>2. CASE Place(fl_relabel, surv)
    <3>1. /\ pc[0] = "records" /\ Has(mail, Awaited(0)) /\ mail' = Receive(mail, Awaited(0))
          /\ pc' = [pc EXCEPT ![0] = "placed"] /\ Unmoved
      BY <2>1, <2>2 DEF Place, At, Unmoved, floodVars, startVars
    <3>2. Moved(0, NoMail)
      BY <1>0, <3>1, MailTaken
    <3>3. TreeMove(0, "placed", NoMail)
      BY <1>1, <3>1, <3>2, TurnIs DEF TreeMove, LateMove, at
    <3> QED BY <1>0, <1>2, <3>3
  <2>3. CASE Assemble(outlet_db_dist)
    <3>1. PICK msgs : /\ pc[0] = "sweep" /\ pc' = [pc EXCEPT ![0] = "totals"] /\ Unmoved
                      /\ mail' = Sent(mail, msgs) /\ DOMAIN msgs = FromZero("tree")
      BY <2>1, <2>3 DEF Assemble, At, Unmoved, floodVars, startVars
    <3>2. DOMAIN msgs \subseteq Keys /\ \A key \in DOMAIN msgs : key[3] = "tree"
      BY <3>1, ReplyIs DEF ReplyTags
    <3>3. Moved(0, msgs)
      BY <1>0, <3>1, <3>2, AwaitsNone, MailSent
    <3>4. TreeMove(0, "totals", msgs)
      BY <3>1, <3>2, <3>3, TurnIs DEF TreeMove, LateMove, at
    <3> QED BY <1>0, <1>2, <3>4
  <2>4. CASE Total
    <3>1. /\ pc[0] = "totals" /\ Has(mail, Awaited(0)) /\ mail' = Receive(mail, Awaited(0))
          /\ pc' = [pc EXCEPT ![0] = "flows"] /\ Unmoved
      BY <2>1, <2>4 DEF Total, At, Unmoved, floodVars, startVars
    <3>2. Moved(0, NoMail)
      BY <1>0, <3>1, MailTaken
    <3>3. TreeMove(0, "flows", NoMail)
      BY <1>1, <3>1, <3>2, TurnIs DEF TreeMove, LateMove, at
    <3> QED BY <1>0, <1>2, <3>3
  <2>5. ASSUME NEW r \in Ranks, ShipRecords(r) PROVE \E q \in Ranks : \E x, msgs : TreeMove(q, x, msgs)
    <3>1. PICK v : /\ pc[r] = "ship" /\ pc' = [pc EXCEPT ![r] = "placed"] /\ Unmoved
                   /\ mail' = Sent(mail, Report(r, "deprec", v))
      BY <2>1, <2>5 DEF ShipRecords, At, Unmoved, floodVars, startVars
    <3>2. PICK msgs : msgs = Report(r, "deprec", v)
      OBVIOUS
    <3>3. DOMAIN msgs \subseteq Keys /\ \A key \in DOMAIN msgs : key[3] = "deprec"
      BY <3>2, ReportIs DEF ReportTags
    <3>4. Moved(r, msgs)
      BY <3>1, <3>2, <3>3, AwaitsNone, MailSent
    <3>5. r # 0
      BY <3>1 DEF IInv, StageIs, ZeroStages
    <3>6. TreeMove(r, "placed", msgs)
      BY <3>1, <3>3, <3>4, <3>5, TurnIs DEF TreeMove, LateMove, at
    <3> QED BY <3>6
  <2>6. ASSUME NEW r \in Ranks, Tally(r) PROVE \E q \in Ranks : \E x, msgs : TreeMove(q, x, msgs)
    <3>1. PICK v : /\ pc[r] = "tree" /\ Has(mail, Awaited(r)) /\ pc' = [pc EXCEPT ![r] = "flows"] /\ Unmoved
                   /\ mail' = Sent(Receive(mail, Awaited(r)), Report(r, "marg", v))
      BY <2>1, <2>6 DEF Tally, At, Unmoved, floodVars, startVars
    <3>2. PICK msgs : msgs = Report(r, "marg", v)
      OBVIOUS
    <3>3. DOMAIN msgs \subseteq Keys /\ \A key \in DOMAIN msgs : key[3] = "marg"
      BY <3>2, ReportIs DEF ReportTags
    <3>4. Moved(r, msgs)
      BY <3>1, <3>2, <3>3, MailTakenSent
    <3>5. TreeMove(r, "flows", msgs)
      BY <3>1, <3>3, <3>4, TurnIs DEF TreeMove, LateMove, at
    <3> QED BY <3>5
  <2> QED BY <1>2, <2>1, <2>2, <2>3, <2>4, <2>5, <2>6 DEF TreeStep
<1>4. CASE PointAcross
  <2>1. PICK r \in Ranks : FixFlows(r)
    BY <1>4 DEF PointAcross
  <2>2. glab' = glab /\ walked' = walked /\ gc_owned' = gc_owned
    BY <1>4 DEF PointAcross, conduitVars, haloVars
  <2>3. pc[r] = "flows" /\ pc' = [pc EXCEPT ![r] = "shipped"] /\ Unmoved /\ mail' = mail
    BY <2>1, <2>2 DEF FixFlows, At, Unmoved, floodVars, startVars
  <2>4. Moved(r, NoMail)
    BY <2>3, AwaitsNone, MailKept
  <2>5. TreeMove(r, "shipped", NoMail)
    BY <1>1, <2>3, <2>4, TurnIs DEF TreeMove, LateMove, at
  <2> QED BY <1>2, <2>5
<1>5. CASE Verify
  <2>1. pc[0] = "verify" /\ pc' = [pc EXCEPT ![0] = "done"] /\ Unmoved /\ mail' = mail
    BY <1>5 DEF Verify, Unmoved, floodVars, startVars, conduitVars, haloVars
  <2>2. Moved(0, NoMail)
    BY <1>0, <2>1, AwaitsNone, MailKept
  <2>3. TreeMove(0, "done", NoMail)
    BY <1>1, <2>1, <2>2, TurnIs DEF TreeMove, LateMove, at
  <2> QED BY <1>0, <1>2, <2>3
<1> QED BY <1>3, <1>4, <1>5

\* The ranks leaving a barrier, or none of them moving.
LEMMA StillOutlets ==
  ASSUME IInv, IInv', OutletInv, found' = found, outlet_db_dist' = outlet_db_dist, mail' = mail, Unmoved,
         \A q \in Ranks : /\ at(q)' > 10 => at(q) > 10
                          /\ at(q)' > 11 => at(q) > 11
                          /\ at(q)' > 12 => at(q) > 12
  PROVE  OutletInv'
<1>1. FoundShape'
  BY DEF OutletInv, FoundShape
<1>2. ASSUME NEW q \in Ranks PROVE FoundHolds(q)'
  <2>1. Scan(InTile(q))' = Scan(InTile(q)) /\ Scan(AtSeam(q))' = Scan(AtSeam(q))
    BY ScanStays
  <2>2. FoundHolds(q)
    BY DEF OutletInv
  <2> QED BY <2>1, <2>2 DEF FoundHolds
<1>3. MergedHolds'
  <2>1. Scan(AllPairs)' = Scan(AllPairs)
    BY ScanStays
  <2> QED BY <2>1, BesideIs DEF OutletInv, MergedHolds
<1>4. ASSUME NEW key \in Keys, NEW v, Waiting(mail, key)' # <<>>, v = Waiting(mail, key)'[1] PROVE OutletTold(key, v)'
  <2>1. Waiting(mail, key)' = Waiting(mail, key)
    BY DEF Waiting
  <2>2. Waiting(mail, key) # <<>> /\ v = Waiting(mail, key)[1]
    BY <1>4, <2>1
  <2>3. OutletTold(key, v)
    BY <2>2 DEF OutletInv, OutletMail
  <2> QED BY <2>3, OutletStaysTold
<1>5. OutletMail'
  BY <1>4 DEF OutletMail
<1> QED BY <1>1, <1>2, <1>3, <1>5 DEF OutletInv

\* The scans and the merge.
LEMMA FoundOutlets ==
  ASSUME IInv, IInv', DataInv, OutletInv, AllMet, OutletStep, glab' = glab, walked' = walked, gc_owned' = gc_owned
  PROVE  OutletInv'
<1>1. ASSUME NEW r \in Ranks, ScanTile(r) PROVE OutletInv'
  <2>1. pc[r] = "scan" /\ pc' = [pc EXCEPT ![r] = "seam"] /\ Unmoved
    BY <1>1 DEF ScanTile, At, Unmoved, floodVars, startVars
  <2>2. LateMove(r, "seam")
    BY <2>1, TurnIs DEF LateMove, at
  <2> QED BY <1>1, <2>2, ScanTileOutlets
<1>2. ASSUME NEW r \in Ranks, ScanSeam(r) PROVE OutletInv'
  <2>1. PICK x : x = IF r = 0 THEN "merge" ELSE "ship"
    OBVIOUS
  <2>2. pc[r] = "seam" /\ pc' = [pc EXCEPT ![r] = x] /\ Unmoved
    BY <1>2, <2>1 DEF ScanSeam, At, Unmoved, floodVars, startVars
  <2>3. LateMove(r, x) /\ Turn(x) = 12
    BY <2>1, <2>2, TurnIs DEF LateMove, at
  <2> QED BY <1>2, <2>3, ScanSeamOutlets
<1>3. ASSUME Merge PROVE OutletInv'
  <2>1. pc[0] = "merge" /\ pc' = [pc EXCEPT ![0] = "records"] /\ Unmoved
    BY <1>3 DEF Merge, At, Unmoved, floodVars, startVars
  <2>2. LateMove(0, "records")
    BY <2>1, TurnIs DEF LateMove, at
  <2> QED BY <1>3, <2>2, MergeOutlets
<1> QED BY <1>1, <1>2, <1>3 DEF OutletStep

\* Every step keeps what is known of the outlets.
LEMMA NextOutlets ==
  ASSUME IInv, IInv', DataInv, OutletInv, [Next]_vars
  PROVE  OutletInv'
<1>1. CASE Conduits \/ FlatLabels
  <2>1. (ConduitStep \/ HaloStep) /\ found' = found
    BY <1>1 DEF Conduits, FlatLabels, outletVars
  <2>2. PICK r \in Ranks : \E x : EarlyMove(r, x)
    BY <2>1, EarlyMoves
  <2>3. PICK x : EarlyMove(r, x)
    BY <2>2
  <2> QED BY <2>1, <2>3, EarlyOutlets DEF EarlyMove
<1>2. CASE FindOutlets
  <2>1. OutletStep /\ glab' = glab /\ walked' = walked /\ gc_owned' = gc_owned
    BY <1>2 DEF FindOutlets, conduitVars, haloVars
  <2>2. LateStep
    BY <1>2 DEF LateStep
  <2>3. PICK r \in Ranks : \E x : LateMove(r, x)
    BY <2>2, LateSteps
  <2>4. AllMet
    BY <2>3 DEF LateMove, IInv, BarriersHold, AllMet
  <2> QED BY <2>1, <2>4, FoundOutlets
<1>3. CASE BuildTree \/ PointAcross \/ Verify
  <2>1. found' = found /\ outlet_db_dist' = outlet_db_dist /\ \E r \in Ranks : \E x, msgs : TreeMove(r, x, msgs)
    BY <1>3, TreeMoves
  <2>2. PICK r \in Ranks : \E x, msgs : TreeMove(r, x, msgs)
    BY <2>1
  <2>3. PICK x, msgs : TreeMove(r, x, msgs)
    BY <2>2
  <2> QED BY <2>1, <2>3, TreeMoveOutlets
<1>4. CASE LeaveBarrier
  <2>1. /\ Unmoved
        /\ \A q \in Ranks : at(q) \in {9, 14, 18} /\ at(q)' \in {10, 15, 19, 20} /\ (at(q)' = 10 <=> at(q) = 9)
    BY <1>4, LeaveBarrierData
  <2>2. found' = found /\ outlet_db_dist' = outlet_db_dist /\ mail' = mail
    BY <1>4 DEF LeaveBarrier, outletVars
  <2>3. \A q \in Ranks : /\ at(q)' > 10 => at(q) > 10
                         /\ at(q)' > 11 => at(q) > 11
                         /\ at(q)' > 12 => at(q) > 12
    BY <2>1
  <2> QED BY <2>1, <2>2, <2>3, StillOutlets
<1>5. CASE UNCHANGED vars
  <2>1. Unmoved /\ pc' = pc /\ found' = found /\ outlet_db_dist' = outlet_db_dist /\ mail' = mail
    BY <1>5 DEF vars, rankVars, conduitVars, haloVars, outletVars, Unmoved
  <2>2. \A q \in Ranks : at(q)' = at(q)
    BY <2>1 DEF at
  <2> QED BY <2>1, <2>2, StillOutlets
<1> QED BY <1>1, <1>2, <1>3, <1>4, <1>5 DEF Next

\* At the start nothing has been found.
LEMMA InitOutletsHold ==
  ASSUME Init
  PROVE  OutletInv
<1>1. IInv
  BY InitHolds
<1>2. pc = [r \in Ranks |-> "start"] /\ found = [r \in Ranks |-> [intra |-> <<>>, edge |-> <<>>]]
  BY DEF Init, InitRanks, InitOutlets
<1>3. \A r \in Ranks : at(r) = 0
  BY <1>2, TurnIs DEF at
<1>4. AllBefore
  BY <1>3 DEF AllBefore
<1>5. FoundShape
  BY <1>2 DEF FoundShape
<1> QED BY <1>1, <1>4, <1>5, BeforeInv

\* Every behaviour has the outlets as they should be.
LEMMA OutletsAlways == Spec => [](IInv /\ DataInv /\ OutletInv)
<1>1. Init => IInv /\ DataInv /\ OutletInv
  BY InitHolds, InitData, InitOutletsHold
<1>2. (IInv /\ DataInv /\ OutletInv) /\ [Next]_vars => (IInv /\ DataInv /\ OutletInv)'
  BY NextKeeps, NextData, NextOutlets
<1> QED BY <1>1, <1>2, PTL DEF Spec

-----------------------------------------------------------------------------
(***************************************************************************)
(* No pass is lost.                                                        *)
(***************************************************************************)
\* Two cells that touch in different tiles lie on both sides of a seam.
LEMMA AcrossSeam ==
  ASSUME NEW a \in Cells, NEW b \in Around(a), TileOf(a) < TileOf(b)
  PROVE  <<a, b>> \in AtSeam(TileOf(a))
<1>1. PICK s \in Ranks, t \in Ranks : s = TileOf(a) /\ t = TileOf(b) /\ a \in Owned(s) /\ b \in Owned(t) /\ b \in Cells
  BY TileIs, AroundIsMutual
<1>2. XOf(a) \in X0(s) .. X1(s) - 1 /\ XOf(b) \in X0(t) .. X1(t) - 1 /\ XOf(b) <= XOf(a) + 1
  BY <1>1, AroundIsMutual DEF Owned, Between
<1>3. X1(s) <= X0(t) /\ s < t
  BY <1>1, TilesAscend
<1>4. /\ X0(s) \in Nat /\ X1(s) \in Nat /\ X0(t) \in Nat /\ X1(t) \in Nat
      /\ s \in Nat /\ t \in Nat
  BY BoundsAre
<1>5. XOf(a) = X1(s) - 1 /\ XOf(b) = X1(s)
  BY <1>2, <1>3, <1>4
<1>6. s + 1 \in Ranks
  BY <1>3, <1>4, BoundsAre DEF Ranks
<1>7. X0(s + 1) = X1(s) /\ X0(s + 1) \in Nat
  BY <1>6, BoundsAre
<1>8. a \in RightEdge(s) /\ b \in LeftEdge(s + 1)
  BY <1>1, <1>5, <1>7 DEF RightEdge, LeftEdge, Column
<1> QED BY <1>1, <1>6, <1>8 DEF AtSeam, Straddling

\* The ranks look at every pair of cells that touch, at some from one side only.
LEMMA AllPairsAre ==
  /\ AllPairs \subseteq Touching(Cells)
  /\ \A p \in Touching(Cells) : p \in AllPairs \/ <<p[2], p[1]>> \in AllPairs
<1>1. ASSUME NEW p \in AllPairs PROVE p \in Touching(Cells)
  <2>1. PICK r \in Ranks : p \in InTile(r) \/ p \in AtSeam(r)
    BY DEF AllPairs
  <2>2. p \in Cells \X Cells
    BY <2>1, PairsAre
  <2>3. p[2] \in Around(p[1])
    BY <2>1 DEF InTile, AtSeam, Touching, Straddling
  <2> QED BY <2>2, <2>3 DEF Touching
<1>2. ASSUME NEW p \in Touching(Cells) PROVE p \in AllPairs \/ <<p[2], p[1]>> \in AllPairs
  <2>1. PICK a \in Cells, b \in Cells : p = <<a, b>> /\ b \in Around(a) /\ a \in Around(b)
    BY AroundIsMutual DEF Touching
  <2>2. PICK s \in Ranks, t \in Ranks : s = TileOf(a) /\ t = TileOf(b) /\ a \in Owned(s) /\ b \in Owned(t)
    BY TileIs
  <2>3. CASE s = t
    BY <2>1, <2>2, <2>3 DEF AllPairs, InTile, Touching
  <2>4. CASE s < t
    <3>1. <<a, b>> \in AtSeam(s)
      BY <2>1, <2>2, <2>4, AcrossSeam
    <3> QED BY <2>1, <3>1 DEF AllPairs
  <2>5. CASE t < s
    <3>1. <<b, a>> \in AtSeam(t)
      BY <2>1, <2>2, <2>5, AcrossSeam
    <3>2. <<p[2], p[1]>> = <<b, a>>
      BY <2>1
    <3> QED BY <3>1, <3>2 DEF AllPairs
  <2>6. s \in Nat /\ t \in Nat
    BY BoundsAre
  <2> QED BY <2>3, <2>4, <2>5, <2>6
<1> QED BY <1>1, <1>2

\* A pair of labels is the same from both sides.
LEMMA KeyIsPair ==
  ASSUME NEW a \in Nat, NEW b \in Nat
  PROVE  /\ KeyOf(a, b) = <<Min({a, b}), Max({a, b})>> /\ KeyOf(a, b) = KeyOf(b, a)
         /\ {KeyOf(a, b)[1], KeyOf(a, b)[2]} = {a, b}
<1>1. Max({a, b}) = IF b > a THEN b ELSE a
  BY MaxOfTwo
<1>2. Min({a, b}) = IF a < b THEN a ELSE b
  <2>1. CASE a < b
    <3>1. {a, b} \subseteq Nat /\ a \in {a, b} /\ \A y \in {a, b} : a <= y
      BY <2>1
    <3>2. Min({a, b}) = a
      BY <3>1, MinIs
    <3> QED BY <2>1, <3>2
  <2>2. CASE ~ (a < b)
    <3>1. {a, b} \subseteq Nat /\ b \in {a, b} /\ \A y \in {a, b} : b <= y
      BY <2>2
    <3>2. Min({a, b}) = b
      BY <3>1, MinIs
    <3> QED BY <2>2, <3>2
  <2> QED BY <2>1, <2>2
<1>3. KeyOf(a, b) = IF a < b THEN <<a, b>> ELSE <<b, a>>
  BY DEF KeyOf
<1>4. KeyOf(b, a) = IF b < a THEN <<b, a>> ELSE <<a, b>>
  BY DEF KeyOf
<1>5. KeyOf(a, b) = <<Min({a, b}), Max({a, b})>>
  BY <1>1, <1>2, <1>3
<1>6. KeyOf(a, b) = KeyOf(b, a)
  BY <1>3, <1>4
<1>7. {KeyOf(a, b)[1], KeyOf(a, b)[2]} = {a, b}
  BY <1>3
<1> QED BY <1>5, <1>6, <1>7

\* What the entry of a pair says: its labels, its height, and a cell as high as that.
LEMMA EntryIs ==
  ASSUME IInv, DataInv, AllMet, NEW p \in Touching(Cells), NEW known, known = Known(Cells)
  PROVE  /\ FinalLabel[p[1]] \in Nat /\ FinalLabel[p[2]] \in Nat /\ HeightOf(p) \in Nat
         /\ Parts(known, p) <=> FinalLabel[p[1]] # FinalLabel[p[2]]
         /\ EntryOf(known, p).key = KeyOf(FinalLabel[p[1]], FinalLabel[p[2]])
         /\ EntryOf(known, p).oelev = HeightOf(p)
         /\ EntryOf(known, p).ocell \in {p[1], p[2]} /\ elev[EntryOf(known, p).ocell] = HeightOf(p)
<1>1. PICK a \in Cells, b \in Cells : a = p[1] /\ b = p[2]
  BY DEF Touching
<1>2. known[a] = CellOf(a) /\ known[b] = CellOf(b)
  BY DEF Known
<1>3. /\ known[a].label \in Nat /\ known[a].elev \in Nat /\ known[a].elev = elev[a] /\ known[a].label = FinalLabel[a]
      /\ known[b].label \in Nat /\ known[b].elev \in Nat /\ known[b].elev = elev[b] /\ known[b].label = FinalLabel[b]
      /\ ~ OutletSkip(known[a]) /\ ~ OutletSkip(known[b])
  BY <1>2, CellsKnown DEF OutletSkip
<1>4. HeightOf(p) = IF elev[b] > elev[a] THEN elev[b] ELSE elev[a]
  BY <1>1, <1>3, MaxOfTwo DEF HeightOf
<1>5. PICK c \in {a, b} : c = OutletCell(known, a, b)
  BY DEF OutletCell
<1>6. elev[c] = HeightOf(p) /\ known[c].elev = elev[c]
  BY <1>3, <1>4, <1>5 DEF OutletCell
<1>7. EntryOf(known, p) = [key |-> KeyOf(known[a].label, known[b].label), oelev |-> known[c].elev, ocell |-> c]
  BY <1>1, <1>5 DEF EntryOf
<1>8. Parts(known, p) <=> FinalLabel[p[1]] # FinalLabel[p[2]]
  BY <1>1, <1>3 DEF Parts
<1> QED BY <1>1, <1>3, <1>4, <1>5, <1>6, <1>7, <1>8

\* The passes of the scan of all pairs are those of the raster.
LEMMA NoneLost ==
  ASSUME IInv, DataInv, AllMet, Lows(outlet_db_dist, Scan(AllPairs)),
         NEW apart, apart = {q \in Touching(Cells) : FinalLabel[q[1]] # FinalLabel[q[2]]}
  PROVE  DOMAIN outlet_db_dist = {<<Min(l), Max(l)>> : l \in {{FinalLabel[p[1]], FinalLabel[p[2]]} : p \in apart}}
<1>1. PICK known : known = Known(Cells)
  OBVIOUS
<1>2. Scan(AllPairs) = {EntryOf(known, p) : p \in {q \in AllPairs : Parts(known, q)}}
  BY <1>1, EntriesAre DEF Scan
<1>3. DOMAIN outlet_db_dist = {e.key : e \in Scan(AllPairs)}
  BY DEF Lows
<1> DEFINE Of(p) == KeyOf(FinalLabel[p[1]], FinalLabel[p[2]])
           K == {<<Min(l), Max(l)>> : l \in {{FinalLabel[p[1]], FinalLabel[p[2]]} : p \in apart}}
<1>4. ASSUME NEW p \in apart PROVE Of(p) = <<Min({FinalLabel[p[1]], FinalLabel[p[2]]}), Max({FinalLabel[p[1]], FinalLabel[p[2]]})>>
  <2>1. FinalLabel[p[1]] \in Nat /\ FinalLabel[p[2]] \in Nat
    BY <1>1, EntryIs
  <2> QED BY <2>1, KeyIsPair
<1>5. K = {Of(p) : p \in apart}
  <2>1. K = {<<Min({FinalLabel[p[1]], FinalLabel[p[2]]}), Max({FinalLabel[p[1]], FinalLabel[p[2]]})>> : p \in apart}
    OBVIOUS
  <2> HIDE DEF K, Of
  <2> QED BY <1>4, <2>1
<1>6. ASSUME NEW k \in DOMAIN outlet_db_dist PROVE k \in {Of(p) : p \in apart}
  <2>1. PICK p \in AllPairs : Parts(known, p) /\ k = EntryOf(known, p).key
    BY <1>2, <1>3
  <2>2. p \in Touching(Cells)
    BY AllPairsAre
  <2>3. p \in apart /\ k = Of(p)
    BY <1>1, <2>1, <2>2, EntryIs
  <2> QED BY <2>3
<1>7. ASSUME NEW p \in apart PROVE Of(p) \in DOMAIN outlet_db_dist
  <2>1. p \in Touching(Cells) /\ FinalLabel[p[1]] # FinalLabel[p[2]]
    OBVIOUS
  <2>2. PICK q \in AllPairs : q = p \/ q = <<p[2], p[1]>>
    BY <2>1, AllPairsAre
  <2>3. q \in Touching(Cells) /\ FinalLabel[q[1]] # FinalLabel[q[2]]
    BY <2>1, <2>2, AllPairsAre
  <2>4. Parts(known, q) /\ EntryOf(known, q).key = Of(q)
    BY <1>1, <2>3, EntryIs
  <2>5. Of(q) = Of(p)
    <3>1. PICK a \in Nat, b \in Nat : a = FinalLabel[p[1]] /\ b = FinalLabel[p[2]]
      BY <1>1, <2>1, EntryIs
    <3>2. KeyOf(a, b) = KeyOf(b, a)
      BY KeyIsPair
    <3>3. Of(p) = KeyOf(a, b) /\ (Of(q) = KeyOf(a, b) \/ Of(q) = KeyOf(b, a))
      BY <2>2, <3>1
    <3> QED BY <3>2, <3>3
  <2> QED BY <1>2, <1>3, <2>4, <2>5
<1>8. DOMAIN outlet_db_dist = K
  <2> HIDE DEF K, Of
  <2> QED BY <1>5, <1>6, <1>7
<1> QED BY <1>8

\* And each is the lowest between its labels.
LEMMA LowestKept ==
  ASSUME IInv, DataInv, AllMet, Lows(outlet_db_dist, Scan(AllPairs)), NEW key \in DOMAIN outlet_db_dist,
         NEW between, between = Crossings(FinalLabel, {key[1], key[2]})
  PROVE  outlet_db_dist[key].oelev = Lowest(between) /\ outlet_db_dist[key].ocell \in SpillCells(between)
<1>1. PICK known : known = Known(Cells)
  OBVIOUS
<1>2. Scan(AllPairs) = {EntryOf(known, p) : p \in {q \in AllPairs : Parts(known, q)}}
  BY <1>1, EntriesAre DEF Scan
<1>3. PICK e \in Scan(AllPairs) : /\ e.key = key /\ outlet_db_dist[key] = [oelev |-> e.oelev, ocell |-> e.ocell]
                                 /\ \A f \in Scan(AllPairs) : f.key = key => e.oelev <= f.oelev
  BY DEF Lows
<1>4. PICK p \in AllPairs : Parts(known, p) /\ e = EntryOf(known, p)
  BY <1>2
<1>5. p \in Touching(Cells)
  BY <1>4, AllPairsAre
<1>6. PICK a \in Nat, b \in Nat : a = FinalLabel[p[1]] /\ b = FinalLabel[p[2]] /\ a # b
  BY <1>1, <1>4, <1>5, EntryIs
<1>7. /\ key = KeyOf(a, b) /\ e.oelev = HeightOf(p) /\ HeightOf(p) \in Nat
      /\ e.ocell \in {p[1], p[2]} /\ elev[e.ocell] = HeightOf(p)
  BY <1>1, <1>3, <1>4, <1>5, <1>6, EntryIs
<1>8. {key[1], key[2]} = {a, b}
  BY <1>7, KeyIsPair
<1>9. between = {q \in Touching(Cells) : {FinalLabel[q[1]], FinalLabel[q[2]]} = {a, b}}
  BY <1>8 DEF Crossings
<1>10. p \in between
  BY <1>5, <1>6, <1>9
<1>11. ASSUME NEW q \in between PROVE HeightOf(q) \in Nat /\ HeightOf(p) <= HeightOf(q)
  <2>1. q \in Touching(Cells) /\ {FinalLabel[q[1]], FinalLabel[q[2]]} = {a, b}
    BY <1>9
  <2>2. HeightOf(q) \in Nat
    BY <1>1, <2>1, EntryIs
  <2>3. PICK s \in AllPairs : s = q \/ s = <<q[2], q[1]>>
    BY <2>1, AllPairsAre
  <2>4. s \in Touching(Cells) /\ {FinalLabel[s[1]], FinalLabel[s[2]]} = {a, b} /\ {s[1], s[2]} = {q[1], q[2]}
    BY <2>1, <2>3, AllPairsAre
  <2>5. FinalLabel[s[1]] # FinalLabel[s[2]] /\ FinalLabel[s[1]] \in {a, b} /\ FinalLabel[s[2]] \in {a, b}
    BY <1>6, <2>4
  <2>6. KeyOf(FinalLabel[s[1]], FinalLabel[s[2]]) = key
    <3>1. KeyOf(a, b) = KeyOf(b, a)
      BY KeyIsPair
    <3> QED BY <1>7, <2>5, <3>1
  <2>7. Parts(known, s) /\ EntryOf(known, s).key = key /\ EntryOf(known, s).oelev = HeightOf(s)
    BY <1>1, <2>4, <2>5, <2>6, EntryIs
  <2>8. EntryOf(known, s) \in Scan(AllPairs)
    BY <1>2, <2>7
  <2>9. HeightOf(p) <= HeightOf(s)
    BY <1>3, <1>7, <2>7, <2>8
  <2>10. HeightOf(s) = HeightOf(q)
    <3>1. {elev[s[1]], elev[s[2]]} = {elev[q[1]], elev[q[2]]}
      BY <2>3
    <3> QED BY <3>1 DEF HeightOf
  <2> QED BY <2>2, <2>9, <2>10
<1>12. Lowest(between) = HeightOf(p)
  <2>1. PICK T : T = {HeightOf(q) : q \in between}
    OBVIOUS
  <2>2. T \subseteq Nat /\ HeightOf(p) \in T /\ \A y \in T : HeightOf(p) <= y
    BY <1>10, <1>11, <2>1
  <2>3. Min(T) = HeightOf(p)
    BY <2>2, MinIs
  <2> QED BY <2>1, <2>3 DEF Lowest
<1>13. e.ocell \in SpillCells(between)
  <2>1. p \in {q \in between : HeightOf(q) = Lowest(between)}
    BY <1>10, <1>12
  <2>2. e.ocell \in UNION {{x[1], x[2]} : x \in {q \in between : HeightOf(q) = Lowest(between)}}
    BY <1>7, <2>1
  <2> QED BY <1>7, <1>12, <2>2 DEF SpillCells
<1> QED BY <1>3, <1>7, <1>12, <1>13

\* With the labels, the scans and the merge as they should be, no pass is lost.
LEMMA PassesKept == IInv /\ DataInv /\ OutletInv => CutsLoseNoPass
<1> SUFFICES ASSUME IInv, DataInv, OutletInv, Done PROVE CutsLoseNoPass
  BY DEF CutsLoseNoPass
<1>1. \A r \in Ranks : at(r) = 20
  BY TurnIs DEF Done, at
<1>2. AllMet /\ at(0) > 12
  BY <1>1, BesideIs DEF AllMet
<1>3. Lows(outlet_db_dist, Scan(AllPairs))
  BY <1>2 DEF OutletInv, MergedHolds
<1>4. PICK apart : apart = {q \in Touching(Cells) : FinalLabel[q[1]] # FinalLabel[q[2]]}
  OBVIOUS
<1>5. DOMAIN outlet_db_dist = {<<Min(l), Max(l)>> : l \in {{FinalLabel[p[1]], FinalLabel[p[2]]} : p \in apart}}
  BY <1>2, <1>3, <1>4, NoneLost
<1>6. ASSUME NEW key \in DOMAIN outlet_db_dist
      PROVE  /\ outlet_db_dist[key].oelev = Lowest(Crossings(FinalLabel, {key[1], key[2]}))
             /\ outlet_db_dist[key].ocell \in SpillCells(Crossings(FinalLabel, {key[1], key[2]}))
  BY <1>2, <1>3, LowestKept
<1> QED BY <1>4, <1>5, <1>6 DEF CutsLoseNoPass

\* Cutting the raster loses no pass, however it is cut and whatever the terrain:
\* once all ranks are done the merged database has an entry for two labels exactly
\* if they touch, with the lowest crossing between them (dephier_mpi.cpp,
\* OutletScanIntra, OutletScanSeam and mrg).
THEOREM CutsNeverLosePasses == Spec => []CutsLoseNoPass
BY OutletsAlways, PassesKept, PTL

-----------------------------------------------------------------------------
(***************************************************************************)
(* The walks of the tiles go down, from seam to seam.                      *)
(***************************************************************************)
\* A cell beside a tile is in the nearest column of the tile beside it.
LEMMA BesideTile ==
  ASSUME NEW r \in Ranks, NEW c \in Owned(r), NEW x \in Around(c), TileOf(x) # r
  PROVE  /\ x \in Cells /\ TileOf(x) \in Beside(r) /\ x \in SeamCells(TileOf(x))
         /\ x \in IF r = TileOf(x) + 1 THEN RightEdge(TileOf(x)) ELSE LeftEdge(TileOf(x))
<1>1. c \in Cells /\ TileOf(c) = r /\ x \in Cells /\ c \in Around(x)
  BY OwnedIs, TileIs, AroundIsMutual
<1>2. PICK t \in Ranks : t = TileOf(x) /\ t # r
  BY <1>1, TileIs
<1>3. r \in Nat /\ t \in Nat /\ ntiles \in Nat /\ r < ntiles /\ t < ntiles
  BY BoundsAre DEF Ranks
<1>4. CASE r < t
  <2>1. <<c, x>> \in AtSeam(r)
    BY <1>1, <1>2, <1>4, AcrossSeam
  <2>2. r + 1 \in Ranks /\ x \in LeftEdge(r + 1)
    BY <2>1 DEF AtSeam, Straddling
  <2>3. t = r + 1
    BY <1>2, <2>2, TileIs, BoundsAre DEF LeftEdge, Column, Owned, Between
  <2>4. t # 0 /\ t > 0 /\ r # t + 1
    BY <1>3, <2>3
  <2> QED BY <1>1, <1>2, <2>2, <2>3, <2>4 DEF Beside, SeamCells
<1>5. CASE t < r
  <2>1. <<x, c>> \in AtSeam(t)
    BY <1>1, <1>2, <1>5, AcrossSeam
  <2>2. t + 1 \in Ranks /\ x \in RightEdge(t) /\ c \in LeftEdge(t + 1)
    BY <2>1 DEF AtSeam, Straddling
  <2>3. r = t + 1
    BY <1>1, <2>2, TileIs, BoundsAre DEF LeftEdge, Column, Owned, Between
  <2>4. t < ntiles - 1 /\ t = r - 1
    BY <1>3, <2>3
  <2> QED BY <1>1, <1>2, <2>2, <2>3, <2>4 DEF Beside, SeamCells
<1> QED BY <1>2, <1>3, <1>4, <1>5

\* The columns that have come in, laid over one another.
LaidUp(m, S) == FoldSet(LAMBDA k, h : Over(First(m, k), h), <<>>, S)
InColumns(m, S) == UNION {DOMAIN First(m, k) : k \in S}

\* A part of a raster.
PartOf(f, t) == f = [c \in DOMAIN f |-> t[c]]

\* Messages of a raster, laid over each other, are the raster where they have it.
LEMMA LaidOver ==
  ASSUME NEW a, NEW b, NEW S, S \subseteq {a, b}, NEW m, NEW t,
         \A k \in S : PartOf(First(m, k), t)
  PROVE  PartOf(LaidUp(m, S), t) /\ DOMAIN LaidUp(m, S) = InColumns(m, S)
<1> DEFINE pick(s) == CHOOSE k \in s : TRUE
           rec(f) == [s \in SUBSET S |-> IF s = {} THEN <<>> ELSE Over(First(m, pick(s)), f[s \ {pick(s)}])]
           laid(s) == [c \in UNION {DOMAIN First(m, k) : k \in s} |-> t[c]]
           g == [s \in SUBSET S |-> laid(s)]
<1>1. laid({}) = <<>>
  OBVIOUS
<1>2. ASSUME NEW s \in SUBSET S, s # {} PROVE pick(s) \in s /\ Over(First(m, pick(s)), laid(s \ {pick(s)})) = laid(s)
  <2>1. pick(s) \in s
    BY <1>2
  <2> HIDE DEF pick
  <2>2. PICK k : k = pick(s)
    OBVIOUS
  <2>3. PICK d : d = DOMAIN First(m, k)
    OBVIOUS
  <2>4. First(m, k) = [c \in d |-> t[c]]
    BY <2>1, <2>2, <2>3 DEF PartOf
  <2>5. UNION {DOMAIN First(m, h) : h \in s} = d \cup UNION {DOMAIN First(m, h) : h \in s \ {k}}
    BY <2>1, <2>2, <2>3
  <2>6. DOMAIN laid(s \ {k}) = UNION {DOMAIN First(m, h) : h \in s \ {k}}
    OBVIOUS
  <2>7. \A c \in UNION {DOMAIN First(m, h) : h \in s \ {k}} : laid(s \ {k})[c] = t[c]
    OBVIOUS
  <2>8. PICK e : e = UNION {DOMAIN First(m, h) : h \in s \ {k}}
    OBVIOUS
  <2>9. laid(s) = [c \in d \cup e |-> t[c]]
    BY <2>5, <2>8
  <2>10. PICK u : u = laid(s \ {k})
    OBVIOUS
  <2>11. DOMAIN u = e /\ \A c \in e : u[c] = t[c]
    BY <2>6, <2>7, <2>8, <2>10
  <2>12. Over(First(m, k), u) = [c \in d \cup e |-> t[c]]
    BY <2>4, <2>11 DEF Over
  <2> QED BY <2>1, <2>2, <2>9, <2>10, <2>12
<1> HIDE DEF laid, pick
<1>3. g = rec(g)
  <2>1. ASSUME NEW s \in SUBSET S PROVE laid(s) = IF s = {} THEN <<>> ELSE Over(First(m, pick(s)), g[s \ {pick(s)}])
    <3>1. s \ {pick(s)} \in SUBSET S
      OBVIOUS
    <3>2. g[s \ {pick(s)}] = laid(s \ {pick(s)})
      BY <3>1
    <3> HIDE DEF g
    <3> QED BY <1>1, <1>2, <3>2
  <2> HIDE DEF laid
  <2> QED BY <2>1
<1>4. LaidUp(m, S) = (CHOOSE f : f = rec(f))[S]
  BY DEF LaidUp, FoldSet, MapThenFoldSet, pick
<1> HIDE DEF g
<1>5. PICK f : f = rec(f) /\ LaidUp(m, S) = f[S]
  <2>1. PICK f : f = CHOOSE h : h = rec(h)
    OBVIOUS
  <2> HIDE DEF rec
  <2>2. f = rec(f)
    BY <1>3, <2>1
  <2> QED BY <1>4, <2>1, <2>2
<1>6. f[{}] = laid({})
  BY <1>1, <1>5
<1>7. ASSUME NEW k \in S PROVE f[{k}] = laid({k})
  <2>1. {k} \in SUBSET S /\ pick({k}) = k /\ {k} \ {k} = {}
    BY <1>2
  <2>2. f[{k}] = Over(First(m, k), f[{}])
    BY <1>5, <2>1
  <2> QED BY <1>2, <1>6, <2>1, <2>2
<1>8. f[S] = laid(S)
  <2>1. CASE S = {}
    BY <1>6, <2>1
  <2>2. CASE S # {}
    <3>1. PICK k : k = pick(S)
      OBVIOUS
    <3>2. k \in S /\ Over(First(m, k), laid(S \ {k})) = laid(S)
      BY <1>2, <2>2, <3>1
    <3>3. S \ {k} = {} \/ \E h \in S : S \ {k} = {h}
      BY <3>2
    <3>4. f[S \ {k}] = laid(S \ {k})
      BY <1>6, <1>7, <3>3
    <3>5. f[S] = Over(First(m, k), f[S \ {k}])
      BY <1>5, <2>2, <3>1
    <3> QED BY <3>2, <3>4, <3>5
  <2> QED BY <2>1, <2>2
<1>9. LaidUp(m, S) = [c \in UNION {DOMAIN First(m, k) : k \in S} |-> t[c]]
  BY <1>5, <1>8 DEF laid
<1>10. LaidUp(m, S) = [c \in InColumns(m, S) |-> t[c]]
  BY <1>9 DEF InColumns
<1>11. DOMAIN LaidUp(m, S) = InColumns(m, S)
  BY <1>10
<1> QED BY <1>10, <1>11 DEF PartOf

\* Where a cell has a lower one beside it, the drain is one of them.
LEMMA DrainIsLower ==
  ASSUME NEW c \in Cells, NEW seen, \A n \in Around(c) : seen[n].elev \in Nat, Lower(c, seen) # {}
  PROVE  DrainOf(c, seen) \in Lower(c, seen)
<1> DEFINE L == Lower(c, seen)
           H == {seen[n].elev : n \in L}
<1>1. L \subseteq Around(c) /\ \A n \in L : n \in Nat /\ seen[n].elev \in Nat
  <2>1. L \subseteq Around(c) /\ Around(c) \subseteq Cells
    BY AroundIsMutual DEF Lower
  <2>2. \A n \in Cells : n \in Nat
    BY CellCount
  <2> QED BY <2>1, <2>2
<1>2. PICK h \in H : \A m \in H : h <= m
  <2>1. H \subseteq Nat /\ H # {}
    BY <1>1
  <2> HIDE DEF H
  <2> QED BY <2>1, Least
<1> DEFINE I == {n \in L : seen[n].elev = h}
           J == {Width * Height - n : n \in I}
<1>3. PICK j \in J : \A i \in J : j <= i
  <2>1. ASSUME NEW n \in I PROVE Width * Height - n \in Nat
    <3>1. n \in Cells
      BY <1>1, AroundIsMutual
    <3> QED BY <3>1, CellIs, CellCount DEF Cells, CellTotal
  <2>2. J \subseteq Nat /\ J # {}
    BY <1>2, <2>1
  <2> HIDE DEF J
  <2> QED BY <2>2, Least
<1>4. PICK n \in I : j = Width * Height - n
  BY <1>3
<1>5. \A m \in L \ {n} : seen[n].elev < seen[m].elev \/ (seen[n].elev = seen[m].elev /\ m < n)
  <2> SUFFICES ASSUME NEW m \in L \ {n}
               PROVE  seen[n].elev < seen[m].elev \/ (seen[n].elev = seen[m].elev /\ m < n)
    OBVIOUS
  <2>1. seen[n].elev = h /\ h <= seen[m].elev /\ seen[m].elev \in Nat /\ h \in Nat /\ m \in Nat /\ n \in Nat
    BY <1>1, <1>2, <1>4
  <2>2. CASE seen[m].elev = h
    <3>1. PICK p : p = Width * Height
      OBVIOUS
    <3>2. p - n <= p - m /\ p \in Nat
      <4>1. p - m \in J
        BY <2>2, <3>1
      <4>2. p \in Nat
        BY <3>1, CellCount DEF CellTotal
      <4> QED BY <1>3, <1>4, <3>1, <4>1, <4>2
    <3> QED BY <2>1, <2>2, <3>2
  <2> QED BY <2>1, <2>2
<1>6. n \in L
  BY <1>4
<1> HIDE DEF L
<1>7. \E k \in L : \A m \in L \ {k} : seen[k].elev < seen[m].elev \/ (seen[k].elev = seen[m].elev /\ m < k)
  BY <1>5, <1>6
<1> QED BY <1>7 DEF DrainOf, L

\* A cell over the seam that lies lower; a cell that drains there.
Exits(r, c, x) ==
  x \in Cells /\ TileOf(x) # r /\ x \in SeamCells(TileOf(x)) /\ terrain[x].elev < terrain[c].elev
Sheds(r, seen, c) == Lower(c, seen) # {} /\ ~ ToOcean(c, seen) /\ Exits(r, c, DrainOf(c, seen))

\* The BOUNDARY cells of a tile flow down among themselves, by d steps, to cells that
\* drain over the seam.
FallsSo(r, t, seen, d) ==
  LET C == Dammed(Owned(r), t)
  IN  \A c \in C :
        /\ d[c] \in Nat /\ d[c] < Cardinality(C)
        /\ IF t.flow[c] = NO_FLOW THEN Sheds(r, seen, c)
           ELSE t.flow[c] \in C /\ d[t.flow[c]] < d[c] /\ terrain[t.flow[c]].elev <= terrain[c].elev
FallHolds(r) == \E d : FallsSo(r, tile[r], Seen(r), d)

\* The walks of a tile all go over the seam, and down.
WalkSays(r, w) == DOMAIN w = Conduit(r) /\ \A c \in Conduit(r) : ~ w[c].terminal /\ Exits(r, c, w[c].exit)

\* A walk ends at a cell that drains over the seam.
LEMMA WalkFalls ==
  ASSUME TerrainHolds, NEW r \in Ranks, TileHolds(r, tile[r]), FallHolds(r), NEW c \in Conduit(r)
  PROVE  LET e == WalkEnd(r, c)
         IN  e \in Conduit(r) /\ Sheds(r, Seen(r), e) /\ terrain[e].elev <= terrain[c].elev
<1> DEFINE C == Conduit(r)
           V == Owned(r)
           Step1 == [x \in V |-> IF tile[r].label[x] # BOUNDARY \/ tile[r].flow[x] = NO_FLOW THEN x
                                 ELSE tile[r].flow[x]]
           H(x) == terrain[x].elev
           F(x) == tile[r].flow[x]
<1>1. PICK d : FallsSo(r, tile[r], Seen(r), d)
  BY DEF FallHolds
<1>0. C = Dammed(V, tile[r])
  BY DEF Conduit, Dammed
<1>2. \A x \in C : /\ d[x] \in Nat /\ d[x] < Cardinality(C)
                   /\ F(x) # NO_FLOW => F(x) \in C /\ d[F(x)] < d[x] /\ H(F(x)) <= H(x)
                   /\ F(x) = NO_FLOW => Sheds(r, Seen(r), x)
  BY <1>0, <1>1 DEF FallsSo
<1>3. PICK m \in Nat : m = Cardinality(V)
  BY OwnedIs, FS_CardinalityType
<1>4. PICK n \in Nat : n = m + 1
  BY <1>3
<1>5. C \subseteq V /\ IsFiniteSet(V) /\ V \subseteq Cells
  BY OwnedIs DEF Conduit
<1>6. PICK k \in Nat : k = Cardinality(C) /\ k <= m
  <2> HIDE DEF C, V
  <2> QED BY <1>3, <1>5, FS_Subset, FS_CardinalityType
<1>7. \A x \in C : H(x) \in Nat
  BY <1>5 DEF TerrainHolds
<1>8. c \in V
  BY <1>5
<1>9. PICK g : IsRun(g, n, V, c, Step1) /\ WalkEnd(r, c) = g[n]
  <2>1. \E g : IsRun(g, m + 1, V, c, Step1) /\ WalkEnd(r, c) = g[m + 1]
    BY <1>3, <1>8, WalkRuns
  <2> QED BY <1>4, <2>1
<1> DEFINE T == {i \in 0 .. n : /\ g[i] \in C /\ H(g[i]) <= H(c)
                                /\ F(g[i]) = NO_FLOW \/ d[g[i]] + i <= d[c]}
<1>10. 0 \in T
  <2>1. g[0] = c /\ 0 \in 0 .. n
    BY <1>9 DEF IsRun
  <2>2. d[c] \in Nat /\ H(c) \in Nat
    BY <1>2, <1>7
  <2>3. d[c] + 0 <= d[c] /\ H(c) <= H(c)
    BY <2>2
  <2> QED BY <2>1, <2>3
<1>11. ASSUME NEW i \in 0 .. n - 1, i \in T PROVE i + 1 \in T
  <2>1. i + 1 \in 1 .. n /\ i + 1 \in 0 .. n /\ (i + 1) - 1 = i /\ i \in Nat
    OBVIOUS
  <2>2. PICK x : x = g[i]
    OBVIOUS
  <2>3. x \in C /\ H(x) <= H(c) /\ (F(x) = NO_FLOW \/ d[x] + i <= d[c])
    BY <1>11, <2>2
  <2>4. g[i + 1] = Step1[x]
    BY <1>9, <2>1, <2>2 DEF IsRun
  <2>5. x \in V /\ tile[r].label[x] = BOUNDARY
    BY <2>3 DEF Conduit
  <2>6. g[i + 1] = IF F(x) = NO_FLOW THEN x ELSE F(x)
    BY <2>4, <2>5
  <2>7. CASE F(x) = NO_FLOW
    BY <2>1, <2>3, <2>6, <2>7
  <2>8. CASE F(x) # NO_FLOW
    <3>1. PICK y : y = F(x)
      OBVIOUS
    <3>2. y \in C /\ d[y] < d[x] /\ H(y) <= H(x) /\ g[i + 1] = y
      BY <1>2, <2>3, <2>6, <2>8, <3>1
    <3>3. d[y] \in Nat /\ d[x] \in Nat /\ d[c] \in Nat /\ H(y) \in Nat /\ H(x) \in Nat /\ H(c) \in Nat
      BY <1>2, <1>7, <2>3, <3>2
    <3>4. d[x] + i <= d[c]
      BY <2>3, <2>8
    <3>5. d[y] + (i + 1) <= d[c] /\ H(y) <= H(c)
      <4> HIDE DEF H
      <4> QED BY <2>1, <2>3, <3>2, <3>3, <3>4
    <3> QED BY <2>1, <3>2, <3>5
  <2> QED BY <2>7, <2>8
<1>12. n \in T
  <2> HIDE DEF T
  <2>1. 0 .. n \subseteq T
    BY <1>10, <1>11, Upwards
  <2> QED BY <2>1
<1>13. PICK e : e = g[n]
  OBVIOUS
<1>14. e \in C /\ H(e) <= H(c) /\ (F(e) = NO_FLOW \/ d[e] + n <= d[c])
  BY <1>12, <1>13
<1>15. F(e) = NO_FLOW
  <2>1. d[e] \in Nat /\ d[c] \in Nat /\ d[c] < k
    BY <1>2, <1>6, <1>14
  <2>2. ~ (d[e] + n <= d[c])
    BY <1>4, <1>6, <2>1
  <2> QED BY <1>14, <2>2
<1> QED BY <1>2, <1>9, <1>13, <1>14, <1>15

\* So do the walks of the rank say.
LEMMA WalksSay ==
  ASSUME TerrainHolds, NEW r \in Ranks, TileHolds(r, tile[r]), FallHolds(r)
  PROVE  WalkSays(r, Walks(r))
<1>1. PICK seen : seen = Seen(r)
  OBVIOUS
<1>2. Walks(r) = [c \in Conduit(r) |-> LocalWalk(r, c)]
  BY DEF Walks, Conduit
<1>3. ASSUME NEW c \in Conduit(r) PROVE ~ LocalWalk(r, c).terminal /\ Exits(r, c, LocalWalk(r, c).exit)
  <2>1. PICK e : e = WalkEnd(r, c)
    OBVIOUS
  <2>2. e \in Conduit(r) /\ Sheds(r, seen, e) /\ terrain[e].elev <= terrain[c].elev
    BY <1>1, <2>1, WalkFalls
  <2>3. tile[r].label[e] = BOUNDARY /\ Lower(e, seen) # {} /\ ~ ToOcean(e, seen)
    BY <2>2 DEF Conduit, Sheds
  <2>4. PICK x : x = DrainOf(e, seen)
    OBVIOUS
  <2>5. LocalWalk(r, c) = [terminal |-> FALSE, label |-> 0, exit |-> x]
    BY <1>1, <2>1, <2>3, <2>4 DEF LocalWalk
  <2>6. Exits(r, e, x)
    BY <2>2, <2>4 DEF Sheds
  <2>7. x \in Cells /\ TileOf(x) # r /\ x \in SeamCells(TileOf(x)) /\ terrain[x].elev < terrain[e].elev
    BY <2>6 DEF Exits
  <2>8. terrain[x].elev \in Nat /\ terrain[e].elev \in Nat /\ terrain[c].elev \in Nat
    BY <2>2, <2>7, OwnedIs DEF Conduit, TerrainHolds
  <2>9. Exits(r, c, x)
    BY <2>2, <2>7, <2>8 DEF Exits
  <2> QED BY <2>5, <2>9
<1> QED BY <1>2, <1>3 DEF WalkSays

\* The flood of a tile that is seen with the cells beside it.
LEMMA FloodSheds ==
  ASSUME TerrainHolds, NEW r \in Ranks, NEW seen,
         \A c \in Owned(r) : seen[c] = terrain[c] /\ \A n \in Around(c) : seen[n] = terrain[n],
         NEW given, given = [c \in Owned(r) |-> IF seen[c].ocean THEN OCEAN
                                                ELSE IF c \in Marked(r, seen) THEN BOUNDARY ELSE NO_DEP],
         NEW t, t = Flooded(Owned(r), [c \in Owned(r) |-> seen[c].elev], given)
  PROVE  \E d : FallsSo(r, t, seen, d)
<1> DEFINE W == Owned(r)
           E == [c \in W |-> seen[c].elev]
<1>1. W \in SUBSET Cells
  BY OwnedIs
<1>2. \A c \in W : E[c] = terrain[c].elev /\ E[c] \in Nat
  BY <1>1 DEF TerrainHolds
<1>3. given = [c \in W |-> given[c]] /\ \A c \in W : given[c] \in {OCEAN, BOUNDARY, NO_DEP}
  <2>1. DOMAIN given = W
    OBVIOUS
  <2>2. given = [c \in W |-> given[c]]
    BY <2>1
  <2>3. ASSUME NEW c \in W PROVE given[c] \in {OCEAN, BOUNDARY, NO_DEP}
    OBVIOUS
  <2> QED BY <2>2, <2>3
<1>4. ASSUME NEW c \in W, given[c] = BOUNDARY PROVE Sheds(r, seen, c)
  <2>1. BOUNDARY # OCEAN /\ BOUNDARY # NO_DEP
    <3>1. PICK m \in Nat : m = Width * Height
      BY CellCount DEF CellTotal
    <3>2. m < BOUNDARY /\ BOUNDARY < NO_DEP /\ BOUNDARY \in Nat /\ NO_DEP \in Nat
      BY <3>1, LabelAssumption
    <3> QED BY <3>2 DEF OCEAN
  <2>2. c \in Marked(r, seen)
    BY <1>4, <2>1
  <2>3. Lower(c, seen) # {} /\ ~ ToOcean(c, seen) /\ TileOf(DrainOf(c, seen)) # r
    BY <2>2 DEF Marked
  <2>4. PICK x : x = DrainOf(c, seen)
    OBVIOUS
  <2>5. \A n \in Around(c) : seen[n].elev \in Nat
    BY <1>1, AroundIsMutual DEF TerrainHolds
  <2>6. x \in Lower(c, seen) /\ c \in Cells
    BY <1>1, <2>3, <2>4, <2>5, DrainIsLower
  <2>7. x \in Around(c) /\ seen[x].elev < seen[c].elev
    BY <2>6 DEF Lower
  <2>8. terrain[x].elev < terrain[c].elev
    BY <2>7
  <2>9. x \in Cells /\ x \in SeamCells(TileOf(x)) /\ TileOf(x) # r
    BY <2>3, <2>4, <2>7, BesideTile
  <2>10. Exits(r, c, x)
    BY <2>8, <2>9 DEF Exits
  <2> QED BY <2>3, <2>4, <2>10 DEF Sheds
<1> HIDE DEF E
<1>5. PICK d : Drains(W, E, given, t, d)
  <2>1. \E d : Drains(W, E, given, Flooded(W, E, given), d)
    BY <1>1, <1>2, <1>3, FloodFalls
  <2> QED BY <2>1 DEF E
<1>6. FallsSo(r, t, seen, d)
  <2>1. ASSUME NEW c \in Dammed(W, t)
        PROVE  /\ d[c] \in Nat /\ d[c] < Cardinality(Dammed(W, t))
               /\ IF t.flow[c] = NO_FLOW THEN Sheds(r, seen, c)
                  ELSE t.flow[c] \in Dammed(W, t) /\ d[t.flow[c]] < d[c] /\ terrain[t.flow[c]].elev <= terrain[c].elev
    <3>1. /\ c \in W /\ d[c] \in Nat /\ d[c] < Cardinality(Dammed(W, t))
          /\ IF given[c] = BOUNDARY THEN t.flow[c] = NO_FLOW
             ELSE t.flow[c] \in Dammed(W, t) /\ E[t.flow[c]] <= E[c] /\ d[t.flow[c]] < d[c]
      BY <1>5 DEF Drains, Dammed
    <3>2. CASE given[c] = BOUNDARY
      BY <1>4, <3>1, <3>2
    <3>3. CASE given[c] # BOUNDARY
      <4>1. t.flow[c] \in Dammed(W, t) /\ E[t.flow[c]] <= E[c] /\ d[t.flow[c]] < d[c]
        BY <3>1, <3>3
      <4>2. t.flow[c] \in W
        BY <4>1 DEF Dammed
      <4>3. t.flow[c] # NO_FLOW
        BY <1>1, <4>2, LabelAssumption
      <4> QED BY <1>2, <3>1, <4>1, <4>2, <4>3
    <3> QED BY <3>2, <3>3
  <2> QED BY <2>1 DEF FallsSo
<1> QED BY <1>6

-----------------------------------------------------------------------------
\* What a rank is sent of its neighbours' columns, and rank 0 of the walks.
SinkTags == {"strip", "lw"}
SinkSays(s, r, tag, v) ==
  /\ tag = "strip" => v = Restrict(terrain, IF r = s + 1 THEN RightEdge(s) ELSE LeftEdge(s))
  /\ tag = "lw" => WalkSays(s, v)
SinkTold(key, v) == SinkSays(key[1], key[2], key[3], v)
SinkMail == \A key \in Keys : \A v : Waiting(mail, key) # <<>> /\ v = Waiting(mail, key)[1] => SinkTold(key, v)

\* All walks of all tiles go over a seam, and down.
AllGo(w) ==
  /\ DOMAIN w = UNION {Conduit(t) : t \in Ranks}
  /\ \A t \in Ranks : \A c \in Conduit(t) : ~ w[c].terminal /\ Exits(t, c, w[c].exit)

\* From the flood on a tile sheds its conduits over the seams, and rank 0 learns that of
\* all tiles.
SinkInv ==
  /\ DOMAIN halo = Ranks
  /\ \A r \in Ranks : at(r) > 1 => FallHolds(r)
  /\ at(0) = 4 => WalkSays(0, walked)
  /\ at(0) > 4 => AllGo(walked)
  /\ SinkMail

\* What no step changes once a tile is flooded.
Settles == terrain' = terrain /\ \A q \in Ranks : at(q) > 1 => tile'[q] = tile[q] /\ halo'[q] = halo[q]

\* So what is said of the tile stays.
LEMMA TileSettled ==
  ASSUME NEW q \in Ranks, terrain' = terrain, tile'[q] = tile[q]
  PROVE  Conduit(q)' = Conduit(q) /\ \A w : WalkSays(q, w) => WalkSays(q, w)'
<1>1. Conduit(q)' = Conduit(q)
  BY DEF Conduit
<1>2. \A c, x : Exits(q, c, x)' <=> Exits(q, c, x)
  BY DEF Exits
<1> QED BY <1>1, <1>2 DEF WalkSays

\* What is said of a flooded tile outlasts a step that leaves it alone.
LEMMA FallSettled ==
  ASSUME NEW q \in Ranks, FallHolds(q), terrain' = terrain, tile'[q] = tile[q], halo'[q] = halo[q]
  PROVE  FallHolds(q)'
<1>1. PICK seen : seen = Seen(q) /\ seen = Seen(q)'
  BY DEF Seen
<1>2. PICK t : t = tile[q]
  OBVIOUS
<1>3. PICK d : FallsSo(q, t, seen, d)
  BY <1>1, <1>2 DEF FallHolds
<1>4. \A c : Sheds(q, seen, c) => Sheds(q, seen, c)'
  BY DEF Sheds, Exits
<1>5. FallsSo(q, t, seen, d)'
  BY <1>3, <1>4 DEF FallsSo
<1> QED BY <1>1, <1>2, <1>5 DEF FallHolds

\* Rank 0 has resolved the conduits only when all ranks have walked theirs.
LEMMA AllWalked ==
  ASSUME IInv, at(0) > 4
  PROVE  \A q \in Ranks : at(q) > 3
<1> SUFFICES ASSUME NEW q \in Ranks PROVE at(q) > 3
  OBVIOUS
<1>1. CASE q = 0
  <2>1. at(0) \in 0 .. 20
    BY BesideIs, NowType DEF IInv
  <2> QED BY <1>1, <2>1
<1>2. CASE q # 0
  <2>1. PICK key : key = <<q, 0, "lw">>
    OBVIOUS
  <2>2. key \in Keys /\ key[3] \notin Rounds /\ ~ Unused(key)
    BY <1>2, <2>1, BesideIs DEF Keys, Route, Tags, ReportTags, Rounds, Unused
  <2>3. SendTurn(key) = 3 /\ TakeTurn(key) = 4
    BY <2>1 DEF SendTurn, TakeTurn
  <2>4. at(key[2]) > TakeTurn(key) => at(key[1]) > SendTurn(key)
    BY <2>2, ChannelOnce
  <2> QED BY <2>1, <2>3, <2>4
<1> QED BY <1>1, <1>2

\* And a rank goes on only when rank 0 has.
LEMMA ZeroResolved ==
  ASSUME IInv, NEW r \in Ranks, at(r) > 4
  PROVE  at(0) > 4
<1>1. CASE r = 0
  BY <1>1
<1>2. CASE r # 0
  <2>1. PICK key : key = <<0, r, "resolved">>
    OBVIOUS
  <2>2. key \in Keys /\ key[3] \notin Rounds /\ ~ Unused(key)
    BY <1>2, <2>1, BesideIs DEF Keys, Route, Tags, ReplyTags, Rounds, Unused
  <2>3. SendTurn(key) = 4 /\ TakeTurn(key) = 4
    BY <2>1 DEF SendTurn, TakeTurn
  <2>4. at(key[2]) > TakeTurn(key) => at(key[1]) > SendTurn(key)
    BY <2>2, ChannelOnce
  <2> QED BY <2>1, <2>3, <2>4
<1> QED BY <1>1, <1>2

\* What a message says of the conduits does not change while it is under way.
LEMMA SinkStaysTold ==
  ASSUME IInv, Settles, NEW key \in Keys, Waiting(mail, key) # <<>>, NEW v, SinkTold(key, v)
  PROVE  SinkTold(key, v)'
<1>1. PICK s \in Ranks : s = key[1]
  BY KeyIs
<1>2. PICK r, tag : r = key[2] /\ tag = key[3]
  OBVIOUS
<1>3. SinkSays(s, r, tag, v) /\ terrain' = terrain
  BY <1>1, <1>2 DEF SinkTold, Settles
<1>4. SinkTold(key, v)' <=> SinkSays(s, r, tag, v)'
  BY <1>1, <1>2 DEF SinkTold
<1>5. CASE tag # "lw"
  BY <1>3, <1>4, <1>5 DEF SinkSays
<1>6. CASE tag = "lw"
  <2>1. key[3] \notin Rounds /\ SendTurn(key) = 3
    BY <1>2, <1>6 DEF Rounds, SendTurn
  <2>2. at(s) > 3 /\ at(s) \in 0 .. 20
    BY <1>1, <2>1, ChannelOnce, NowType DEF IInv
  <2>3. at(s) > 1
    BY <2>2
  <2>4. tile'[s] = tile[s]
    BY <2>3 DEF Settles
  <2>5. WalkSays(s, v)'
    BY <1>3, <1>6, <2>4, TileSettled DEF SinkSays
  <2> QED BY <1>4, <1>6, <2>5 DEF SinkSays
<1> QED BY <1>5, <1>6

\* What rank 0 knows of the walks stays while it is at its turn, or past it.
LEMMA WalksStay ==
  ASSUME IInv, SinkInv, Settles, walked' = walked
  PROVE  /\ at(0) = 4 => WalkSays(0, walked)'
         /\ at(0) > 4 => AllGo(walked)'
<1>0. 0 \in Ranks
  BY BesideIs
<1>1. ASSUME at(0) = 4 PROVE WalkSays(0, walked)'
  <2>1. PICK w : w = walked /\ w = walked'
    OBVIOUS
  <2>2. WalkSays(0, w) /\ terrain' = terrain /\ tile'[0] = tile[0]
    BY <1>0, <1>1, <2>1 DEF SinkInv, Settles
  <2>3. WalkSays(0, w)'
    BY <1>0, <2>2, TileSettled
  <2> QED BY <2>1, <2>3
<1>2. ASSUME at(0) > 4 PROVE AllGo(walked)'
  <2>1. PICK w : w = walked /\ w = walked'
    OBVIOUS
  <2>2. AllGo(w)
    BY <1>2, <2>1 DEF SinkInv
  <2>3. ASSUME NEW q \in Ranks PROVE tile'[q] = tile[q] /\ terrain' = terrain
    <3>1. at(q) > 3 /\ at(q) \in 0 .. 20
      BY <1>2, AllWalked, NowType DEF IInv
    <3>2. at(q) > 1
      BY <3>1
    <3> QED BY <3>2 DEF Settles
  <2>4. \A q \in Ranks : Conduit(q)' = Conduit(q)
    BY <2>3, TileSettled
  <2>5. \A q \in Ranks : \A c, x : Exits(q, c, x)' <=> Exits(q, c, x)
    BY <1>0, <2>3 DEF Exits
  <2>6. AllGo(w)'
    BY <2>2, <2>4, <2>5 DEF AllGo
  <2> QED BY <2>1, <2>6
<1> QED BY <1>1, <1>2

\* A step of a rank keeps the conduits if what it has, and what it sends, is as it should be.
LEMMA SinkCarry ==
  ASSUME IInv, IInv', SinkInv, NEW r \in Ranks, NEW msgs, Moved(r, msgs), NEW x, pc' = [pc EXCEPT ![r] = x],
         Settles, DOMAIN halo' = Ranks, (at(r) > 1 => FallHolds(r))',
         (at(0) = 4 => WalkSays(0, walked))', (at(0) > 4 => AllGo(walked))',
         \A key \in DOMAIN msgs : key[3] \in SinkTags => SinkTold(key, msgs[key])'
  PROVE  SinkInv'
<1>1. \A q \in Ranks \ {r} : at(q)' = at(q)
  BY StepsTo
<1>2. ASSUME NEW q \in Ranks PROVE (at(q) > 1 => FallHolds(q))'
  <2>1. CASE q = r
    BY <2>1
  <2>2. CASE q # r
    <3>1. SUFFICES ASSUME at(q)' > 1 PROVE FallHolds(q)'
      OBVIOUS
    <3>2. at(q) > 1
      BY <1>1, <2>2, <3>1
    <3>3. FallHolds(q) /\ terrain' = terrain /\ tile'[q] = tile[q] /\ halo'[q] = halo[q]
      BY <3>2 DEF SinkInv, Settles
    <3> QED BY <3>3, FallSettled
  <2> QED BY <2>1, <2>2
<1>3. ASSUME NEW key \in Keys, NEW v, Waiting(mail, key)' # <<>>, v = Waiting(mail, key)'[1] PROVE SinkTold(key, v)'
  <2>1. CASE key[3] \notin SinkTags
    BY <2>1 DEF SinkTold, SinkSays, SinkTags
  <2>2. CASE key[3] \in SinkTags
    <3>1. key[3] \notin Rounds
      BY <2>2 DEF Rounds, SinkTags
    <3>2. CASE key \in DOMAIN msgs /\ Waiting(mail, key)'[1] = msgs[key]
      <4>1. SinkTold(key, msgs[key])'
        BY <2>2, <3>2
      <4>2. v = msgs[key]
        BY <1>3, <3>2
      <4> QED BY <4>1, <4>2
    <3>3. CASE Waiting(mail, key)' = Waiting(mail, key)
      <4>1. v = Waiting(mail, key)[1]
        BY <1>3, <3>3
      <4>2. Waiting(mail, key) # <<>>
        BY <1>3, <3>3
      <4>3. SinkTold(key, v)
        BY <4>1, <4>2 DEF SinkInv, SinkMail
      <4>4. SinkTold(key, v)'
        BY <4>2, <4>3, SinkStaysTold
      <4> QED BY <4>4
    <3> QED BY <1>3, <3>1, <3>2, <3>3, NewMail
  <2> QED BY <2>1, <2>2
<1>4. SinkMail'
  BY <1>3 DEF SinkMail
<1> QED BY <1>2, <1>4 DEF SinkInv

\* A step that leaves the tiles and the walks alone.
LEMMA SinkQuiet ==
  ASSUME IInv, IInv', SinkInv, NEW r \in Ranks, NEW msgs, Moved(r, msgs), NEW x, pc' = [pc EXCEPT ![r] = x],
         terrain' = terrain, halo' = halo, tile' = tile, walked' = walked,
         at(r) > 1 \/ Turn(x) = 1, r = 0 => Turn(x) < 4,
         \A key \in DOMAIN msgs : key[3] \in SinkTags => SinkTold(key, msgs[key])'
  PROVE  SinkInv'
<1>1. at(r)' = Turn(x) /\ \A q \in Ranks \ {r} : at(q)' = at(q)
  BY StepsTo
<1>2. Settles /\ DOMAIN halo' = Ranks
  BY DEF Settles, SinkInv
<1>3. (at(r) > 1 => FallHolds(r))'
  <2>1. CASE at(r) > 1
    <3>1. FallHolds(r)
      BY <2>1 DEF SinkInv
    <3> QED BY <3>1, FallSettled
  <2>2. CASE Turn(x) = 1
    BY <1>1, <2>2
  <2> QED BY <2>1, <2>2
<1>4. (at(0) = 4 => WalkSays(0, walked))' /\ (at(0) > 4 => AllGo(walked))'
  <2>1. CASE r = 0
    <3>1. Turn(x) \in 0 .. 20 /\ Turn(x) < 4
      BY <2>1, TurnType
    <3>2. Turn(x) # 4 /\ ~ (Turn(x) > 4)
      BY <3>1
    <3> QED BY <1>1, <2>1, <3>2
  <2>2. CASE r # 0
    <3>1. at(0)' = at(0)
      BY <1>1, <2>2, BesideIs
    <3> QED BY <1>2, <3>1, WalksStay
  <2> QED BY <2>1, <2>2
<1> QED BY <1>2, <1>3, <1>4, SinkCarry

\* Once the conduits are resolved nothing is under way that says anything of them.
LEMMA SinksDone ==
  ASSUME IInv, at(0) > 4
  PROVE  SinkMail
<1>1. ASSUME NEW key \in Keys, Waiting(mail, key) # <<>> PROVE key[3] \notin SinkTags
  <2>1. SUFFICES ASSUME key[3] \in SinkTags PROVE FALSE
    OBVIOUS
  <2>2. key[3] \notin Rounds /\ key[2] \in Ranks
    BY <2>1, KeyIs DEF SinkTags, Rounds
  <2>3. at(key[2]) <= TakeTurn(key) /\ at(key[2]) \in 0 .. 20 /\ at(key[2]) > 3 /\ at(0) \in 0 .. 20
    BY <1>1, <2>2, ChannelOnce, AllWalked, NowType, BesideIs DEF IInv
  <2>4. CASE key[3] = "strip"
    <3>1. TakeTurn(key) = 1
      BY <2>4 DEF TakeTurn
    <3> QED BY <2>3, <3>1
  <2>5. CASE key[3] = "lw"
    <3>1. TakeTurn(key) = 4
      BY <2>5 DEF TakeTurn
    <3>2. key[2] = 0
      BY <2>5, KeyIs DEF Route, ReplyTags
    <3>3. at(0) <= 4 /\ at(0) \in 0 .. 20
      BY <2>3, <3>1, <3>2
    <3> QED BY <3>3
  <2> QED BY <2>1, <2>4, <2>5 DEF SinkTags
<1> QED BY <1>1 DEF SinkMail, SinkTold, SinkSays, SinkTags

\* And so it is after a step.
LEMMA SinksDoneThen == (IInv /\ at(0) > 4)' => SinkMail'
<1>1. IInv /\ at(0) > 4 => SinkMail
  BY SinksDone
<1> QED BY <1>1, PTL

\* From then on all stays as it is.
LEMMA RestSinks ==
  ASSUME IInv, IInv', SinkInv, at(0) > 4, at(0)' > 4, terrain' = terrain, halo' = halo, tile' = tile, walked' = walked
  PROVE  SinkInv'
<1>1. SinkMail'
  BY SinksDoneThen
<1>2. Settles
  BY DEF Settles
<1>3. ASSUME NEW q \in Ranks PROVE FallHolds(q)'
  <2>1. at(q) > 3 /\ at(q) \in 0 .. 20
    BY AllWalked, NowType DEF IInv
  <2>2. at(q) > 1
    BY <2>1
  <2>3. FallHolds(q)
    BY <2>2 DEF SinkInv
  <2> QED BY <2>3, FallSettled
<1>4. AllGo(walked)'
  BY <1>2, WalksStay
<1>5. at(0)' # 4
  <2>1. PICK n : n = at(0)'
    OBVIOUS
  <2>2. n \in 0 .. 20 /\ n > 4
    BY <2>1, TurnType DEF at
  <2> QED BY <2>1, <2>2
<1> QED BY <1>1, <1>3, <1>4, <1>5 DEF SinkInv

-----------------------------------------------------------------------------
\* setup_tile up to the receives.
LEMMA SendStripsSinks ==
  ASSUME IInv, IInv', SinkInv, NEW r \in Ranks, SendStrips(r)
  PROVE  SinkInv'
<1>1. /\ pc[r] = "start" /\ pc' = [pc EXCEPT ![r] = "halo"] /\ mail' = Sent(mail, Strips(r))
      /\ terrain' = terrain /\ halo' = halo /\ tile' = tile /\ walked' = walked
  BY DEF SendStrips, At, floodVars, startVars
<1>2. PICK x : x = "halo"
  OBVIOUS
<1>3. Turn(x) = 1 /\ pc' = [pc EXCEPT ![r] = x]
  BY <1>1, <1>2, TurnIs
<1>4. PICK msgs : msgs = Strips(r)
  OBVIOUS
<1>5. DOMAIN msgs = {<<r, s, "strip">> : s \in Beside(r)}
  BY <1>4 DEF Strips
<1>6. DOMAIN msgs \subseteq Keys /\ \A key \in DOMAIN msgs : key[1] = r /\ key[3] = "strip"
  BY <1>5, SeamKeysAre
<1>7. Moved(r, msgs)
  BY <1>1, <1>4, <1>6, AwaitsNone, MailSent
<1>8. ASSUME NEW key \in DOMAIN msgs PROVE SinkTold(key, msgs[key])'
  <2>1. PICK v : v = msgs[key]
    OBVIOUS
  <2>2. v = Restrict(terrain, IF key[2] = r + 1 THEN RightEdge(r) ELSE LeftEdge(r))
    BY <1>4, <1>5, <2>1 DEF Strips
  <2>3. SinkTold(key, v)'
    BY <1>1, <1>6, <2>2 DEF SinkTold, SinkSays
  <2> QED BY <2>1, <2>3
<1>9. \A key \in DOMAIN msgs : key[3] \in SinkTags => SinkTold(key, msgs[key])'
  BY <1>8
<1>10. (at(r) > 1 \/ Turn(x) = 1) /\ (r = 0 => Turn(x) < 4)
  BY <1>3
<1> QED BY <1>1, <1>3, <1>7, <1>9, <1>10, SinkQuiet

\* A rank learns its offset; rank 0 has numbered the tiles.
LEMMA TakeOffsetSinks ==
  ASSUME IInv, IInv', SinkInv, NEW r \in Ranks, TakeOffset(r)
  PROVE  SinkInv'
<1>1. /\ pc[r] = "offset" /\ Has(mail, Awaited(r)) /\ pc' = [pc EXCEPT ![r] = "walk"] /\ mail' = Receive(mail, Awaited(r))
      /\ terrain' = terrain /\ halo' = halo /\ tile' = tile /\ walked' = walked
  BY DEF TakeOffset, At, startVars
<1>2. PICK x : x = "walk"
  OBVIOUS
<1>3. Turn(x) = 3 /\ at(r) = 2 /\ pc' = [pc EXCEPT ![r] = x]
  BY <1>1, <1>2, TurnIs DEF at
<1>4. Turn(x) < 4 /\ at(r) > 1
  BY <1>3
<1>5. Moved(r, NoMail)
  BY <1>1, MailTaken
<1>6. DOMAIN NoMail = {}
  BY DEF NoMail
<1> QED BY <1>1, <1>3, <1>4, <1>5, <1>6, SinkQuiet

\* So too when rank 0 numbers them.
LEMMA NumberTilesSinks ==
  ASSUME IInv, IInv', SinkInv, NumberTiles
  PROVE  SinkInv'
<1>0. 0 \in Ranks
  BY BesideIs
<1>1. PICK msgs : msgs = [key \in FromZero("offset") |-> LabelOffsets[key[2]]]
  OBVIOUS
<1>2. /\ pc[0] = "counts" /\ Has(mail, Awaited(0)) /\ pc' = [pc EXCEPT ![0] = "walk"]
      /\ mail' = Sent(Receive(mail, Awaited(0)), msgs)
      /\ terrain' = terrain /\ halo' = halo /\ tile' = tile /\ walked' = walked
  BY <1>1 DEF NumberTiles, At, startVars
<1>3. PICK x : x = "walk"
  OBVIOUS
<1>4. Turn(x) = 3 /\ at(0) = 2 /\ pc' = [pc EXCEPT ![0] = x]
  BY <1>2, <1>3, TurnIs DEF at
<1>5. Turn(x) < 4 /\ at(0) > 1
  BY <1>4
<1>6. DOMAIN msgs = FromZero("offset")
  BY <1>1
<1>7. DOMAIN msgs \subseteq Keys /\ \A key \in DOMAIN msgs : key[3] = "offset"
  BY <1>6, ReplyIs DEF ReplyTags, FromZero
<1>8. Moved(0, msgs)
  BY <1>0, <1>2, <1>7, MailTakenSent
<1>9. \A key \in DOMAIN msgs : key[3] \notin SinkTags
  BY <1>7 DEF SinkTags
<1> QED BY <1>0, <1>2, <1>4, <1>5, <1>8, <1>9, SinkQuiet

\* What a rank has been sent by its neighbours is the column beside its own.
LEMMA ColumnsAre ==
  ASSUME IInv, SinkInv, TerrainHolds, NEW r \in Ranks, pc[r] = "halo", Has(mail, Awaited(r)),
         NEW columns, columns = LaidUp(mail, Awaited(r)),
         NEW seen, seen = Over(Restrict(terrain, Owned(r)), columns)
  PROVE  \A c \in Owned(r) : seen[c] = terrain[c] /\ \A n \in Around(c) : seen[n] = terrain[n]
<1> DEFINE edge(k) == IF k[2] = k[1] + 1 THEN RightEdge(k[1]) ELSE LeftEdge(k[1])
<1>1. PICK S : S = Awaited(r)
  OBVIOUS
<1>2. S = {<<s, r, "strip">> : s \in Beside(r)}
  BY <1>1 DEF Awaited
<1>3. PICK a, b : a = <<r - 1, r, "strip">> /\ b = <<r + 1, r, "strip">>
  OBVIOUS
<1>4. S \subseteq {a, b}
  BY <1>2, <1>3 DEF Beside
<1>5. PICK m : m = mail
  OBVIOUS
<1>6. ASSUME NEW k \in S PROVE First(m, k) = Restrict(terrain, edge(k))
  <2>1. k \in DOMAIN mail
    BY <1>1 DEF Has
  <2>2. k \in Keys /\ Waiting(mail, k) # <<>> /\ First(mail, k) = Waiting(mail, k)[1]
    BY <2>1, WaitingIs DEF IInv, Shapes
  <2>3. PICK v : v = First(mail, k)
    OBVIOUS
  <2>4. SinkTold(k, v)
    BY <2>2, <2>3 DEF SinkInv, SinkMail
  <2>5. k[3] = "strip"
    <3>1. PICK s \in Beside(r) : k = <<s, r, "strip">>
      BY <1>2
    <3> QED BY <3>1
  <2> QED BY <1>5, <2>3, <2>4, <2>5 DEF SinkTold, SinkSays
<1>7. ASSUME NEW k \in S PROVE DOMAIN First(m, k) = edge(k) /\ First(m, k) = [c \in DOMAIN First(m, k) |-> terrain[c]]
  <2>1. First(m, k) = [c \in edge(k) |-> terrain[c]]
    BY <1>6 DEF Restrict
  <2> HIDE DEF edge
  <2> QED BY <2>1
<1>8. PICK t : t = terrain
  OBVIOUS
<1>9. PartOf(columns, t) /\ DOMAIN columns = InColumns(m, S)
  <2>1. columns = LaidUp(m, S)
    BY <1>1, <1>5
  <2>2. \A k \in S : PartOf(First(m, k), t)
    BY <1>7, <1>8 DEF PartOf
  <2>3. PartOf(LaidUp(m, S), t) /\ DOMAIN LaidUp(m, S) = InColumns(m, S)
    <3> HIDE DEF edge
    <3> QED BY <1>4, <2>2, LaidOver, Zenon
  <2> QED BY <2>1, <2>3
<1>10. PICK D : D = DOMAIN columns /\ D = UNION {DOMAIN First(m, k) : k \in S}
  BY <1>9 DEF InColumns
<1>11. \A c : c \in Owned(r) \/ c \in D => seen[c] = terrain[c]
  <2>1. columns = [c \in D |-> t[c]]
    BY <1>9, <1>10 DEF PartOf
  <2>2. DOMAIN columns = D /\ \A c \in D : columns[c] = terrain[c]
    BY <1>8, <2>1
  <2>3. DOMAIN Restrict(terrain, Owned(r)) = Owned(r) /\ \A c \in Owned(r) : Restrict(terrain, Owned(r))[c] = terrain[c]
    BY DEF Restrict
  <2> QED BY <2>2, <2>3 DEF Over
<1>12. ASSUME NEW c \in Owned(r), NEW n \in Around(c) PROVE n \in Owned(r) \/ n \in D
  <2>1. n \in Cells
    BY OwnedIs, AroundIsMutual
  <2>2. CASE TileOf(n) = r
    BY <2>1, <2>2, TileIs
  <2>3. CASE TileOf(n) # r
    <3>1. PICK s : s = TileOf(n)
      OBVIOUS
    <3>2. s \in Beside(r) /\ n \in IF r = s + 1 THEN RightEdge(s) ELSE LeftEdge(s)
      BY <2>3, <3>1, BesideTile
    <3>3. PICK k : k = <<s, r, "strip">>
      OBVIOUS
    <3>4. k \in S
      BY <1>2, <3>2, <3>3
    <3>5. n \in DOMAIN First(m, k)
      <4>1. DOMAIN First(m, k) = edge(k)
        BY <1>7, <3>4
      <4> QED BY <3>2, <3>3, <4>1
    <3> QED BY <1>10, <3>4, <3>5
  <2> QED BY <2>2, <2>3
<1> QED BY <1>11, <1>12

\* The rest of setup_tile and flood_tile.
LEMMA FloodTileSinks ==
  ASSUME IInv, IInv', DataInv, SinkInv, NEW r \in Ranks, FloodTile(r)
  PROVE  SinkInv'
<1>1. PICK columns, seen, given, t :
        /\ columns = LaidUp(mail, Awaited(r))
        /\ seen = Over(Restrict(terrain, Owned(r)), columns)
        /\ given = [c \in Owned(r) |-> IF seen[c].ocean THEN OCEAN
                                       ELSE IF c \in Marked(r, seen) THEN BOUNDARY ELSE NO_DEP]
        /\ t = Flooded(Owned(r), [c \in Owned(r) |-> seen[c].elev], given)
        /\ halo' = [halo EXCEPT ![r] = columns] /\ tile' = [tile EXCEPT ![r] = t]
        /\ mail' = Sent(Receive(mail, Awaited(r)), Report(r, "count", Len(t.pits)))
  BY DEF FloodTile, LaidUp
<1>2. PICK x : x = IF r = 0 THEN "counts" ELSE "offset"
  OBVIOUS
<1>3. /\ pc[r] = "halo" /\ Has(mail, Awaited(r)) /\ pc' = [pc EXCEPT ![r] = x] /\ terrain' = terrain /\ walked' = walked
  BY <1>2 DEF FloodTile, At, startVars
<1>4. at(r) = 1 /\ at(r)' = 2 /\ \A q \in Ranks \ {r} : at(q)' = at(q)
  <2>1. Turn(x) = 2 /\ at(r) = 1
    BY <1>2, <1>3, TurnIs DEF at
  <2> QED BY <1>3, <2>1, StepsTo
<1>5. TerrainHolds /\ DOMAIN tile = Ranks /\ DOMAIN halo = Ranks
  BY RankIs DEF PerRank, SinkInv
<1>6. \A c \in Owned(r) : seen[c] = terrain[c] /\ \A n \in Around(c) : seen[n] = terrain[n]
  BY <1>1, <1>3, <1>5, ColumnsAre
<1>7. PICK d : FallsSo(r, t, seen, d)
  BY <1>1, <1>5, <1>6, FloodSheds
<1>8. /\ DOMAIN halo' = Ranks /\ tile'[r] = t /\ halo'[r] = columns
      /\ \A q \in Ranks \ {r} : tile'[q] = tile[q] /\ halo'[q] = halo[q]
  BY <1>1, <1>5
<1>9. FallHolds(r)'
  <2>1. Seen(r)' = seen
    BY <1>1, <1>3, <1>8 DEF Seen
  <2>2. \A c : Sheds(r, seen, c) => Sheds(r, seen, c)'
    BY <1>3 DEF Sheds, Exits
  <2>3. FallsSo(r, t, seen, d)'
    BY <1>3, <1>7, <2>2 DEF FallsSo
  <2> QED BY <1>8, <2>1, <2>3 DEF FallHolds
<1>10. Settles
  BY <1>3, <1>4, <1>8 DEF Settles
<1>11. PICK msgs : msgs = Report(r, "count", Len(t.pits))
  OBVIOUS
<1>12. DOMAIN msgs \subseteq Keys
  BY <1>11, ReportIs DEF ReportTags
<1>13. Moved(r, msgs)
  BY <1>1, <1>3, <1>11, <1>12, MailTakenSent
<1>14. \A key \in DOMAIN msgs : key[3] \notin SinkTags
  <2>1. ASSUME NEW key \in DOMAIN msgs PROVE key[3] = "count"
    BY <1>11, ReportSays DEF ReportTags
  <2> QED BY <2>1 DEF SinkTags
<1>15. (at(0) = 4 => WalkSays(0, walked))' /\ (at(0) > 4 => AllGo(walked))'
  <2>1. CASE r = 0
    BY <1>4, <2>1
  <2>2. CASE r # 0
    <3>1. at(0)' = at(0)
      BY <1>4, <2>2, BesideIs
    <3> QED BY <1>3, <1>10, <3>1, WalksStay
  <2> QED BY <2>1, <2>2
<1> QED BY <1>3, <1>8, <1>9, <1>10, <1>13, <1>14, <1>15, SinkCarry

\* The walks within the tile.
LEMMA WalkSinks ==
  ASSUME IInv, IInv', DataInv, SinkInv, NEW r \in Ranks, Walk(r)
  PROVE  SinkInv'
<1>1. PICK x : x = IF r = 0 THEN "gather" ELSE "resolved"
  OBVIOUS
<1>2. PICK lw, edge : lw = Walks(r) /\ edge = Restrict(glab'[r], SeamCells(r))
  OBVIOUS
<1>3. PICK f, h : f = Report(r, "lw", lw) /\ h = Report(r, "edge", edge)
  OBVIOUS
<1>4. /\ pc[r] = "walk" /\ pc' = [pc EXCEPT ![r] = x] /\ mail' = Sent(Sent(mail, f), h)
      /\ walked' = IF r = 0 THEN lw ELSE walked
      /\ terrain' = terrain /\ halo' = halo /\ tile' = tile
  BY <1>1, <1>2, <1>3 DEF Walk, At, floodVars, startVars
<1>5. at(r) = 3 /\ at(r)' = 4 /\ \A q \in Ranks \ {r} : at(q)' = at(q)
  <2>1. Turn(x) = 4 /\ at(r) = 3
    BY <1>1, <1>4, TurnIs DEF at
  <2> QED BY <1>4, <2>1, StepsTo
<1>6. /\ DOMAIN f \subseteq Keys
      /\ \A key \in Keys : key \in DOMAIN f <=> key[1] = r /\ r # 0 /\ key[2] = 0 /\ key[3] = "lw"
  BY <1>3, ReportIs DEF ReportTags
<1>7. /\ DOMAIN h \subseteq Keys
      /\ \A key \in Keys : key \in DOMAIN h <=> key[1] = r /\ r # 0 /\ key[2] = 0 /\ key[3] = "edge"
  BY <1>3, ReportIs DEF ReportTags
<1>8. DOMAIN f \cap DOMAIN h = {}
  BY <1>6, <1>7
<1>9. PICK msgs : Moved(r, msgs) /\ IsBoth(msgs, f, h)
  BY <1>4, <1>6, <1>7, <1>8, AwaitsNone, MailSentTwice
<1>10. FallHolds(r) /\ TileHolds(r, tile[r]) /\ TerrainHolds
  BY <1>5, RankIs DEF SinkInv, RankHolds
<1>11. WalkSays(r, lw)
  BY <1>2, <1>10, WalksSay
<1>12. Settles /\ DOMAIN halo' = Ranks
  BY <1>4 DEF Settles, SinkInv
<1>13. FallHolds(r)'
  BY <1>4, <1>10, FallSettled
<1>14. WalkSays(r, lw)'
  BY <1>4, <1>11, TileSettled
<1>15. (at(0) = 4 => WalkSays(0, walked))' /\ (at(0) > 4 => AllGo(walked))'
  <2>1. CASE r = 0
    <3>1. walked' = lw /\ WalkSays(0, lw)' /\ at(0)' = 4
      BY <1>4, <1>5, <1>14, <2>1
    <3>2. WalkSays(0, walked)'
      BY <3>1 DEF WalkSays
    <3> QED BY <3>1, <3>2
  <2>2. CASE r # 0
    <3>1. at(0)' = at(0) /\ walked' = walked
      BY <1>4, <1>5, <2>2, BesideIs
    <3> QED BY <1>12, <3>1, WalksStay
  <2> QED BY <2>1, <2>2
<1>16. ASSUME NEW key \in DOMAIN msgs, key[3] \in SinkTags PROVE SinkTold(key, msgs[key])'
  <2>1. PICK v : v = msgs[key]
    OBVIOUS
  <2>2. CASE key \in DOMAIN f
    <3>1. v = lw /\ key[1] = r /\ key[3] = "lw"
      BY <1>3, <1>9, <2>1, <2>2, ReportSays DEF IsBoth, ReportTags
    <3>2. WalkSays(r, v)'
      BY <1>14, <3>1
    <3>3. SinkTold(key, v)'
      BY <3>1, <3>2 DEF SinkTold, SinkSays
    <3> QED BY <2>1, <3>3
  <2>3. CASE key \in DOMAIN h
    <3>1. key[3] = "edge"
      BY <1>3, <2>3, ReportSays DEF ReportTags
    <3> QED BY <1>16, <3>1 DEF SinkTags
  <2> QED BY <1>9, <2>2, <2>3 DEF IsBoth
<1> QED BY <1>4, <1>9, <1>12, <1>13, <1>15, <1>16, SinkCarry

\* What rank 0 has gathered of the walks.
LEMMA GatheredGo ==
  ASSUME IInv, DataInv, SinkInv, pc[0] = "gather", Has(mail, Awaited(0))
  PROVE  AllGo(AllWalks)
<1>0. 0 \in Ranks /\ at(0) = 4
  BY BesideIs, TurnIs DEF at
<1>1. PICK lwOf : lwOf = [s \in Ranks |-> IF s = 0 THEN walked ELSE First(mail, <<s, 0, "lw">>)]
  OBVIOUS
<1>2. PICK lw : lw = [c \in UNION {DOMAIN lwOf[s] : s \in Ranks} |-> lwOf[TileOf(c)][c]]
  OBVIOUS
<1>3. ASSUME NEW s \in Ranks PROVE WalkSays(s, lwOf[s])
  <2>1. CASE s = 0
    BY <1>0, <1>1, <2>1 DEF SinkInv
  <2>2. CASE s # 0
    <3>1. PICK key : key = <<s, 0, "lw">>
      OBVIOUS
    <3>2. key \in Awaited(0)
      BY <2>2, <3>1 DEF Others, Awaited, ToZero
    <3>3. PICK v : v = First(mail, key)
      OBVIOUS
    <3>4. key \in DOMAIN mail
      BY <3>2 DEF Has
    <3>5. key \in Keys /\ Waiting(mail, key) # <<>> /\ v = Waiting(mail, key)[1]
      BY <3>3, <3>4, WaitingIs DEF IInv, Shapes
    <3>6. SinkTold(key, v)
      BY <3>5 DEF SinkInv, SinkMail
    <3>7. WalkSays(s, v)
      BY <3>1, <3>6 DEF SinkTold, SinkSays
    <3> QED BY <1>1, <2>2, <3>1, <3>3, <3>7
  <2> QED BY <2>1, <2>2
<1>4. \A s \in Ranks : DOMAIN lwOf[s] = Conduit(s)
  BY <1>3 DEF WalkSays
<1>5. AllWalks = lw
  <2>1. \A s \in Ranks : lwOf[s] = IF s = 0 THEN walked ELSE First(mail, <<s, 0, "lw">>)
    BY <1>1
  <2>2. \A c \in UNION {DOMAIN lwOf[s] : s \in Ranks} : TileOf(c) \in Ranks
    BY <1>4, TileIs DEF Conduit
  <2>3. UNION {DOMAIN lwOf[s] : s \in Ranks} =
        UNION {DOMAIN (IF s = 0 THEN walked ELSE First(mail, <<s, 0, "lw">>)) : s \in Ranks}
    BY <2>1
  <2> QED BY <1>2, <2>1, <2>2, <2>3 DEF AllWalks, Gathered
<1>6. DOMAIN lw = UNION {Conduit(s) : s \in Ranks}
  BY <1>2, <1>4
<1>7. ASSUME NEW s \in Ranks, NEW c \in Conduit(s) PROVE ~ lw[c].terminal /\ Exits(s, c, lw[c].exit)
  <2>1. TileOf(c) = s /\ c \in DOMAIN lw
    BY <1>6, TileIs DEF Conduit
  <2>2. lw[c] = lwOf[s][c]
    BY <1>2, <2>1
  <2> QED BY <1>3, <2>2 DEF WalkSays
<1> QED BY <1>5, <1>6, <1>7 DEF AllGo

\* The chase on rank 0.
LEMMA ResolveSinks ==
  ASSUME IInv, IInv', DataInv, SinkInv, Resolve
  PROVE  SinkInv'
<1>0. 0 \in Ranks
  BY BesideIs
<1>1. PICK x, w : x = AfterConduits /\ w = AllWalks
  OBVIOUS
<1>2. /\ pc[0] = "gather" /\ Has(mail, Awaited(0)) /\ pc' = [pc EXCEPT ![0] = x] /\ walked' = w
      /\ terrain' = terrain /\ halo' = halo /\ tile' = tile
  BY <1>1 DEF Resolve, At, floodVars, startVars
<1>3. at(0) = 4 /\ at(0)' \in {5, 9}
  <2>1. Turn(x) \in {5, 9} /\ at(0) = 4
    BY <1>1, <1>2, AfterIs, TurnIs DEF at
  <2> QED BY <1>0, <1>2, <2>1, StepsTo
<1>4. AllGo(w)
  BY <1>1, <1>2, GatheredGo
<1>5. at(0)' > 4 /\ at(0)' # 4
  BY <1>3
<1>6. SinkMail'
  BY <1>5, SinksDoneThen
<1>7. ASSUME NEW q \in Ranks, at(q)' > 1 PROVE FallHolds(q)'
  <2>1. at(q) > 1
    <3>1. CASE q = 0
      BY <1>3, <3>1
    <3>2. CASE q # 0
      <4>1. at(q)' = at(q)
        BY <1>0, <1>2, <3>2, StepsTo
      <4> QED BY <1>7, <4>1
    <3> QED BY <3>1, <3>2
  <2>2. FallHolds(q)
    BY <2>1 DEF SinkInv
  <2> QED BY <1>2, <2>2, FallSettled
<1>8. AllGo(w)'
  <2>1. \A q \in Ranks : Conduit(q)' = Conduit(q)
    BY <1>2 DEF Conduit
  <2>2. \A q, c, y : Exits(q, c, y)' <=> Exits(q, c, y)
    BY <1>2 DEF Exits
  <2> QED BY <1>4, <2>1, <2>2 DEF AllGo
<1>9. AllGo(walked)'
  BY <1>2, <1>8 DEF AllGo
<1>10. DOMAIN halo' = Ranks
  BY <1>2 DEF SinkInv
<1> QED BY <1>5, <1>6, <1>7, <1>9, <1>10 DEF SinkInv

\* A rank lays the resolved labels over its own.
LEMMA OverlaySinks ==
  ASSUME IInv, IInv', SinkInv, NEW r \in Ranks, Overlay(r)
  PROVE  SinkInv'
<1>1. PICK x : x = AfterConduits
  OBVIOUS
<1>2. /\ pc[r] = "resolved" /\ Has(mail, Awaited(r)) /\ pc' = [pc EXCEPT ![r] = x]
      /\ terrain' = terrain /\ halo' = halo /\ tile' = tile /\ walked' = walked
  BY <1>1 DEF Overlay, At, floodVars, startVars
<1>3. r # 0
  BY <1>2 DEF IInv, StageIs, ZeroStages
<1>4. PICK key : key = <<0, r, "resolved">>
  OBVIOUS
<1>5. key \in DOMAIN mail
  BY <1>2, <1>4 DEF Has, Awaited
<1>6. key \in Keys /\ Waiting(mail, key) # <<>>
  BY <1>5, WaitingIs DEF IInv, Shapes
<1>7. key[3] \notin Rounds /\ SendTurn(key) = 4
  BY <1>4 DEF Rounds, SendTurn
<1>8. at(key[1]) > SendTurn(key)
  BY <1>6, <1>7, ChannelOnce
<1>9. at(0) > 4
  BY <1>4, <1>7, <1>8
<1>10. at(0)' = at(0)
  BY <1>2, <1>3, BesideIs, StepsTo
<1>11. at(0)' > 4
  BY <1>9, <1>10
<1> QED BY <1>2, <1>9, <1>11, RestSinks

-----------------------------------------------------------------------------
\* A step of a rank past its conduits.
RestMove(r, x) == pc' = [pc EXCEPT ![r] = x] /\ at(r) > 4 /\ Turn(x) > 4

\* Each step of the growing halo is such a step of one rank.
LEMMA HaloMoves ==
  ASSUME HaloStep
  PROVE  \E r \in Ranks : \E x : RestMove(r, x)
<1>0. 0 \in Ranks
  BY BesideIs
<1>1. \A x \in {"round", "bands", "votes", "answer", "leaves", "surv", "used", "dense", "settled"} : Turn(x) > 4
  BY TurnIs
<1>2. ASSUME NEW r \in Ranks, pc[r] \in {"round", "bands", "votes", "answer", "leaves", "surv", "used", "dense"},
             NEW x \in {"votes", "answer", "bands", "leaves", "surv", "used", "dense", "settled"},
             pc' = [pc EXCEPT ![r] = x]
      PROVE  \E q \in Ranks : \E y : RestMove(q, y)
  BY <1>1, <1>2 DEF RestMove, at
<1>3. ASSUME Decide PROVE pc[0] = "votes" /\ \E x \in {"bands", "leaves"} : pc' = [pc EXCEPT ![0] = x]
  BY <1>3 DEF Decide, At
<1>4. ASSUME PickSurvivors PROVE pc[0] = "leaves" /\ pc' = [pc EXCEPT ![0] = "used"]
  BY <1>4 DEF PickSurvivors, At
<1>5. ASSUME Densify PROVE pc[0] = "used" /\ pc' = [pc EXCEPT ![0] = "settled"]
  BY <1>5 DEF Densify, At
<1>6. ASSUME NEW r \in Ranks, Round(r) PROVE pc[r] \in {"round", "bands"} /\ \E x \in {"votes", "answer"} : pc' = [pc EXCEPT ![r] = x]
  BY <1>6 DEF Round, At
<1>7. ASSUME NEW r \in Ranks, Heed(r) PROVE pc[r] = "answer" /\ \E x \in {"bands", "surv"} : pc' = [pc EXCEPT ![r] = x]
  BY <1>7 DEF Heed, At
<1>8. ASSUME NEW r \in Ranks, MapCells(r) PROVE pc[r] = "surv" /\ pc' = [pc EXCEPT ![r] = "dense"]
  BY <1>8 DEF MapCells, At
<1>9. ASSUME NEW r \in Ranks, TakeDense(r) PROVE pc[r] = "dense" /\ pc' = [pc EXCEPT ![r] = "settled"]
  BY <1>9 DEF TakeDense, At
<1>10. ASSUME NEW r \in Ranks, Round(r) \/ Heed(r) \/ MapCells(r) \/ TakeDense(r)
       PROVE  \E q \in Ranks : \E y : RestMove(q, y)
  BY <1>2, <1>6, <1>7, <1>8, <1>9, <1>10
<1>11. ASSUME Decide \/ PickSurvivors \/ Densify PROVE \E q \in Ranks : \E y : RestMove(q, y)
  BY <1>0, <1>2, <1>3, <1>4, <1>5, <1>11
<1> QED BY <1>10, <1>11 DEF HaloStep

\* It comes when the conduits are resolved, and leaves them so.
LEMMA RestMoveSinks ==
  ASSUME IInv, IInv', SinkInv, NEW r \in Ranks, NEW x, RestMove(r, x),
         terrain' = terrain, halo' = halo, tile' = tile, walked' = walked
  PROVE  SinkInv'
<1>1. pc' = [pc EXCEPT ![r] = x] /\ at(r) > 4 /\ Turn(x) > 4
  BY DEF RestMove
<1>2. at(0) > 4
  BY <1>1, ZeroResolved
<1>3. at(r)' = Turn(x) /\ \A q \in Ranks \ {r} : at(q)' = at(q)
  BY <1>1, StepsTo
<1>4. at(0)' > 4
  BY <1>1, <1>2, <1>3, BesideIs
<1> QED BY <1>2, <1>4, RestSinks

\* The steps past the barrier leave the columns of the neighbours alone.
LEMMA LateHalo ==
  ASSUME LateStep
  PROVE  halo' = halo
<1>1. ASSUME OutletStep PROVE halo' = halo
  BY <1>1 DEF OutletStep, ScanTile, ScanSeam, Merge, floodVars
<1>2. ASSUME TreeStep PROVE halo' = halo
  <2>1. ASSUME Place(fl_relabel, surv) \/ Assemble(outlet_db_dist) \/ Total PROVE halo' = halo
    BY <2>1 DEF Place, Assemble, Total, floodVars
  <2>2. ASSUME NEW r \in Ranks, ShipRecords(r) \/ Tally(r) PROVE halo' = halo
    BY <2>2 DEF ShipRecords, Tally, floodVars
  <2> QED BY <1>2, <2>1, <2>2 DEF TreeStep
<1>3. ASSUME PointAcross \/ Verify PROVE halo' = halo
  BY <1>3 DEF PointAcross, FixFlows, Verify, floodVars
<1> QED BY <1>1, <1>2, <1>3 DEF LateStep, FindOutlets, BuildTree

\* Every step keeps what is known of the conduits.
LEMMA NextSinks ==
  ASSUME IInv, IInv', DataInv, SinkInv, [Next]_vars
  PROVE  SinkInv'
<1>1. CASE Conduits
  <2>1. ConduitStep
    BY <1>1 DEF Conduits
  <2> QED BY <2>1, SendStripsSinks, FloodTileSinks, TakeOffsetSinks, WalkSinks, OverlaySinks, NumberTilesSinks, ResolveSinks DEF ConduitStep
<1>2. CASE FlatLabels
  <2>1. HaloStep /\ walked' = walked
    BY <1>2 DEF FlatLabels, conduitVars
  <2>2. terrain' = terrain /\ halo' = halo /\ tile' = tile
    <3>1. ASSUME Decide \/ PickSurvivors \/ Densify PROVE terrain' = terrain /\ halo' = halo /\ tile' = tile
      BY <3>1 DEF Decide, PickSurvivors, Densify, floodVars, startVars
    <3>2. ASSUME NEW r \in Ranks, Round(r) \/ Heed(r) \/ MapCells(r) \/ TakeDense(r)
          PROVE  terrain' = terrain /\ halo' = halo /\ tile' = tile
      BY <3>2 DEF Round, Heed, MapCells, TakeDense, floodVars, startVars
    <3> QED BY <2>1, <3>1, <3>2 DEF HaloStep
  <2>3. PICK r \in Ranks : \E x : RestMove(r, x)
    BY <2>1, HaloMoves
  <2>4. PICK x : RestMove(r, x)
    BY <2>3
  <2> QED BY <2>1, <2>2, <2>4, RestMoveSinks
<1>3. CASE LateStep
  <2>1. PICK r \in Ranks : \E x : LateMove(r, x)
    BY <1>3, LateSteps
  <2>2. PICK x : LateMove(r, x)
    BY <2>1
  <2>3. at(r) \in 0 .. 20 /\ Turn(x) \in 0 .. 20 /\ at(r) > 9 /\ Turn(x) > 9
    BY <2>2, NowType, TurnType DEF LateMove, IInv
  <2>4. RestMove(r, x)
    BY <2>2, <2>3 DEF LateMove, RestMove
  <2>5. halo' = halo
    BY <1>3, LateHalo
  <2> QED BY <2>2, <2>4, <2>5, RestMoveSinks DEF LateMove, Unmoved
<1>4. CASE LeaveBarrier
  <2>1. at(0) \in {9, 14, 18} /\ at(0)' \in {10, 15, 19, 20} /\ Unmoved
    BY <1>4, BesideIs, LeaveBarrierData
  <2>2. at(0) > 4 /\ at(0)' > 4
    BY <2>1
  <2>3. halo' = halo
    BY <1>4 DEF LeaveBarrier, floodVars
  <2> QED BY <2>1, <2>2, <2>3, RestSinks DEF Unmoved
<1>5. CASE UNCHANGED vars
  <2>1. terrain' = terrain /\ halo' = halo /\ tile' = tile /\ walked' = walked /\ pc' = pc /\ mail' = mail
    BY <1>5 DEF vars, rankVars, conduitVars
  <2>2. \A q \in Ranks : at(q)' = at(q)
    BY <2>1 DEF at
  <2>3. Settles
    BY <2>1 DEF Settles
  <2>4. (at(0) = 4 => WalkSays(0, walked))' /\ (at(0) > 4 => AllGo(walked))'
    BY <2>1, <2>2, <2>3, WalksStay, BesideIs
  <2>5. ASSUME NEW q \in Ranks, at(q)' > 1 PROVE FallHolds(q)'
    <3>1. FallHolds(q)
      BY <2>2, <2>5 DEF SinkInv
    <3> QED BY <2>1, <3>1, FallSettled
  <2>6. ASSUME NEW key \in Keys, NEW v, Waiting(mail, key)' # <<>>, v = Waiting(mail, key)'[1] PROVE SinkTold(key, v)'
    <3>1. Waiting(mail, key)' = Waiting(mail, key)
      BY <2>1 DEF Waiting
    <3>2. Waiting(mail, key) # <<>> /\ v = Waiting(mail, key)[1]
      BY <2>6, <3>1
    <3>3. SinkTold(key, v)
      BY <3>2 DEF SinkInv, SinkMail
    <3> QED BY <2>3, <3>2, <3>3, SinkStaysTold
  <2>7. SinkMail'
    BY <2>6 DEF SinkMail
  <2>8. DOMAIN halo' = Ranks
    BY <2>1 DEF SinkInv
  <2> QED BY <2>4, <2>5, <2>7, <2>8 DEF SinkInv
<1> QED BY <1>1, <1>2, <1>3, <1>4, <1>5 DEF Next, LateStep

\* At the start nothing is known.
LEMMA InitSinks ==
  ASSUME Init
  PROVE  SinkInv
<1>1. pc = [r \in Ranks |-> "start"] /\ mail = NoMail /\ halo = [r \in Ranks |-> <<>>]
  BY DEF Init, InitRanks
<1>2. \A r \in Ranks : at(r) = 0
  BY <1>1, TurnIs DEF at
<1>3. DOMAIN halo = Ranks
  BY <1>1
<1>4. SinkMail
  <2>1. \A key : Waiting(mail, key) = <<>>
    BY <1>1 DEF Waiting, NoMail
  <2> QED BY <2>1 DEF SinkMail
<1> QED BY <1>2, <1>3, <1>4, BesideIs DEF SinkInv

\* The walks of the tiles fall in every state.
LEMMA SinksAlways == Spec => [](IInv /\ DataInv /\ SinkInv)
<1>1. Init => IInv /\ DataInv /\ SinkInv
  BY InitHolds, InitData, InitSinks
<1>2. (IInv /\ DataInv /\ SinkInv) /\ [Next]_vars => (IInv /\ DataInv /\ SinkInv)'
  BY NextKeeps, NextData, NextSinks
<1> QED BY <1>1, <1>2, PTL DEF Spec

\* With all walks going over the seams the chase goes down.
LEMMA GoesDown == IInv /\ DataInv /\ SinkInv => ChaseGoesDown
<1> SUFFICES ASSUME IInv, DataInv, SinkInv, Settled, NEW c \in DOMAIN walked
             PROVE  /\ ~ walked[c].terminal =>
                         LET x == walked[c].exit
                         IN  /\ TileOf(x) # TileOf(c) /\ x \in SeamCells(TileOf(x))
                             /\ elev[x] < elev[c]
                             /\ glab[TileOf(x)][x] = BOUNDARY => x \in DOMAIN walked
                    /\ walked[c].terminal => walked[c].label # OCEAN \/ \E o \in Oceans : TileOf(o) = TileOf(c)
  BY DEF ChaseGoesDown
<1>1. \A r \in Ranks : at(r) = 9
  BY TurnIs DEF Settled, at
<1>2. at(0) > 4 /\ \A r \in Ranks : at(r) > 3
  BY <1>1, BesideIs
<1>3. AllGo(walked)
  BY <1>2 DEF SinkInv
<1>4. PICK t \in Ranks : c \in Conduit(t)
  BY <1>3 DEF AllGo
<1>5. PICK x : x = walked[c].exit
  OBVIOUS
<1>6. ~ walked[c].terminal /\ Exits(t, c, x)
  BY <1>3, <1>4, <1>5 DEF AllGo
<1>7. c \in Cells /\ TileOf(c) = t
  BY <1>4, TileIs DEF Conduit
<1>8. x \in Cells /\ TileOf(x) # t /\ x \in SeamCells(TileOf(x)) /\ terrain[x].elev < terrain[c].elev
  BY <1>6 DEF Exits
<1>9. elev[x] = terrain[x].elev /\ elev[c] = terrain[c].elev
  BY <1>7, <1>8 DEF elev, ElevOf, DataInv, TerrainHolds
<1>10. ASSUME glab[TileOf(x)][x] = BOUNDARY PROVE x \in DOMAIN walked
  <2>1. PICK s \in Ranks : s = TileOf(x) /\ x \in Owned(s)
    BY <1>8, TileIs
  <2>2. GlobalHolds(s, glab[s])
    BY <1>2, <2>1 DEF DataInv, RankHolds
  <2>3. x \in Conduit(s)
    BY <1>10, <2>1, <2>2 DEF GlobalHolds, Conduit
  <2> QED BY <1>3, <2>1, <2>3 DEF AllGo
<1> QED BY <1>5, <1>6, <1>7, <1>8, <1>9, <1>10

\* The chase from tile to tile goes down at every seam, however the raster is cut and
\* whatever the terrain, flats included: every conduit of a tile flows to a cell that
\* drains over the seam, to a lower cell whose label the neighbour has published, so
\* neither guard of resolve_conduits is ever reached (dephier_mpi.cpp, localwalk and
\* resolve_conduits).
THEOREM ChaseAlwaysGoesDown == Spec => []ChaseGoesDown
BY SinksAlways, GoesDown, PTL
=============================================================================
