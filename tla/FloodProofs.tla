---------------------------- MODULE FloodProofs -----------------------------
(***************************************************************************)
(* That the flood is right at every step: its queue is monotone and holds  *)
(* every cell from which the flood can go on, so that no cell is left out; *)
(* every label drains to its pit; and the outlet database holds the lowest *)
(* crossings. First what the proofs need of the grid and of its queue:     *)
(* that being neighbours is mutual, which entries a queue holds, that a    *)
(* push adds one and keeps the order of the others, and that a pop takes   *)
(* the lowest entry. What is pushed at the current key goes on top of a    *)
(* stack of its own and so comes back first.                               *)
(***************************************************************************)
EXTENDS Flood, DataLemmas, FunctionTheorems

N == Width * Height

\* The cells are as many as the grid has places, and finitely many.
LEMMA CellCount ==
  N \in Nat \ {0} /\ Cells \subseteq Nat /\ IsFiniteSet(Cells) /\ Cardinality(Cells) = N
<1>1. N \in Nat \ {0}
  <2>1. Width \in Nat \ {0} /\ Height \in Nat \ {0}
    BY GridAssumption
  <2>2. Width * Height \in Int /\ Width * Height > 0
    BY <2>1, SMTT(30)
  <2> QED BY <2>2 DEF N
<1>2. IsFiniteSet(0 .. N - 1) /\ Cardinality(0 .. N - 1) = N
  BY <1>1, FS_Interval
<1> QED BY <1>1, <1>2 DEF Cells, N

\* Row and column of a cell, and back.
LEMMA RowAndColumn ==
  /\ \A c \in Cells : /\ XOf(c) \in 0 .. Width - 1 /\ YOf(c) \in 0 .. Height - 1
                      /\ c = YOf(c) * Width + XOf(c)
  /\ \A x \in 0 .. Width - 1, y \in 0 .. Height - 1 :
       /\ y * Width + x \in Cells
       /\ XOf(y * Width + x) = x /\ YOf(y * Width + x) = y
<1>1. Width \in Nat \ {0} /\ Height \in Nat \ {0}
  BY GridAssumption
<1>2. ASSUME NEW c \in Cells
      PROVE  /\ XOf(c) \in 0 .. Width - 1 /\ YOf(c) \in 0 .. Height - 1
             /\ c = YOf(c) * Width + XOf(c)
  <2>1. c \in Int /\ 0 <= c /\ c < Width * Height
    BY <1>1, CellCount DEF Cells, N
  <2> DEFINE q == c \div Width
             r == c % Width
  <2>2. q \in Int /\ r \in 0 .. Width - 1 /\ c = q * Width + r
    <3>1. c % Width \in 0 .. Width - 1
      BY <1>1, <2>1
    <3>2. c \div Width \in Int
      BY <1>1, <2>1
    <3>3. c = ((c \div Width) * Width) + (c % Width)
      BY <1>1, <2>1
    <3> QED BY <3>1, <3>2, <3>3
  <2>3. q >= 0
    BY <1>1, <2>1
  <2>4. q < Height
    <3>1. q \in Int /\ Height \in Int /\ Width \in Int /\ Width > 0
      BY <1>1, <2>2
    <3>2. ASSUME q >= Height PROVE FALSE
      <4>1. q * Width >= Height * Width
        <5> HIDE DEF q
        <5> QED BY <3>1, <3>2
      <4> HIDE DEF q, r
      <4> QED BY <4>1, <2>1, <2>2, <3>1
    <3> HIDE DEF q
    <3> QED BY <3>1, <3>2
  <2>5. XOf(c) = r /\ YOf(c) = q
    BY DEF XOf, YOf
  <2> HIDE DEF q, r
  <2> QED BY <1>1, <2>2, <2>3, <2>4, <2>5
<1>3. ASSUME NEW x \in 0 .. Width - 1, NEW y \in 0 .. Height - 1
      PROVE  /\ y * Width + x \in Cells
             /\ XOf(y * Width + x) = x /\ YOf(y * Width + x) = y
  <2>1. x \in Nat /\ y \in Nat /\ x < Width /\ y + 1 <= Height
    BY <1>1
  <2>2. (y * Width + x) % Width = x /\ (y * Width + x) \div Width = y
    BY <1>1, <2>1
  <2>3. y * Width + x < (y + 1) * Width
    BY <1>1, <2>1
  <2>4. (y + 1) * Width <= Height * Width
    BY <1>1, <2>1
  <2>5. y * Width + x \in Nat /\ (y + 1) * Width \in Nat /\ Height * Width = Width * Height
    BY <1>1, <2>1
  <2>6. y * Width + x \in 0 .. Width * Height - 1
    BY <2>3, <2>4, <2>5, CellCount DEF N
  <2> QED BY <2>2, <2>6 DEF Cells, XOf, YOf
<1> QED BY <1>2, <1>3

\* A pass over a sequence that appends a value for some of the members.
Collects(F, n, S, keep, val) ==
  /\ \A i \in 1 .. n : keep[i] => val[i] \in S
  /\ F[{}] = <<>>
  /\ \A i \in 1 .. n :
       F[1 .. i] = IF keep[i] THEN Append(F[1 .. i - 1], val[i]) ELSE F[1 .. i - 1]

\* No value twice.
Distinct(s) == \A i, j \in DOMAIN s : s[i] = s[j] => i = j
Differ(val, n, keep) == \A i, j \in 1 .. n : keep[i] /\ keep[j] /\ val[i] = val[j] => i = j

\* A new value keeps them distinct.
LEMMA AppendDistinct ==
  ASSUME NEW S, NEW s \in Seq(S), NEW v \in S, v \notin ToSet(s), Distinct(s)
  PROVE  Distinct(Append(s, v))
<1>1. /\ DOMAIN Append(s, v) = 1 .. Len(s) + 1 /\ DOMAIN s = 1 .. Len(s) /\ Len(s) \in Nat
      /\ Append(s, v)[Len(s) + 1] = v
      /\ \A i \in 1 .. Len(s) : Append(s, v)[i] = s[i] /\ s[i] # v
  BY DEF ToSet
<1> DEFINE t == Append(s, v)
<1> HIDE DEF t
<1>2. ASSUME NEW i \in 1 .. Len(s) + 1, NEW j \in 1 .. Len(s) + 1, t[i] = t[j] PROVE i = j
  <2>1. CASE i \in 1 .. Len(s) /\ j \in 1 .. Len(s)
    BY <1>1, <1>2, <2>1 DEF t, Distinct
  <2>2. CASE i = Len(s) + 1 /\ j \in 1 .. Len(s)
    BY <1>1, <1>2, <2>2 DEF t
  <2>3. CASE j = Len(s) + 1 /\ i \in 1 .. Len(s)
    BY <1>1, <1>2, <2>3 DEF t
  <2> QED BY <1>1, <2>1, <2>2, <2>3
<1> QED BY <1>1, <1>2 DEF t, Distinct

\* What such a fold gathers: the values of the indices it keeps, and no others; none
\* twice if they differ.
LEMMA Collected ==
  ASSUME NEW n \in Nat, NEW S, NEW keep, NEW val, NEW F, Collects(F, n, S, keep, val)
  PROVE  /\ F[1 .. n] \in Seq(S)
         /\ ToSet(F[1 .. n]) = {val[i] : i \in {j \in 1 .. n : keep[j]}}
         /\ Differ(val, n, keep) => Distinct(F[1 .. n])
<1> DEFINE Is(k) == /\ F[1 .. k] \in Seq(S)
                    /\ ToSet(F[1 .. k]) = {val[i] : i \in {j \in 1 .. k : keep[j]}}
                    /\ Differ(val, n, keep) => Distinct(F[1 .. k])
           T == {k \in 0 .. n : Is(k)}
<1> USE DEF Collects
<1>1. 0 \in T
  <2>1. 1 .. 0 = {}
    OBVIOUS
  <2>2. Is(0)
    <3>1. F[1 .. 0] = <<>> /\ ToSet(<<>>) = {} /\ <<>> \in Seq(S)
      BY <2>1 DEF ToSet
    <3>2. {val[i] : i \in {j \in 1 .. 0 : keep[j]}} = {}
      OBVIOUS
    <3>3. Distinct(F[1 .. 0])
      BY <3>1 DEF Distinct
    <3> QED BY <3>1, <3>2, <3>3
  <2> HIDE DEF Is
  <2> QED BY <2>2
<1>2. ASSUME NEW k \in 0 .. n - 1, k \in T PROVE k + 1 \in T
  <2>1. Is(k) /\ k + 1 \in 1 .. n /\ (k + 1) - 1 = k
    BY <1>2
  <2>2. CASE keep[k + 1]
    <3>1. F[1 .. k + 1] = Append(F[1 .. k], val[k + 1])
      BY <2>1, <2>2
    <3>2. val[k + 1] \in S
      BY <2>1, <2>2
    <3>3. F[1 .. k] \in Seq(S)
      BY <2>1
    <3>4. /\ F[1 .. k + 1] \in Seq(S)
          /\ ToSet(F[1 .. k + 1]) = ToSet(F[1 .. k]) \cup {val[k + 1]}
      BY <3>1, <3>2, <3>3, AppendSet
    <3>5. {j \in 1 .. k + 1 : keep[j]} = {j \in 1 .. k : keep[j]} \cup {k + 1}
      BY <2>1, <2>2
    <3>6. ASSUME Differ(val, n, keep) PROVE Distinct(F[1 .. k + 1])
      <4>1. Distinct(F[1 .. k])
        BY <2>1, <3>6
      <4>2. val[k + 1] \notin ToSet(F[1 .. k])
        <5> SUFFICES ASSUME NEW i \in 1 .. k, keep[i], val[i] = val[k + 1] PROVE FALSE
          BY <2>1
        <5>1. i \in 1 .. n /\ k + 1 \in 1 .. n
          BY <2>1
        <5>2. i = k + 1
          BY <2>2, <3>6, <5>1 DEF Differ
        <5> QED BY <5>2
      <4> DEFINE f == F[1 .. k]
                 v == val[k + 1]
      <4>3. f \in Seq(S) /\ v \in S /\ F[1 .. k + 1] = Append(f, v) /\ Distinct(f) /\ v \notin ToSet(f)
        BY <3>1, <3>2, <3>3, <4>1, <4>2
      <4> HIDE DEF f, v
      <4> QED BY <4>3, AppendDistinct
    <3>7. Is(k + 1)
      BY <3>1, <3>4, <3>5, <3>6, <2>1
    <3> HIDE DEF Is
    <3> QED BY <3>7
  <2>3. CASE ~ keep[k + 1]
    <3>1. F[1 .. k + 1] = F[1 .. k]
      BY <2>1, <2>3
    <3>2. {j \in 1 .. k + 1 : keep[j]} = {j \in 1 .. k : keep[j]}
      BY <2>1, <2>3
    <3>3. Is(k + 1)
      BY <3>1, <3>2, <2>1
    <3> HIDE DEF Is
    <3> QED BY <3>3
  <2> QED BY <2>2, <2>3
<1>3. n \in T
  <2>1. 0 .. n \subseteq T
    <3> HIDE DEF T
    <3> QED BY <1>1, <1>2, Upwards
  <2>2. n \in 0 .. n
    OBVIOUS
  <2> HIDE DEF T
  <2> QED BY <2>1, <2>2
<1> HIDE DEF Collects
<1> QED BY <1>3

\* The neighbours of a cell are the cells at its offsets that lie in the grid.
At(c, o) == (YOf(c) + o[2]) * Width + XOf(c) + o[1]
Near(c, o) == InGrid(XOf(c) + o[1], YOf(c) + o[2])

\* The offsets lead to what is at most one step away, and with each one back.
LEMMA OffsetsAre ==
  /\ Offsets \in Seq(Int \X Int)
  /\ \A i \in DOMAIN Offsets :
       /\ Offsets[i] # <<0, 0>>
       /\ Offsets[i][1] \in -1 .. 1 /\ Offsets[i][2] \in -1 .. 1
       /\ \E j \in DOMAIN Offsets : /\ Offsets[j][1] = -Offsets[i][1]
                                  /\ Offsets[j][2] = -Offsets[i][2]
<1>1. CASE Diagonals
  <2>1. Offsets = << <<-1, 0>>, <<-1, -1>>, <<0, -1>>, <<1, -1>>,
                     <<1, 0>>, <<1, 1>>, <<0, 1>>, <<-1, 1>> >>
    BY <1>1 DEF Offsets
  <2>2. DOMAIN Offsets = 1 .. 8
    BY <2>1
  <2>3. Offsets \in Seq(Int \X Int)
    BY <2>1
  <2> QED BY <2>1, <2>2, <2>3
<1>2. CASE ~ Diagonals
  <2>1. Offsets = << <<-1, 0>>, <<0, -1>>, <<1, 0>>, <<0, 1>> >>
    BY <1>2 DEF Offsets
  <2>2. DOMAIN Offsets = 1 .. 4
    BY <2>1
  <2>3. Offsets \in Seq(Int \X Int)
    BY <2>1
  <2> QED BY <2>1, <2>2, <2>3
<1> QED BY <1>1, <1>2

\* No two of them are the same.
LEMMA OffsetsDiffer ==
  \A i, j \in DOMAIN Offsets : Offsets[i][1] = Offsets[j][1] /\ Offsets[i][2] = Offsets[j][2] => i = j
<1>1. CASE Diagonals
  BY <1>1 DEF Offsets
<1>2. CASE ~ Diagonals
  BY <1>2 DEF Offsets
<1> QED BY <1>1, <1>2

\* The neighbours of a cell are the cells at its offsets within the raster, each once.
LEMMA NeighboursAre ==
  ASSUME NEW c \in Cells
  PROVE  /\ Neighbours[c] \in Seq(Cells) /\ Distinct(Neighbours[c])
         /\ Around(c) = {At(c, Offsets[i]) : i \in {j \in DOMAIN Offsets : Near(c, Offsets[j])}}
<1> DEFINE k == Len(Offsets)
           keep == [i \in 1 .. k |-> Near(c, Offsets[i])]
           val == [i \in 1 .. k |-> At(c, Offsets[i])]
           Op == [a \in (1 .. k) \X Seq(Cells) |->
                    IF keep[a[1]] THEN Append(a[2], val[a[1]]) ELSE a[2]]
           Is(f) == f = [s \in SUBSET DOMAIN Offsets |->
                           IF s = {} THEN <<>>
                           ELSE LET x == Max(s)
                                IN  IF Near(c, Offsets[x])
                                    THEN Append(f[s \ {x}], At(c, Offsets[x]))
                                    ELSE f[s \ {x}]]
           it == CHOOSE f : Is(f)
<1>1. k \in Nat /\ DOMAIN Offsets = 1 .. k
  BY OffsetsAre
<1>2. keep \in [1 .. k -> BOOLEAN]
  BY DEF Near, InGrid
<1>3. \A i \in 1 .. k : keep[i] => val[i] \in Cells
  <2> SUFFICES ASSUME NEW i \in 1 .. k, Near(c, Offsets[i]) PROVE At(c, Offsets[i]) \in Cells
    OBVIOUS
  <2>1. Offsets[i] \in Int \X Int
    BY <1>1, OffsetsAre
  <2>2. XOf(c) \in Int /\ YOf(c) \in Int /\ Width \in Int
    BY RowAndColumn, GridAssumption
  <2> DEFINE x == XOf(c) + Offsets[i][1]
             y == YOf(c) + Offsets[i][2]
  <2>3. x \in 0 .. Width - 1 /\ y \in 0 .. Height - 1
    BY DEF Near, InGrid
  <2>4. y * Width + x \in Cells
    BY <2>3, RowAndColumn
  <2>5. At(c, Offsets[i]) = y * Width + x
    BY <2>1, <2>2 DEF At
  <2> QED BY <2>4, <2>5
<1>4. Op \in [(1 .. k) \X Seq(Cells) -> Seq(Cells)]
  <2>1. ASSUME NEW a \in (1 .. k) \X Seq(Cells)
        PROVE  (IF keep[a[1]] THEN Append(a[2], val[a[1]]) ELSE a[2]) \in Seq(Cells)
    <3>1. a[1] \in 1 .. k /\ a[2] \in Seq(Cells)
      OBVIOUS
    <3> HIDE DEF keep, val
    <3> QED BY <3>1, <1>3
  <2> QED BY <2>1
<1>5. PICK F : IsFold(F, k, Seq(Cells), <<>>, Op)
  <2>1. <<>> \in Seq(Cells)
    OBVIOUS
  <2> HIDE DEF Op, k
  <2> QED BY <1>1, <1>4, <2>1, FoldExists
<1>6. Is(F)
  <2> USE DEF IsFold
  <2>1. ASSUME NEW S \in SUBSET (1 .. k), S # {}
        PROVE  F[S] = IF Near(c, Offsets[Max(S)])
                      THEN Append(F[S \ {Max(S)}], At(c, Offsets[Max(S)]))
                      ELSE F[S \ {Max(S)}]
    <3>1. Max(S) \in S
      <4>1. S \subseteq 0 .. k
        OBVIOUS
      <4> HIDE DEF k
      <4> QED BY <1>1, <2>1, <4>1, MaxOfBounded
    <3>2. F[S \ {Max(S)}] \in Seq(Cells)
      BY <1>5
    <3>3. F[S] = Op[<<Max(S), F[S \ {Max(S)}]>>]
      BY <1>5, <2>1
    <3> QED BY <3>1, <3>2, <3>3
  <2>2. F = [S \in SUBSET (1 .. k) |-> F[S]]
    BY <1>5
  <2> QED BY <2>1, <2>2, <1>1, <1>5
<1>7. Is(it)
  <2> HIDE DEF Is
  <2> QED BY <1>6
<1>8. it[{}] = <<>>
  BY <1>7
<1>9. ASSUME NEW i \in 1 .. k
      PROVE  it[1 .. i] = IF keep[i] THEN Append(it[1 .. i - 1], val[i]) ELSE it[1 .. i - 1]
  <2>1. 1 .. i # {} /\ Max(1 .. i) = i /\ (1 .. i) \ {i} = 1 .. i - 1
    BY Prefix
  <2>2. 1 .. i \in SUBSET DOMAIN Offsets
    BY <1>1
  <2>3. it[1 .. i] = IF Near(c, Offsets[i])
                     THEN Append(it[(1 .. i) \ {i}], At(c, Offsets[i]))
                     ELSE it[(1 .. i) \ {i}]
    <3> HIDE DEF it, k, keep, val
    <3> QED BY <1>7, <2>1, <2>2
  <2> HIDE DEF it, k
  <2> QED BY <2>1, <2>3
<1>10. Neighbours[c] = it[1 .. k]
  BY <1>1 DEF Neighbours, FoldLeft, MapThenFoldSet, Near, At
<1>13. Differ(val, k, keep)
  <2> SUFFICES ASSUME NEW i \in 1 .. k, NEW j \in 1 .. k, Near(c, Offsets[i]), Near(c, Offsets[j]),
                      At(c, Offsets[i]) = At(c, Offsets[j])
               PROVE  i = j
    BY DEF Differ
  <2>1. Offsets[i] \in Int \X Int /\ Offsets[j] \in Int \X Int
    BY <1>1, OffsetsAre
  <2>2. XOf(c) \in Int /\ YOf(c) \in Int /\ Width \in Int
    BY RowAndColumn, GridAssumption
  <2>3. ASSUME NEW o \in {Offsets[i], Offsets[j]}
        PROVE  XOf(At(c, o)) = XOf(c) + o[1] /\ YOf(At(c, o)) = YOf(c) + o[2]
    <3> DEFINE x == XOf(c) + o[1]
               y == YOf(c) + o[2]
    <3>1. x \in 0 .. Width - 1 /\ y \in 0 .. Height - 1
      BY DEF Near, InGrid
    <3>2. At(c, o) = y * Width + x
      <4> DEFINE p == y * Width
                 a == XOf(c)
                 b == o[1]
      <4>1. o[1] \in Int /\ o[2] \in Int
        BY <2>1
      <4>2. y \in Int
        BY <2>2, <4>1
      <4>3. p \in Int
        <5> HIDE DEF y
        <5> QED BY <2>2, <4>2
      <4>4. At(c, o) = p + a + b
        <5>1. At(c, o) = (YOf(c) + o[2]) * Width + XOf(c) + o[1]
          BY DEF At
        <5>2. p = (YOf(c) + o[2]) * Width
          OBVIOUS
        <5> HIDE DEF p, y, x
        <5> QED BY <5>1, <5>2
      <4>5. x = a + b
        BY Zenon
      <4>6. a \in Int /\ b \in Int
        BY <2>2, <4>1
      <4>7. p = y * Width
        BY Zenon
      <4> HIDE DEF p, a, b
      <4>8. p + a + b = p + (a + b)
        BY <4>3, <4>6
      <4> HIDE DEF x, y
      <4> QED BY <4>4, <4>5, <4>7, <4>8
    <3>3. x = XOf(c) + o[1] /\ y = YOf(c) + o[2]
      OBVIOUS
    <3> HIDE DEF x, y
    <3>4. XOf(y * Width + x) = x /\ YOf(y * Width + x) = y
      BY <3>1, RowAndColumn
    <3> QED BY <3>2, <3>3, <3>4
  <2>4. Offsets[i][1] = Offsets[j][1] /\ Offsets[i][2] = Offsets[j][2]
    BY <2>1, <2>2, <2>3
  <2> QED BY <1>1, <2>4, OffsetsDiffer
<1>11. /\ it[1 .. k] \in Seq(Cells) /\ Distinct(it[1 .. k])
       /\ ToSet(it[1 .. k]) = {val[i] : i \in {j \in 1 .. k : keep[j]}}
  <2> HIDE DEF it, keep, val, k
  <2>1. Collects(it, k, Cells, keep, val)
    BY <1>3, <1>8, <1>9 DEF Collects
  <2> QED BY <1>1, <1>13, <2>1, Collected
<1>12. {val[i] : i \in {j \in 1 .. k : keep[j]}}
         = {At(c, Offsets[i]) : i \in {j \in DOMAIN Offsets : Near(c, Offsets[j])}}
  BY <1>1
<1> QED
  <2> HIDE DEF it, keep, val, k
  <2> QED BY <1>10, <1>11, <1>12 DEF Around

-----------------------------------------------------------------------------
\* A cell and its neighbours see each other.
LEMMA AroundIsMutual ==
  ASSUME NEW c \in Cells
  PROVE  /\ Around(c) \subseteq Cells
         /\ c \notin Around(c)
         /\ \A n \in Around(c) : c \in Around(n)
<1>1. Width \in Nat \ {0} /\ Height \in Nat \ {0}
  BY GridAssumption
<1>2. ASSUME NEW n \in Around(c) PROVE n \in Cells /\ n # c /\ c \in Around(n)
  <2>1. PICK i \in DOMAIN Offsets : Near(c, Offsets[i]) /\ n = At(c, Offsets[i])
    BY <1>2, NeighboursAre
  <2> DEFINE a == Offsets[i][1]
             b == Offsets[i][2]
             x == XOf(c)
             y == YOf(c)
  <2>2. Offsets[i] = <<a, b>> /\ a \in -1 .. 1 /\ b \in -1 .. 1 /\ ~ (a = 0 /\ b = 0)
    <3>1. Offsets[i] \in Int \X Int
      BY OffsetsAre
    <3> QED BY <3>1, OffsetsAre
  <2>3. x \in 0 .. Width - 1 /\ y \in 0 .. Height - 1
    BY RowAndColumn
  <2>4. x + a \in 0 .. Width - 1 /\ y + b \in 0 .. Height - 1
    BY <2>1 DEF Near, InGrid
  <2>5. n = (y + b) * Width + (x + a)
    <3>1. n = (y + b) * Width + x + a
      BY <2>1 DEF At
    <3>2. (y + b) * Width \in Int /\ x \in Int /\ a \in Int
      BY <1>1, <2>2, <2>3
    <3> DEFINE p == (y + b) * Width
    <3> HIDE DEF p, x, a
    <3> QED BY <3>1, <3>2 DEF p
  <2>6. n \in Cells /\ XOf(n) = x + a /\ YOf(n) = y + b
    BY <2>4, <2>5, RowAndColumn
  <2>7. n # c
    BY <2>2, <2>3, <2>6
  <2>8. PICK j \in DOMAIN Offsets : Offsets[j][1] = -a /\ Offsets[j][2] = -b
    BY OffsetsAre
  <2>9. Near(n, Offsets[j])
    <3>1. XOf(n) + Offsets[j][1] = x /\ YOf(n) + Offsets[j][2] = y
      <4> HIDE DEF a, b, x, y
      <4> QED BY <2>2, <2>3, <2>6, <2>8
    <3> QED BY <3>1, <2>3 DEF Near, InGrid
  <2>10. At(n, Offsets[j]) = c
    <3>1. (YOf(n) + Offsets[j][2]) = y
      <4> HIDE DEF a, b, x, y
      <4> QED BY <2>2, <2>3, <2>6, <2>8
    <3>2. y * Width \in Int
      BY <1>1, <2>3
    <3> DEFINE p == y * Width
    <3>3. At(n, Offsets[j]) = p + XOf(n) + Offsets[j][1]
      BY <3>1 DEF At
    <3>4. p + XOf(n) + Offsets[j][1] = p + x
      <4> HIDE DEF p, a, b, x, y
      <4> QED BY <2>2, <2>3, <2>6, <2>8, <3>2 DEF p
    <3>5. c = p + x
      BY RowAndColumn
    <3> QED BY <3>3, <3>4, <3>5
  <2> QED BY <2>6, <2>7, <2>8, <2>9, <2>10, NeighboursAre
<1> QED BY <1>2

-----------------------------------------------------------------------------
\* The queues of the flood: every cell is queued at its elevation, the cells of
\* the front at the key pulled last.
Entries(K) == {<<K[c], c>> : c \in Cells}

Queues(K) ==
  {q \in [last : Int, front : Seq(Cells),
          rest : UNION {[D -> Nat \ {0}] : D \in SUBSET Entries(K)}] :
     \A i \in DOMAIN q.front : K[q.front[i]] = q.last}

\* The parts of a queue: a stack at the key pulled last and a bag of the rest.
LEMMA QueueParts ==
  ASSUME NEW K \in [Cells -> Nat], NEW q \in Queues(K)
  PROVE  /\ q = [last |-> q.last, front |-> q.front, rest |-> q.rest]
         /\ q.last \in Int /\ q.front \in Seq(Cells)
         /\ DOMAIN q.rest \subseteq Entries(K)
         /\ q.rest \in [DOMAIN q.rest -> Nat \ {0}]
         /\ \A i \in DOMAIN q.front : K[q.front[i]] = q.last
         /\ Queued(q) = {<<K[c], c>> : c \in ToSet(q.front)} \cup DOMAIN q.rest
         /\ Queued(q) \subseteq Entries(K)
<1>1. /\ q = [last |-> q.last, front |-> q.front, rest |-> q.rest]
      /\ q.last \in Int /\ q.front \in Seq(Cells)
      /\ \A i \in DOMAIN q.front : K[q.front[i]] = q.last
  BY DEF Queues
<1>2. PICK D \in SUBSET Entries(K) : q.rest \in [D -> Nat \ {0}]
  BY DEF Queues
<1>3. DOMAIN q.rest \subseteq Entries(K) /\ q.rest \in [DOMAIN q.rest -> Nat \ {0}]
  BY <1>2
<1>4. {<<q.last, q.front[i]>> : i \in DOMAIN q.front} = {<<K[c], c>> : c \in ToSet(q.front)}
  BY <1>1 DEF ToSet
<1>5. \A c \in ToSet(q.front) : c \in Cells
  BY <1>1 DEF ToSet
<1> QED BY <1>1, <1>3, <1>4, <1>5 DEF Queued, Entries

\* What has those parts is a queue.
LEMMA QueueMade ==
  ASSUME NEW K \in [Cells -> Nat], NEW l \in Int, NEW f \in Seq(Cells), NEW r,
         DOMAIN r \subseteq Entries(K), r \in [DOMAIN r -> Nat \ {0}],
         \A i \in DOMAIN f : K[f[i]] = l
  PROVE  [last |-> l, front |-> f, rest |-> r] \in Queues(K)
<1>1. r \in UNION {[D -> Nat \ {0}] : D \in SUBSET Entries(K)}
  OBVIOUS
<1> QED BY <1>1 DEF Queues

\* A push adds its entry and no other.
LEMMA PushAdds ==
  ASSUME NEW K \in [Cells -> Nat], NEW q \in Queues(K), NEW v \in Cells
  PROVE  /\ Push(q, K[v], v) \in Queues(K)
         /\ Push(q, K[v], v).last = q.last
         /\ Queued(Push(q, K[v], v)) = Queued(q) \cup {<<K[v], v>>}
<1> DEFINE p == Push(q, K[v], v)
<1>1. /\ q = [last |-> q.last, front |-> q.front, rest |-> q.rest]
      /\ q.last \in Int /\ q.front \in Seq(Cells)
      /\ DOMAIN q.rest \subseteq Entries(K)
      /\ q.rest \in [DOMAIN q.rest -> Nat \ {0}]
      /\ \A i \in DOMAIN q.front : K[q.front[i]] = q.last
      /\ Queued(q) = {<<K[c], c>> : c \in ToSet(q.front)} \cup DOMAIN q.rest
  BY QueueParts
<1>2. CASE K[v] = q.last
  <2> DEFINE f == Append(q.front, v)
  <2>1. p = [last |-> q.last, front |-> f, rest |-> q.rest]
    BY <1>1, <1>2 DEF Push
  <2>2. f \in Seq(Cells) /\ ToSet(f) = ToSet(q.front) \cup {v}
    BY <1>1, AppendSet
  <2>3. \A i \in DOMAIN f : K[f[i]] = q.last
    <3>1. \A c \in ToSet(q.front) \cup {v} : K[c] = q.last
      BY <1>1, <1>2 DEF ToSet
    <3> HIDE DEF f
    <3> QED BY <2>2, <3>1 DEF ToSet
  <2>4. p \in Queues(K)
    <3> HIDE DEF f, p
    <3> QED BY <1>1, <2>1, <2>2, <2>3, QueueMade
  <2>5. p.front = f /\ p.rest = q.rest /\ p.last = q.last
    BY <2>1
  <2>6. Queued(p) = {<<K[c], c>> : c \in ToSet(f)} \cup DOMAIN q.rest
    <3> HIDE DEF f, p
    <3> QED BY <2>4, <2>5, QueueParts
  <2> HIDE DEF p, f
  <2>7. Queued(p) = Queued(q) \cup {<<K[v], v>>}
    BY <1>1, <2>2, <2>6
  <2> QED BY <2>4, <2>5, <2>7 DEF p
<1>3. CASE K[v] # q.last
  <2> DEFINE r == q.rest (+) SetToBag({<<K[v], v>>})
  <2>1. p = [last |-> q.last, front |-> q.front, rest |-> r]
    BY <1>1, <1>3 DEF Push
  <2>2. DOMAIN r = DOMAIN q.rest \cup {<<K[v], v>>}
    BY DEF (+), SetToBag
  <2>3. r \in [DOMAIN r -> Nat \ {0}]
    BY <1>1 DEF (+), SetToBag
  <2>4. p \in Queues(K)
    <3>1. DOMAIN r \subseteq Entries(K)
      BY <1>1, <2>2 DEF Entries
    <3> HIDE DEF r, p
    <3> QED BY <1>1, <2>1, <2>3, <3>1, QueueMade
  <2>5. p.front = q.front /\ p.rest = r /\ p.last = q.last
    BY <2>1
  <2>6. Queued(p) = {<<K[c], c>> : c \in ToSet(q.front)} \cup DOMAIN r
    <3> HIDE DEF r, p
    <3> QED BY <2>4, <2>5, QueueParts
  <2> HIDE DEF p, r
  <2>7. Queued(p) = Queued(q) \cup {<<K[v], v>>}
    BY <1>1, <2>2, <2>6
  <2> QED BY <2>4, <2>5, <2>7 DEF p
<1> QED BY <1>2, <1>3

\* What is pushed at the key pulled last comes to lie on top of the front, and the
\* rest holds no such key.
Away(q) == \A e \in DOMAIN q.rest : e[1] # q.last

OnTop(p, q, T) ==
  /\ Len(p.front) >= Len(q.front)
  /\ \A i \in 1 .. Len(q.front) : p.front[i] = q.front[i]
  /\ \A i \in Len(q.front) + 1 .. Len(p.front) : p.front[i] \in T
  /\ Away(q) => Away(p)

PutOnTop(p, q, v) == \E i \in Len(q.front) + 1 .. Len(p.front) : p.front[i] = v

\* A push leaves the front in place; at the current key it goes on top of it.
LEMMA PushOnTop ==
  ASSUME NEW K \in [Cells -> Nat], NEW q \in Queues(K), NEW p \in Queues(K), p.last = q.last,
         NEW T, OnTop(p, q, T), NEW v \in Cells, v \in T
  PROVE  /\ OnTop(Push(p, K[v], v), q, T)
         /\ \A w : PutOnTop(p, q, w) => PutOnTop(Push(p, K[v], v), q, w)
         /\ K[v] = q.last => PutOnTop(Push(p, K[v], v), q, v)
<1> DEFINE r == Push(p, K[v], v)
<1>1. /\ p = [last |-> p.last, front |-> p.front, rest |-> p.rest]
      /\ p.front \in Seq(Cells) /\ q.front \in Seq(Cells)
  BY QueueParts
<1>2. Len(p.front) \in Nat /\ Len(q.front) \in Nat
  BY <1>1
<1>3. CASE K[v] = q.last
  <2> DEFINE f == Append(p.front, v)
  <2>1. r.front = f /\ r.rest = p.rest /\ r.last = p.last
    BY <1>1, <1>3 DEF Push
  <2>2. /\ Len(f) = Len(p.front) + 1 /\ f[Len(p.front) + 1] = v
        /\ \A i \in 1 .. Len(p.front) : f[i] = p.front[i]
    BY <1>1
  <2>3. Len(q.front) <= Len(p.front)
    BY DEF OnTop
  <2> HIDE DEF f, r
  <2>4. \A i \in 1 .. Len(q.front) : f[i] = q.front[i]
    BY <1>2, <2>2, <2>3 DEF OnTop
  <2>5. \A i \in Len(q.front) + 1 .. Len(f) : f[i] \in T
    <3> SUFFICES ASSUME NEW i \in Len(q.front) + 1 .. Len(f) PROVE f[i] \in T
      OBVIOUS
    <3>1. \/ i = Len(p.front) + 1
          \/ i \in Len(q.front) + 1 .. Len(p.front) /\ i \in 1 .. Len(p.front)
      BY <1>2, <2>2
    <3> QED BY <2>2, <3>1 DEF OnTop
  <2>6. OnTop(r, q, T)
    BY <1>2, <2>1, <2>2, <2>3, <2>4, <2>5 DEF OnTop, Away
  <2>7. ASSUME NEW w, PutOnTop(p, q, w) PROVE PutOnTop(r, q, w)
    <3>1. PICK i \in Len(q.front) + 1 .. Len(p.front) : p.front[i] = w
      BY <2>7 DEF PutOnTop
    <3>2. i \in Len(q.front) + 1 .. Len(f) /\ i \in 1 .. Len(p.front)
      BY <1>2, <2>2
    <3> QED BY <2>1, <2>2, <3>1, <3>2 DEF PutOnTop
  <2>8. PutOnTop(r, q, v)
    <3>1. Len(p.front) + 1 \in Len(q.front) + 1 .. Len(f)
      BY <1>2, <2>2, <2>3
    <3> QED BY <2>1, <2>2, <3>1 DEF PutOnTop
  <2> QED BY <2>6, <2>7, <2>8 DEF r
<1>4. CASE K[v] # q.last
  <2>1. r.front = p.front /\ r.last = p.last /\ r.rest = p.rest (+) SetToBag({<<K[v], v>>})
    BY <1>1, <1>4 DEF Push
  <2>2. DOMAIN r.rest = DOMAIN p.rest \cup {<<K[v], v>>}
    BY <2>1 DEF (+), SetToBag
  <2> HIDE DEF r
  <2>3. Away(p) => Away(r)
    BY <1>4, <2>1, <2>2 DEF Away
  <2>4. OnTop(r, q, T)
    BY <2>1, <2>3 DEF OnTop
  <2> QED BY <1>4, <2>1, <2>4 DEF PutOnTop, r
<1> QED BY <1>3, <1>4

-----------------------------------------------------------------------------
\* Pushing the cells of T that a sequence has is one push after the other.
IsPushing(it, q, K, s, T) ==
  /\ it[{}] = q
  /\ \A i \in 1 .. Len(s) :
       it[1 .. i] = IF s[i] \in T THEN Push(it[1 .. i - 1], K[s[i]], s[i]) ELSE it[1 .. i - 1]
  /\ PushAll(q, K, s, T) = it[1 .. Len(s)]

LEMMA PushingExists ==
  ASSUME NEW K \in [Cells -> Nat], NEW q \in Queues(K), NEW s \in Seq(Cells), NEW T
  PROVE  \E it : IsPushing(it, q, K, s, T)
<1> DEFINE k == Len(s)
           V == Queues(K)
           Op == [a \in (1 .. k) \X V |->
                    IF s[a[1]] \in T THEN Push(a[2], K[s[a[1]]], s[a[1]]) ELSE a[2]]
           Is(f) == f = [S \in SUBSET DOMAIN s |->
                           IF S = {} THEN q
                           ELSE LET x == Max(S)
                                IN  IF s[x] \in T
                                    THEN Push(f[S \ {x}], K[s[x]], s[x])
                                    ELSE f[S \ {x}]]
           it == CHOOSE f : Is(f)
<1>1. k \in Nat /\ DOMAIN s = 1 .. k /\ \A i \in 1 .. k : s[i] \in Cells
  OBVIOUS
<1>2. Op \in [(1 .. k) \X V -> V]
  <2>1. ASSUME NEW a \in (1 .. k) \X V
        PROVE  (IF s[a[1]] \in T THEN Push(a[2], K[s[a[1]]], s[a[1]]) ELSE a[2]) \in V
    <3>1. a[1] \in 1 .. k /\ a[2] \in Queues(K) /\ s[a[1]] \in Cells
      BY <1>1
    <3> QED BY <3>1, PushAdds
  <2> HIDE DEF V
  <2> QED BY <2>1
<1>3. PICK F : IsFold(F, k, V, q, Op)
  <2> HIDE DEF Op, V, k
  <2>1. q \in V
    BY DEF V
  <2> QED BY <1>1, <1>2, <2>1, FoldExists
<1>4. Is(F)
  <2>1. ASSUME NEW S \in SUBSET (1 .. k), S # {}
        PROVE  F[S] = IF s[Max(S)] \in T
                      THEN Push(F[S \ {Max(S)}], K[s[Max(S)]], s[Max(S)])
                      ELSE F[S \ {Max(S)}]
    <3>1. Max(S) \in S
      <4>1. S \subseteq 0 .. k
        OBVIOUS
      <4> HIDE DEF k
      <4> QED BY <1>1, <2>1, <4>1, MaxOfBounded
    <3>2. F[S \ {Max(S)}] \in V
      BY <1>3 DEF IsFold
    <3>3. F[S] = Op[<<Max(S), F[S \ {Max(S)}]>>]
      BY <1>3, <2>1 DEF IsFold
    <3> HIDE DEF V
    <3> QED BY <3>1, <3>2, <3>3
  <2>2. F = [S \in SUBSET (1 .. k) |-> F[S]]
    BY <1>3 DEF IsFold
  <2>3. F[{}] = q
    BY <1>3 DEF IsFold
  <2> HIDE DEF V, Op
  <2> QED BY <2>1, <2>2, <2>3, <1>1
<1>5. Is(it)
  <2> HIDE DEF Is
  <2> QED BY <1>4
<1>6. it[{}] = q
  BY <1>5
<1>7. ASSUME NEW i \in 1 .. k
      PROVE  it[1 .. i] = IF s[i] \in T THEN Push(it[1 .. i - 1], K[s[i]], s[i])
                          ELSE it[1 .. i - 1]
  <2>1. 1 .. i # {} /\ Max(1 .. i) = i /\ (1 .. i) \ {i} = 1 .. i - 1
    <3>1. i \in Nat \ {0}
      BY <1>1
    <3> HIDE DEF k, it
    <3> QED BY <3>1, Prefix
  <2>2. 1 .. i \in SUBSET DOMAIN s
    BY <1>1
  <2>3. it[1 .. i] = IF s[i] \in T THEN Push(it[(1 .. i) \ {i}], K[s[i]], s[i])
                     ELSE it[(1 .. i) \ {i}]
    <3> HIDE DEF it, k
    <3> QED BY <1>5, <2>1, <2>2
  <2> HIDE DEF it, k
  <2> QED BY <2>1, <2>3
<1>8. PushAll(q, K, s, T) = it[1 .. k]
  BY <1>1 DEF PushAll, FoldLeft, MapThenFoldSet
<1> HIDE DEF it
<1> QED BY <1>6, <1>7, <1>8 DEF IsPushing

\* Pushing the cells of T adds their entries and no others, and puts those at the
\* current key on top of the front.
LEMMA PushAllAdds ==
  ASSUME NEW K \in [Cells -> Nat], NEW q \in Queues(K), NEW s \in Seq(Cells), NEW T
  PROVE  /\ PushAll(q, K, s, T) \in Queues(K)
         /\ PushAll(q, K, s, T).last = q.last
         /\ Queued(PushAll(q, K, s, T)) = Queued(q) \cup {<<K[v], v>> : v \in ToSet(s) \cap T}
         /\ OnTop(PushAll(q, K, s, T), q, T)
         /\ \A v \in ToSet(s) \cap T : K[v] = q.last => PutOnTop(PushAll(q, K, s, T), q, v)
<1> DEFINE k == Len(s)
<1>1. k \in Nat /\ DOMAIN s = 1 .. k /\ \A i \in 1 .. k : s[i] \in Cells
  OBVIOUS
<1>2. PICK it : IsPushing(it, q, K, s, T)
  BY PushingExists
<1>6. it[{}] = q
  BY <1>2 DEF IsPushing
<1>7. ASSUME NEW i \in 1 .. k
      PROVE  it[1 .. i] = IF s[i] \in T THEN Push(it[1 .. i - 1], K[s[i]], s[i])
                          ELSE it[1 .. i - 1]
  BY <1>2 DEF IsPushing
<1>8. PushAll(q, K, s, T) = it[1 .. k]
  BY <1>2 DEF IsPushing
<1> DEFINE New(i) == {<<K[v], v>> : v \in {s[j] : j \in 1 .. i} \cap T}
           Runs(i) == /\ it[1 .. i] \in Queues(K)
                     /\ it[1 .. i].last = q.last
                     /\ Queued(it[1 .. i]) = Queued(q) \cup New(i)
                     /\ OnTop(it[1 .. i], q, T)
                     /\ \A v \in {s[j] : j \in 1 .. i} \cap T :
                          K[v] = q.last => PutOnTop(it[1 .. i], q, v)
           G == {i \in 0 .. k : Runs(i)}
<1> HIDE DEF k
<1>9. 0 \in G
  <2>1. 1 .. 0 = {} /\ New(0) = {}
    OBVIOUS
  <2>2. OnTop(q, q, T)
    <3>1. Len(q.front) \in Nat
      BY QueueParts
    <3> QED BY <3>1 DEF OnTop
  <2>3. Runs(0)
    BY <1>6, <2>1, <2>2
  <2> HIDE DEF Runs
  <2> QED BY <2>3, <1>1
<1>10. ASSUME NEW i \in 0 .. k - 1, i \in G PROVE i + 1 \in G
  <2> DEFINE p == it[1 .. i]
  <2>1. Runs(i) /\ i + 1 \in 1 .. k /\ (i + 1) - 1 = i /\ s[i + 1] \in Cells
    BY <1>1, <1>10
  <2>2. {s[j] : j \in 1 .. i + 1} = {s[j] : j \in 1 .. i} \cup {s[i + 1]}
    BY <2>1
  <2>3. CASE s[i + 1] \in T
    <3>1. it[1 .. i + 1] = Push(p, K[s[i + 1]], s[i + 1])
      BY <2>1, <2>3, <1>7
    <3>2. New(i + 1) = New(i) \cup {<<K[s[i + 1]], s[i + 1]>>}
      <4>1. {s[j] : j \in 1 .. i + 1} \cap T = ({s[j] : j \in 1 .. i} \cap T) \cup {s[i + 1]}
        BY <2>2, <2>3
      <4> QED BY <4>1
    <3>3. /\ it[1 .. i + 1] \in Queues(K)
          /\ it[1 .. i + 1].last = p.last
          /\ Queued(it[1 .. i + 1]) = Queued(p) \cup {<<K[s[i + 1]], s[i + 1]>>}
          /\ OnTop(it[1 .. i + 1], q, T)
          /\ \A w : PutOnTop(p, q, w) => PutOnTop(it[1 .. i + 1], q, w)
          /\ K[s[i + 1]] = q.last => PutOnTop(it[1 .. i + 1], q, s[i + 1])
      <4> DEFINE v == s[i + 1]
                 r == it[1 .. i + 1]
      <4>1. /\ p \in Queues(K) /\ v \in Cells /\ r = Push(p, K[v], v)
            /\ p.last = q.last /\ OnTop(p, q, T) /\ v \in T
        BY <2>1, <2>3, <3>1
      <4> HIDE DEF p, v, r
      <4>2. /\ r \in Queues(K)
            /\ r.last = p.last
            /\ Queued(r) = Queued(p) \cup {<<K[v], v>>}
            /\ OnTop(r, q, T)
            /\ \A w : PutOnTop(p, q, w) => PutOnTop(r, q, w)
            /\ K[v] = q.last => PutOnTop(r, q, v)
        BY <4>1, PushAdds, PushOnTop
      <4> QED BY <4>2 DEF v, r
    <3> HIDE DEF New
    <3>4. Runs(i + 1)
      <4>1. \A v \in {s[j] : j \in 1 .. i + 1} \cap T :
              K[v] = q.last => PutOnTop(it[1 .. i + 1], q, v)
        BY <2>1, <2>2, <3>3
      <4>2. Queued(it[1 .. i + 1]) = Queued(q) \cup New(i + 1)
        BY <2>1, <3>2, <3>3
      <4> HIDE DEF New
      <4> QED BY <2>1, <3>3, <4>1, <4>2
    <3> HIDE DEF Runs
    <3> QED BY <2>1, <3>4
  <2>4. CASE s[i + 1] \notin T
    <3>1. it[1 .. i + 1] = p
      BY <2>1, <2>4, <1>7
    <3>2. New(i + 1) = New(i)
      <4>1. {s[j] : j \in 1 .. i + 1} \cap T = {s[j] : j \in 1 .. i} \cap T
        BY <2>2, <2>4
      <4> QED BY <4>1
    <3> HIDE DEF New
    <3>3. Runs(i + 1)
      BY <2>1, <2>2, <2>4, <3>1, <3>2
    <3> HIDE DEF Runs
    <3> QED BY <2>1, <3>3
  <2> QED BY <2>3, <2>4
<1>11. Runs(k)
  <2>1. 0 .. k \subseteq G
    <3> HIDE DEF G
    <3> QED BY <1>1, <1>9, <1>10, Upwards
  <2> HIDE DEF Runs
  <2> QED BY <1>1, <2>1
<1>12. ToSet(s) = {s[j] : j \in 1 .. k}
  BY <1>1 DEF ToSet
<1> QED BY <1>8, <1>11, <1>12

-----------------------------------------------------------------------------
\* How much is queued: the front and the copies in the bag, as Ascending counts them.
CopiesOf(b) == UNION {{v} \X (1 .. b[v]) : v \in DOMAIN b}
QueueSize(q) == Len(q.front) + Cardinality(CopiesOf(q.rest))

LEMMA CopiesFinite ==
  ASSUME NEW D, IsFiniteSet(D), NEW b \in [D -> Nat \ {0}]
  PROVE  IsFiniteSet(CopiesOf(b))
<1> DEFINE piece == [v \in D |-> {v} \X (1 .. b[v])]
           pieces == {piece[v] : v \in D}
<1>1. IsFiniteSet(pieces)
  <2>1. piece \in Surjection(D, pieces)
    BY Fun_IsSurj
  <2> HIDE DEF piece, pieces
  <2> QED BY <2>1, FS_Surjection
<1>2. \A S \in pieces : IsFiniteSet(S)
  <2> SUFFICES ASSUME NEW v \in D PROVE IsFiniteSet({v} \X (1 .. b[v]))
    OBVIOUS
  <2>1. IsFiniteSet({v})
    BY FS_Singleton
  <2>2. IsFiniteSet(1 .. b[v])
    <3>1. b[v] \in Int /\ 1 \in Int
      OBVIOUS
    <3> QED BY <3>1, FS_Interval
  <2> QED BY <2>1, <2>2, FS_Product
<1>3. CopiesOf(b) = UNION pieces
  BY DEF CopiesOf
<1> HIDE DEF pieces
<1> QED BY <1>1, <1>2, <1>3, FS_UNION

\* The sizes are numbers.
LEMMA SizeType ==
  ASSUME NEW K \in [Cells -> Nat], NEW q \in Queues(K)
  PROVE  /\ IsFiniteSet(CopiesOf(q.rest)) /\ Cardinality(CopiesOf(q.rest)) \in Nat
         /\ Len(q.front) \in Nat /\ QueueSize(q) \in Nat
<1>1. /\ q.front \in Seq(Cells) /\ DOMAIN q.rest \subseteq Entries(K)
      /\ q.rest \in [DOMAIN q.rest -> Nat \ {0}]
  BY QueueParts
<1>2. IsFiniteSet(Entries(K))
  <2> DEFINE f == [c \in Cells |-> <<K[c], c>>]
  <2>1. f \in Surjection(Cells, Entries(K))
    <3>1. f \in [Cells -> Entries(K)] /\ \A e \in Entries(K) : \E c \in Cells : f[c] = e
      BY DEF Entries
    <3> HIDE DEF f
    <3> QED BY <3>1, Fun_IsSurj
  <2> HIDE DEF f
  <2> QED BY <2>1, CellCount, FS_Surjection
<1>3. IsFiniteSet(DOMAIN q.rest)
  BY <1>1, <1>2, FS_Subset
<1>4. IsFiniteSet(CopiesOf(q.rest)) /\ Cardinality(CopiesOf(q.rest)) \in Nat
  BY <1>1, <1>3, CopiesFinite, FS_CardinalityType
<1>5. Len(q.front) \in Nat
  BY <1>1
<1> QED BY <1>4, <1>5 DEF QueueSize

\* A push adds one.
LEMMA PushSize ==
  ASSUME NEW K \in [Cells -> Nat], NEW q \in Queues(K), NEW v \in Cells
  PROVE  QueueSize(Push(q, K[v], v)) = QueueSize(q) + 1
<1> DEFINE p == Push(q, K[v], v)
           e == <<K[v], v>>
<1>1. /\ q = [last |-> q.last, front |-> q.front, rest |-> q.rest]
      /\ q.front \in Seq(Cells) /\ q.rest \in [DOMAIN q.rest -> Nat \ {0}]
  BY QueueParts
<1>2. /\ IsFiniteSet(CopiesOf(q.rest)) /\ Cardinality(CopiesOf(q.rest)) \in Nat
      /\ Len(q.front) \in Nat
  BY SizeType
<1>3. CASE K[v] = q.last
  <2>1. p.front = Append(q.front, v) /\ p.rest = q.rest
    BY <1>1, <1>3 DEF Push
  <2>2. Len(p.front) = Len(q.front) + 1
    BY <1>1, <2>1
  <2> HIDE DEF p
  <2>3. QueueSize(p) = QueueSize(q) + 1
    BY <1>2, <2>1, <2>2 DEF QueueSize
  <2> QED BY <2>3 DEF p
<1>4. CASE K[v] # q.last
  <2> DEFINE r == q.rest (+) SetToBag({e})
             m == IF e \in DOMAIN q.rest THEN q.rest[e] + 1 ELSE 1
  <2>1. p.front = q.front /\ p.rest = r
    BY <1>1, <1>4 DEF Push
  <2>2. /\ DOMAIN r = DOMAIN q.rest \cup {e} /\ r[e] = m
        /\ \A x \in DOMAIN q.rest : x # e => r[x] = q.rest[x]
    BY <1>1 DEF (+), SetToBag
  <2>3. m \in Nat \ {0} /\ \A x \in DOMAIN q.rest : q.rest[x] \in Nat \ {0}
    BY <1>1
  <2>4. e \in DOMAIN q.rest => q.rest[e] = m - 1
    BY <2>3
  <2>5. e \notin DOMAIN q.rest => m = 1
    OBVIOUS
  <2> HIDE DEF p, e, r, m
  <2>6. <<e, m>> \notin CopiesOf(q.rest)
    <3> SUFFICES ASSUME <<e, m>> \in CopiesOf(q.rest) PROVE FALSE
      OBVIOUS
    <3>1. e \in DOMAIN q.rest /\ m \in 1 .. q.rest[e]
      BY DEF CopiesOf
    <3> QED BY <2>3, <2>4, <3>1
  <2>7. CopiesOf(r) = CopiesOf(q.rest) \cup {<<e, m>>}
    <3>1. ASSUME NEW c \in CopiesOf(r) PROVE c \in CopiesOf(q.rest) \cup {<<e, m>>}
      <4>1. PICK x \in DOMAIN r : c \in {x} \X (1 .. r[x])
        BY DEF CopiesOf
      <4>2. PICK i \in 1 .. r[x] : c = <<x, i>>
        BY <4>1
      <4>3. CASE x # e
        BY <2>2, <4>1, <4>3 DEF CopiesOf
      <4>4. CASE x = e /\ i # m
        <5>1. i \in 1 .. m /\ i # m
          BY <2>2, <4>2, <4>4
        <5>2. e \in DOMAIN q.rest
          BY <2>5, <5>1
        <5>3. i \in 1 .. q.rest[e]
          BY <2>3, <2>4, <5>1, <5>2
        <5> QED BY <4>2, <4>4, <5>2, <5>3 DEF CopiesOf
      <4> QED BY <4>2, <4>3, <4>4
    <3>2. <<e, m>> \in CopiesOf(r)
      <4>1. e \in DOMAIN r /\ m \in 1 .. r[e]
        BY <2>2, <2>3
      <4> QED BY <4>1 DEF CopiesOf
    <3>3. ASSUME NEW c \in CopiesOf(q.rest) PROVE c \in CopiesOf(r)
      <4>1. PICK x \in DOMAIN q.rest : c \in {x} \X (1 .. q.rest[x])
        BY DEF CopiesOf
      <4>2. PICK i \in 1 .. q.rest[x] : c = <<x, i>>
        BY <4>1
      <4>3. x \in DOMAIN r /\ i \in 1 .. r[x]
        BY <2>2, <2>3, <2>4, <4>2
      <4> QED BY <4>2, <4>3 DEF CopiesOf
    <3> QED BY <3>1, <3>2, <3>3
  <2>8. Cardinality(CopiesOf(r)) = Cardinality(CopiesOf(q.rest)) + 1
    BY <1>2, <2>6, <2>7, FS_AddElement
  <2>9. QueueSize(p) = QueueSize(q) + 1
    BY <1>2, <2>1, <2>8 DEF QueueSize
  <2> QED BY <2>9 DEF p, e
<1> QED BY <1>3, <1>4

\* Pushing distinct cells adds as many as there are.
LEMMA PushAllSize ==
  ASSUME NEW K \in [Cells -> Nat], NEW q \in Queues(K), NEW s \in Seq(Cells), Distinct(s), NEW T,
         NEW S, S = ToSet(s) \cap T
  PROVE  QueueSize(PushAll(q, K, s, T)) = QueueSize(q) + Cardinality(S)
<1> DEFINE k == Len(s)
           Part(i) == {s[j] : j \in 1 .. i} \cap T
<1>1. k \in Nat /\ DOMAIN s = 1 .. k /\ \A i \in 1 .. k : s[i] \in Cells
  OBVIOUS
<1>2. PICK it : IsPushing(it, q, K, s, T)
  BY PushingExists
<1> DEFINE Runs(i) == /\ it[1 .. i] \in Queues(K) /\ IsFiniteSet(Part(i))
                     /\ QueueSize(it[1 .. i]) = QueueSize(q) + Cardinality(Part(i))
           G == {i \in 0 .. k : Runs(i)}
<1>3. QueueSize(q) \in Nat
  BY SizeType
<1>4. 0 \in G
  <2>1. 1 .. 0 = {} /\ Part(0) = {}
    OBVIOUS
  <2>2. IsFiniteSet({}) /\ Cardinality({}) = 0
    BY FS_EmptySet
  <2>3. it[1 .. 0] = q
    BY <1>2, <2>1 DEF IsPushing
  <2> HIDE DEF Part
  <2>4. it[1 .. 0] \in Queues(K)
    BY <2>3
  <2>5. IsFiniteSet(Part(0)) /\ Cardinality(Part(0)) = 0
    BY <2>1, <2>2
  <2>6. QueueSize(it[1 .. 0]) = QueueSize(q) + Cardinality(Part(0))
    BY <1>3, <2>3, <2>5
  <2>7. Runs(0)
    BY <2>4, <2>5, <2>6
  <2> HIDE DEF Runs
  <2> QED BY <1>1, <2>7
<1>5. ASSUME NEW i \in 0 .. k - 1, i \in G PROVE i + 1 \in G
  <2>0. i + 1 \in 1 .. k /\ i + 1 \in 0 .. k /\ (i + 1) - 1 = i /\ s[i + 1] \in Cells
    <3> HIDE DEF G, k
    <3> QED BY <1>1
  <2>01. Runs(i)
    <3> HIDE DEF Runs
    <3> QED BY <1>5
  <2>1. /\ Runs(i) /\ i + 1 \in 1 .. k /\ i + 1 \in 0 .. k /\ (i + 1) - 1 = i /\ s[i + 1] \in Cells
        /\ it[1 .. i] \in Queues(K)
    BY <2>0, <2>01
  <2> DEFINE v == s[i + 1]
  <2>2. {s[j] : j \in 1 .. i + 1} = {s[j] : j \in 1 .. i} \cup {v}
    BY <2>1
  <2>3. CASE v \in T
    <3>1. it[1 .. i + 1] = Push(it[1 .. i], K[v], v)
      BY <1>2, <2>1, <2>3 DEF IsPushing
    <3>2. Part(i + 1) = Part(i) \cup {v}
      BY <2>2, <2>3
    <3>3. v \notin Part(i)
      <4> SUFFICES ASSUME NEW j \in 1 .. i, s[j] = s[i + 1] PROVE FALSE
        OBVIOUS
      <4>1. j \in 1 .. k /\ j # i + 1
        BY <2>1
      <4> QED BY <1>1, <2>1, <4>1 DEF Distinct
    <3>4. it[1 .. i + 1] \in Queues(K) /\ QueueSize(it[1 .. i + 1]) = QueueSize(it[1 .. i]) + 1
      <4> DEFINE p == it[1 .. i]
      <4>1. p \in Queues(K) /\ v \in Cells
        BY <2>1
      <4> HIDE DEF p, v
      <4>2. Push(p, K[v], v) \in Queues(K) /\ QueueSize(Push(p, K[v], v)) = QueueSize(p) + 1
        BY <4>1, PushAdds, PushSize
      <4> QED BY <3>1, <4>2 DEF p
    <3> HIDE DEF Part, v
    <3>5. IsFiniteSet(Part(i + 1)) /\ Cardinality(Part(i + 1)) = Cardinality(Part(i)) + 1
      BY <2>1, <3>2, <3>3, FS_AddElement
    <3>6. Cardinality(Part(i)) \in Nat
      BY <2>1, FS_CardinalityType
    <3>7. Runs(i + 1)
      BY <1>3, <2>1, <3>4, <3>5, <3>6
    <3> HIDE DEF Runs
    <3> QED BY <2>1, <3>7
  <2>4. CASE v \notin T
    <3>1. it[1 .. i + 1] = it[1 .. i]
      BY <1>2, <2>1, <2>4 DEF IsPushing
    <3>2. Part(i + 1) = Part(i)
      BY <2>2, <2>4
    <3> HIDE DEF Part
    <3>3. Runs(i + 1)
      BY <2>1, <3>1, <3>2
    <3> HIDE DEF Runs
    <3> QED BY <2>1, <3>3
  <2> QED BY <2>3, <2>4
<1>6. k \in G
  <2>1. 0 .. k \subseteq G
    <3> HIDE DEF G, k
    <3> QED BY <1>1, <1>4, <1>5, Upwards
  <2>2. k \in 0 .. k
    BY <1>1
  <2> HIDE DEF G
  <2> QED BY <2>1, <2>2
<1>7. Part(k) = S
  BY <1>1 DEF ToSet
<1> QED BY <1>2, <1>6, <1>7 DEF IsPushing

-----------------------------------------------------------------------------
\* The members of a bag of cells in ascending order are its members.
LEMMA AscendingHolds ==
  ASSUME NEW D \in SUBSET Cells, NEW b \in [D -> Nat \ {0}], D # {}
  PROVE  Ascending(b) \in Seq(D) /\ ToSet(Ascending(b)) = D /\ Ascending(b) # <<>>
<1> DEFINE copies == UNION {{v} \X (1 .. b[v]) : v \in DOMAIN b}
           upTo(v) == Cardinality({e \in copies : e[1] <= v})
           n == Cardinality(copies)
           above(i) == {v \in DOMAIN b : i <= upTo(v)}
<1>1. DOMAIN b = D /\ D \subseteq Nat /\ IsFiniteSet(D)
  BY CellCount, FS_Subset
<1>2. IsFiniteSet(copies)
  BY <1>1, CopiesFinite DEF CopiesOf
<1>3. \A e \in copies : e[1] \in D
  BY <1>1
<1>4. \A v \in D : <<v, 1>> \in copies
  <2> SUFFICES ASSUME NEW v \in D PROVE <<v, 1>> \in copies
    OBVIOUS
  <2>1. <<v, 1>> \in {v} \X (1 .. b[v])
    OBVIOUS
  <2> QED BY <1>1, <2>1
<1> HIDE DEF copies
<1>5. \A v : upTo(v) \in Nat /\ upTo(v) <= n
  BY <1>2, FS_Subset, FS_CardinalityType
<1>6. n \in Nat
  BY <1>2, FS_CardinalityType
<1>7. ASSUME NEW v \in D, NEW w \in D, w < v PROVE upTo(w) < upTo(v)
  <2> DEFINE W == {e \in copies : e[1] <= w}
             U == {e \in copies : e[1] <= v}
  <2>1. W \subseteq U
    <3> SUFFICES ASSUME NEW e \in W PROVE e \in U
      OBVIOUS
    <3>1. e \in copies /\ e[1] <= w /\ e[1] \in Nat /\ w \in Nat /\ v \in Nat
      BY <1>1, <1>3
    <3>2. e[1] <= v
      BY <3>1, <1>7
    <3> QED BY <3>1, <3>2
  <2>2. <<v, 1>> \in U /\ <<v, 1>> \notin W
    BY <1>1, <1>4, <1>7
  <2>3. IsFiniteSet(U)
    BY <1>2, FS_Subset
  <2>4. IsFiniteSet(W) /\ Cardinality(W) <= Cardinality(U) /\ Cardinality(W) # Cardinality(U)
    <3> HIDE DEF W, U
    <3> QED BY <2>1, <2>2, <2>3, FS_Subset
  <2>5. Cardinality(W) \in Nat /\ Cardinality(U) \in Nat
    BY <2>3, <2>4, FS_CardinalityType
  <2> QED BY <2>4, <2>5
<1>8. PICK g \in D : \A v \in D : v <= g
  <2>1. D \subseteq 0 .. N
    BY CellCount DEF Cells, N
  <2> QED BY <2>1, CellCount, Greatest
<1>9. upTo(g) = n
  <2>1. {e \in copies : e[1] <= g} = copies
    BY <1>3, <1>8
  <2> QED BY <2>1
<1>10. \A i \in 1 .. n : above(i) \subseteq D /\ above(i) # {}
  <2> SUFFICES ASSUME NEW i \in 1 .. n PROVE g \in above(i)
    BY <1>1
  <2> HIDE DEF upTo, n
  <2> QED BY <1>1, <1>8, <1>9, <1>6
<1>11. \A i \in 1 .. n : Min(above(i)) \in above(i) /\ \A v \in above(i) : Min(above(i)) <= v
  <2> HIDE DEF above, n
  <2> QED BY <1>1, <1>10, MinOfNats
<1>12. Ascending(b) = [i \in 1 .. n |-> Min(above(i))]
  BY DEF Ascending, copies
<1> HIDE DEF upTo, n
<1>13. Ascending(b) \in Seq(D)
  <2>1. \A i \in 1 .. n : Min(above(i)) \in D
    BY <1>10, <1>11
  <2> HIDE DEF above
  <2> QED BY <1>6, <1>12, <2>1
<1>14. ASSUME NEW v \in D PROVE v \in ToSet(Ascending(b))
  <2>1. upTo(v) \in 1 .. n
    <3>1. upTo(v) >= 1
      <4>1. {e \in copies : e[1] <= v} # {}
        <5>1. <<v, 1>> \in {e \in copies : e[1] <= v}
          BY <1>1, <1>4
        <5> QED BY <5>1
      <4>2. IsFiniteSet({e \in copies : e[1] <= v})
        BY <1>2, FS_Subset
      <4>3. Cardinality({e \in copies : e[1] <= v}) # 0
        BY <4>1, <4>2, FS_EmptySet
      <4>4. upTo(v) # 0
        BY <4>3 DEF upTo
      <4> QED BY <4>4, <1>5
    <3> QED BY <3>1, <1>5, <1>6
  <2>2. v \in above(upTo(v))
    BY <1>1, <1>5
  <2>3. Min(above(upTo(v))) = v
    <3> DEFINE m == Min(above(upTo(v)))
    <3>1. m \in above(upTo(v)) /\ m <= v
      BY <2>1, <2>2, <1>11
    <3>2. m \in D /\ upTo(v) <= upTo(m)
      BY <3>1, <1>1
    <3> HIDE DEF m
    <3>3. ~ (m < v)
      BY <3>2, <1>5, <1>7
    <3>4. m \in Nat /\ v \in Nat
      BY <3>2, <1>1
    <3> QED BY <3>1, <3>3, <3>4 DEF m
  <2>4. Ascending(b)[upTo(v)] = v
    BY <1>12, <2>1, <2>3
  <2> HIDE DEF above
  <2> QED BY <1>12, <2>1, <2>4 DEF ToSet
<1>15. ToSet(Ascending(b)) \subseteq D
  BY <1>13 DEF ToSet
<1>16. ToSet(Ascending(b)) = D
  BY <1>14, <1>15
<1>17. Ascending(b) # <<>>
  <2>1. ToSet(<<>>) = {}
    BY DEF ToSet
  <2> QED BY <1>16, <2>1
<1> QED BY <1>13, <1>16, <1>17

-----------------------------------------------------------------------------
\* Pulling rearranges what is queued and changes nothing of it; the key pulled is
\* the smallest, if none was below the one pulled last.
LEMMA PulledHolds ==
  ASSUME NEW K \in [Cells -> Nat], NEW q \in Queues(K), ~ IsEmpty(q)
  PROVE  /\ Pulled(q) \in Queues(K)
         /\ Pulled(q).front # <<>>
         /\ Queued(Pulled(q)) = Queued(q)
         /\ (\A e \in Queued(q) : q.last <= e[1]) => \A e \in Queued(q) : Pulled(q).last <= e[1]
         /\ Away(q) => Away(Pulled(q))
<1>1. /\ q = [last |-> q.last, front |-> q.front, rest |-> q.rest]
      /\ q.last \in Int /\ q.front \in Seq(Cells)
      /\ DOMAIN q.rest \subseteq Entries(K)
      /\ q.rest \in [DOMAIN q.rest -> Nat \ {0}]
      /\ Queued(q) = {<<K[c], c>> : c \in ToSet(q.front)} \cup DOMAIN q.rest
  BY QueueParts
<1>2. CASE q.front # <<>>
  <2>1. Pulled(q) = q
    BY <1>2 DEF Pulled
  <2> QED BY <1>2, <2>1
<1>3. CASE q.front = <<>>
  <2> DEFINE E == DOMAIN q.rest
             keys == {e[1] : e \in E}
             key == Min(keys)
             lowest == {e \in E : e[1] = key}
             D == {e[2] : e \in lowest}
             b == [v \in D |-> q.rest[<<key, v>>]]
             r == Restrict(q.rest, E \ lowest)
  <2>1. \A e \in E : \E c \in Cells : e = <<K[c], c>>
    BY <1>1 DEF Entries
  <2>2. E # {}
    <3> SUFFICES ASSUME E = {} PROVE FALSE
      OBVIOUS
    <3>1. q.rest = EmptyBag
      BY <1>1 DEF EmptyBag, SetToBag
    <3> QED BY <1>3, <3>1 DEF IsEmpty
  <2>3. key \in keys /\ \A k \in keys : key <= k
    <3>1. keys \subseteq Nat /\ keys # {}
      BY <2>1, <2>2
    <3> HIDE DEF keys
    <3> QED BY <3>1, MinOfNats
  <2>4. key \in Nat
    BY <2>1, <2>3
  <2> HIDE DEF key
  <2>5. D \subseteq Cells /\ (\A c \in D : K[c] = key /\ <<key, c>> \in E) /\ D # {}
    BY <2>1, <2>3
  <2>6. b \in [D -> Nat \ {0}]
    <3> HIDE DEF D
    <3> QED BY <1>1, <2>5
  <2>7. Ascending(b) \in Seq(D) /\ ToSet(Ascending(b)) = D /\ Ascending(b) # <<>>
    <3> HIDE DEF D, b
    <3> QED BY <2>5, <2>6, AscendingHolds
  <2>8. Pulled(q) = [last |-> key, front |-> Ascending(b), rest |-> r]
    BY <1>3 DEF Pulled, key
  <2>9. DOMAIN r = E \ lowest /\ r \in [E \ lowest -> Nat \ {0}]
    BY <1>1 DEF Restrict
  <2> HIDE DEF b, r
  <2>10. Pulled(q) \in Queues(K)
    <3>1. Ascending(b) \in Seq(Cells)
      BY <2>5, <2>7
    <3>2. \A i \in DOMAIN Ascending(b) : K[Ascending(b)[i]] = key
      <4>1. \A i \in DOMAIN Ascending(b) : Ascending(b)[i] \in D
        BY <2>7 DEF ToSet
      <4> QED BY <2>5, <4>1
    <3>3. DOMAIN r \subseteq Entries(K) /\ r \in [DOMAIN r -> Nat \ {0}] /\ key \in Int
      BY <1>1, <2>4, <2>9
    <3> QED BY <2>8, <3>1, <3>2, <3>3, QueueMade
  <2>11. Queued(Pulled(q)) = Queued(q)
    <3>1. Queued(Pulled(q)) = {<<K[c], c>> : c \in D} \cup (E \ lowest)
      <4>1. Queued(Pulled(q))
              = {<<K[c], c>> : c \in ToSet(Pulled(q).front)} \cup DOMAIN Pulled(q).rest
        BY <2>10, QueueParts
      <4>2. ToSet(Pulled(q).front) = D /\ DOMAIN Pulled(q).rest = E \ lowest
        <5>1. Pulled(q).front = Ascending(b) /\ Pulled(q).rest = r
          BY <2>8
        <5> HIDE DEF D, E, lowest
        <5> QED BY <5>1, <2>7, <2>9
      <4> HIDE DEF D, E, lowest
      <4> QED BY <4>1, <4>2
    <3>2. {<<K[c], c>> : c \in D} = lowest
      BY <2>1, <2>5
    <3>3. Queued(q) = E
      BY <1>1, <1>3 DEF ToSet
    <3> HIDE DEF D, E
    <3> QED BY <3>1, <3>2, <3>3
  <2>12. \A e \in Queued(q) : Pulled(q).last <= e[1]
    <3>1. Queued(q) = E
      BY <1>1, <1>3 DEF ToSet
    <3>2. Pulled(q).last = key
      BY <2>8
    <3> QED BY <3>1, <3>2, <2>3
  <2>13. Pulled(q).front # <<>>
    BY <2>7, <2>8
  <2>14. Away(Pulled(q))
    <3>1. Pulled(q).rest = r /\ Pulled(q).last = key
      BY <2>8
    <3> QED BY <2>9, <3>1 DEF Away
  <2> QED BY <2>10, <2>11, <2>12, <2>13, <2>14
<1> QED BY <1>2, <1>3

\* Popping takes one occurrence of the top away, and the top has the key pulled
\* last.
LEMMA PopHolds ==
  ASSUME NEW K \in [Cells -> Nat], NEW q \in Queues(K), ~ IsEmpty(q)
  PROVE  LET top == <<K[TopValue(q)], TopValue(q)>>
         IN  /\ TopValue(q) \in Cells /\ top \in Queued(q)
             /\ Pop(q) \in Queues(K) /\ Pop(q).last = K[TopValue(q)]
             /\ Queued(q) \ {top} \subseteq Queued(Pop(q))
             /\ Queued(Pop(q)) \subseteq Queued(q)
             /\ (\A e \in Queued(q) : q.last <= e[1])
                  => \A e \in Queued(q) : K[TopValue(q)] <= e[1]
             /\ Away(q) => Away(Pop(q))
<1> DEFINE p == Pulled(q)
           s == p.front
           f == Front(s)
           t == TopValue(q)
<1>1. /\ p \in Queues(K) /\ s # <<>> /\ Queued(p) = Queued(q)
      /\ (\A e \in Queued(q) : q.last <= e[1]) => \A e \in Queued(q) : p.last <= e[1]
      /\ Away(q) => Away(p)
  BY PulledHolds
<1> HIDE DEF p
<1>2. /\ p = [last |-> p.last, front |-> p.front, rest |-> p.rest]
      /\ p.last \in Int /\ s \in Seq(Cells)
      /\ DOMAIN p.rest \subseteq Entries(K)
      /\ p.rest \in [DOMAIN p.rest -> Nat \ {0}]
      /\ \A i \in DOMAIN s : K[s[i]] = p.last
      /\ Queued(p) = {<<K[c], c>> : c \in ToSet(s)} \cup DOMAIN p.rest
  BY <1>1, QueueParts
<1> HIDE DEF s
<1>3. t = s[Len(s)]
  BY DEF TopValue, Last, s, p
<1>4. Len(s) \in Nat \ {0} /\ DOMAIN s = 1 .. Len(s)
  BY <1>1, <1>2
<1>5. /\ f \in Seq(Cells) /\ DOMAIN f = 1 .. Len(s) - 1
      /\ \A i \in DOMAIN f : f[i] = s[i]
  BY <1>2, <1>4 DEF Front
<1>6. ToSet(s) = ToSet(f) \cup {t}
  <2>1. 1 .. Len(s) = (1 .. Len(s) - 1) \cup {Len(s)}
    BY <1>4
  <2> HIDE DEF f, t
  <2> QED BY <1>3, <1>4, <1>5, <2>1 DEF ToSet
<1>7. t \in Cells /\ K[t] = p.last /\ t \in ToSet(s)
  BY <1>2, <1>3, <1>4 DEF ToSet
<1>8. Pop(q) = [last |-> p.last, front |-> f, rest |-> p.rest]
  <2>1. Pop(q) = [p EXCEPT !.front = f]
    BY DEF Pop, p, s, f
  <2> QED BY <1>2, <2>1
<1> HIDE DEF f, t
<1>9. Pop(q) \in Queues(K)
  <2>1. \A i \in DOMAIN f : K[f[i]] = p.last
    BY <1>2, <1>4, <1>5
  <2> DEFINE l == p.last
             r == p.rest
  <2>2. /\ l \in Int /\ f \in Seq(Cells) /\ DOMAIN r \subseteq Entries(K)
        /\ r \in [DOMAIN r -> Nat \ {0}] /\ \A i \in DOMAIN f : K[f[i]] = l
    BY <1>2, <1>5, <2>1
  <2>3. Pop(q) = [last |-> l, front |-> f, rest |-> r]
    BY <1>8
  <2> HIDE DEF l, r
  <2> QED BY <2>2, <2>3, QueueMade
<1>10. Queued(Pop(q)) = {<<K[c], c>> : c \in ToSet(f)} \cup DOMAIN p.rest
  <2>1. Pop(q).front = f /\ Pop(q).rest = p.rest
    BY <1>8
  <2> QED BY <1>9, <2>1, QueueParts
<1>11. Pop(q).last = K[t]
  BY <1>7, <1>8
<1>12. Queued(q) = Queued(Pop(q)) \cup {<<K[t], t>>}
  BY <1>1, <1>2, <1>6, <1>10
<1>13. (\A e \in Queued(q) : q.last <= e[1]) => \A e \in Queued(q) : K[t] <= e[1]
  BY <1>1, <1>7
<1>14. Away(q) => Away(Pop(q))
  <2>1. Pop(q).rest = p.rest /\ Pop(q).last = p.last
    BY <1>8
  <2> QED BY <1>1, <2>1 DEF Away
<1> QED BY <1>7, <1>9, <1>11, <1>12, <1>13, <1>14 DEF t

\* Pulling changes nothing of the size: what leaves the bag for the front are as
\* many copies.
LEMMA PulledSize ==
  ASSUME NEW K \in [Cells -> Nat], NEW q \in Queues(K), ~ IsEmpty(q)
  PROVE  QueueSize(Pulled(q)) = QueueSize(q)
<1>1. /\ q = [last |-> q.last, front |-> q.front, rest |-> q.rest]
      /\ q.front \in Seq(Cells) /\ DOMAIN q.rest \subseteq Entries(K)
      /\ q.rest \in [DOMAIN q.rest -> Nat \ {0}]
  BY QueueParts
<1>2. IsFiniteSet(CopiesOf(q.rest))
  BY SizeType
<1>3. CASE q.front # <<>>
  BY <1>3 DEF Pulled
<1>4. CASE q.front = <<>>
  <2> DEFINE E == DOMAIN q.rest
             key == Min({e[1] : e \in E})
             lowest == {e \in E : e[1] = key}
             D == {e[2] : e \in lowest}
             b == [v \in D |-> q.rest[<<key, v>>]]
             r == Restrict(q.rest, E \ lowest)
             A == {c \in CopiesOf(q.rest) : c[1] \in lowest}
             f == [c \in A |-> <<c[1][2], c[2]>>]
  <2>1. \A e \in E : \E c \in Cells : e = <<K[c], c>>
    BY <1>1 DEF Entries
  <2>2. Pulled(q) = [last |-> key, front |-> Ascending(b), rest |-> r]
    BY <1>4 DEF Pulled
  <2> HIDE DEF key
  <2>3. \A e \in lowest : e = <<key, e[2]>>
    BY <2>1
  <2>4. DOMAIN b = D /\ \A e \in lowest : b[e[2]] = q.rest[e]
    BY <2>3
  <2>5. /\ DOMAIN r = E \ lowest /\ \A e \in E \ lowest : r[e] = q.rest[e]
    BY DEF Restrict
  <2>6. \A c : c \in CopiesOf(q.rest) <=> \E e \in E : \E i \in 1 .. q.rest[e] : c = <<e, i>>
    BY DEF CopiesOf
  <2>7. \A c : c \in CopiesOf(r) <=> \E e \in E \ lowest : \E i \in 1 .. r[e] : c = <<e, i>>
    <3> HIDE DEF r, lowest, E
    <3> QED BY <2>5 DEF CopiesOf
  <2>8. \A c : c \in CopiesOf(b) <=> \E v \in D : \E i \in 1 .. b[v] : c = <<v, i>>
    <3> HIDE DEF b, D
    <3> QED BY <2>4 DEF CopiesOf
  <2> HIDE DEF b, r
  <2>9. CopiesOf(r) = CopiesOf(q.rest) \ A
    BY <2>5, <2>6, <2>7
  <2>10. \A c \in A : \E e \in lowest : \E i \in 1 .. q.rest[e] : c = <<e, i>>
    BY <2>6
  <2>11. f \in [A -> CopiesOf(b)]
    <3> SUFFICES ASSUME NEW c \in A PROVE <<c[1][2], c[2]>> \in CopiesOf(b)
      OBVIOUS
    <3>0. PICK e \in lowest : \E i \in 1 .. q.rest[e] : c = <<e, i>>
      BY <2>10
    <3>1. PICK i \in 1 .. q.rest[e] : c = <<e, i>>
      BY <3>0
    <3>2. e[2] \in D /\ i \in 1 .. b[e[2]] /\ <<c[1][2], c[2]>> = <<e[2], i>>
      BY <2>4, <3>1
    <3> HIDE DEF A, D, lowest
    <3> QED BY <2>8, <3>2
  <2>12. \A c, d \in A : f[c] = f[d] => c = d
    <3> SUFFICES ASSUME NEW c \in A, NEW d \in A, c[1][2] = d[1][2], c[2] = d[2] PROVE c = d
      OBVIOUS
    <3>1. PICK e \in lowest : \E i \in 1 .. q.rest[e] : c = <<e, i>>
      BY <2>10
    <3>2. PICK g \in lowest : \E i \in 1 .. q.rest[g] : d = <<g, i>>
      BY <2>10
    <3>3. e = g
      BY <2>3, <3>1, <3>2
    <3> QED BY <3>1, <3>2, <3>3
  <2>13. \A y \in CopiesOf(b) : \E c \in A : f[c] = y
    <3> TAKE y \in CopiesOf(b)
    <3>1. PICK v \in D : \E i \in 1 .. b[v] : y = <<v, i>>
      BY <2>8
    <3>2. PICK i \in 1 .. b[v] : y = <<v, i>>
      BY <3>1
    <3>3. PICK e \in lowest : e[2] = v
      BY <3>1
    <3>4. i \in 1 .. q.rest[e] /\ e \in E
      BY <2>4, <3>2, <3>3
    <3>5. <<e, i>> \in A
      BY <2>6, <3>4
    <3>6. f[<<e, i>>] = <<v, i>>
      BY <3>3, <3>5
    <3> QED BY <3>2, <3>5, <3>6
  <2>14. IsFiniteSet(A)
    BY <1>2, FS_Subset
  <2>15. Cardinality(CopiesOf(b)) = Cardinality(A)
    <3> HIDE DEF A, f
    <3>1. f \in Bijection(A, CopiesOf(b))
      BY <2>11, <2>12, <2>13, Fun_IsBij
    <3>2. ExistsBijection(A, CopiesOf(b))
      BY <3>1 DEF ExistsBijection
    <3> QED BY <2>14, <3>2, FS_Bijection
  <2>16. Len(Ascending(b)) = Cardinality(CopiesOf(b))
    <3>1. Cardinality(CopiesOf(b)) \in Nat
      BY <2>14, <2>15, FS_CardinalityType
    <3> DEFINE n == Cardinality(CopiesOf(b))
               g(i) == Min({v \in DOMAIN b : i <= Cardinality({e \in CopiesOf(b) : e[1] <= v})})
    <3>2. Ascending(b) = [i \in 1 .. n |-> g(i)]
      BY DEF Ascending, CopiesOf
    <3> HIDE DEF n, g
    <3>3. Len(Ascending(b)) = n
      BY <3>1, <3>2 DEF n
    <3> QED BY <3>3 DEF n
  <2>17. Cardinality(CopiesOf(q.rest)) = Cardinality(A) + Cardinality(CopiesOf(r))
    <3>1. A \subseteq CopiesOf(q.rest)
      OBVIOUS
    <3> HIDE DEF A
    <3>2. IsFiniteSet(CopiesOf(q.rest) \ A)
      BY <1>2, FS_Subset
    <3>3. A \cup (CopiesOf(q.rest) \ A) = CopiesOf(q.rest) /\ A \cap (CopiesOf(q.rest) \ A) = {}
      BY <3>1
    <3>4. Cardinality(CopiesOf(q.rest)) = Cardinality(A) + Cardinality(CopiesOf(q.rest) \ A) - Cardinality({})
      BY <2>14, <3>2, <3>3, FS_Union
    <3>5. Cardinality({}) = 0 /\ Cardinality(A) \in Nat /\ Cardinality(CopiesOf(q.rest) \ A) \in Nat
      BY <2>14, <3>2, FS_EmptySet, FS_CardinalityType
    <3> QED BY <2>9, <3>4, <3>5
  <2>18. Pulled(q).front = Ascending(b) /\ Pulled(q).rest = r /\ Len(q.front) = 0
    BY <1>4, <2>2
  <2>19. Cardinality(CopiesOf(q.rest)) \in Nat
    BY <1>2, FS_CardinalityType
  <2> HIDE DEF A
  <2> QED BY <2>15, <2>16, <2>17, <2>18, <2>19 DEF QueueSize
<1> QED BY <1>3, <1>4

\* Popping takes one.
LEMMA PopSize ==
  ASSUME NEW K \in [Cells -> Nat], NEW q \in Queues(K), ~ IsEmpty(q)
  PROVE  QueueSize(Pop(q)) = QueueSize(q) - 1
<1> DEFINE p == Pulled(q)
<1>1. p \in Queues(K) /\ p.front # <<>> /\ QueueSize(p) = QueueSize(q)
  BY PulledHolds, PulledSize
<1>2. Pop(q) = [p EXCEPT !.front = Front(@)]
  BY DEF Pop
<1> HIDE DEF p
<1>3. p = [last |-> p.last, front |-> p.front, rest |-> p.rest] /\ p.front \in Seq(Cells)
  BY <1>1, QueueParts
<1>4. Pop(q).front = Front(p.front) /\ Pop(q).rest = p.rest
  BY <1>2, <1>3
<1>5. Len(Front(p.front)) = Len(p.front) - 1 /\ Len(p.front) \in Nat
  <2> DEFINE f == p.front
  <2>1. f \in Seq(Cells) /\ f # <<>>
    BY <1>1, <1>3
  <2> HIDE DEF f
  <2>2. Len(f) \in Nat \ {0}
    BY <2>1
  <2>3. Front(f) \in Seq(Cells) /\ DOMAIN Front(f) = 1 .. Len(f) - 1
    BY <2>1, <2>2 DEF Front
  <2>4. Len(Front(f)) = Len(f) - 1
    <3> DEFINE g == Front(f)
    <3>1. g \in Seq(Cells) /\ DOMAIN g = 1 .. Len(f) - 1
      BY <2>3
    <3> HIDE DEF g
    <3>2. DOMAIN g = 1 .. Len(g) /\ Len(g) \in Nat
      BY <3>1
    <3>3. Len(f) - 1 \in Nat
      BY <2>2
    <3>4. Len(g) = Len(f) - 1
      BY <3>1, <3>2, <3>3
    <3> QED BY <3>4 DEF g
  <2> QED BY <2>2, <2>4 DEF f
<1>6. Cardinality(CopiesOf(p.rest)) \in Nat
  BY <1>1, SizeType
<1> QED BY <1>1, <1>4, <1>5, <1>6 DEF QueueSize

\* While the front lasts, the top is its last value.
LEMMA PopFront ==
  ASSUME NEW K \in [Cells -> Nat], NEW q \in Queues(K), q.front # <<>>
  PROVE  /\ Len(q.front) \in Nat \ {0} /\ TopValue(q) = q.front[Len(q.front)]
         /\ Len(Pop(q).front) = Len(q.front) - 1
         /\ \A i \in 1 .. Len(q.front) - 1 : Pop(q).front[i] = q.front[i]
<1>1. q = [last |-> q.last, front |-> q.front, rest |-> q.rest] /\ q.front \in Seq(Cells)
  BY QueueParts
<1>2. Pulled(q) = q
  BY DEF Pulled
<1>3. Len(q.front) \in Nat \ {0}
  BY <1>1
<1>4. Pop(q).front = [i \in 1 .. Len(q.front) - 1 |-> q.front[i]]
  BY <1>1, <1>2, <1>3 DEF Pop, Front
<1>5. Len(Pop(q).front) = Len(q.front) - 1
  BY <1>3, <1>4
<1> QED BY <1>2, <1>3, <1>4, <1>5 DEF TopValue, Last

-----------------------------------------------------------------------------
(***************************************************************************)
(* One invariant for each claim, each resting on the one before.           *)
(***************************************************************************)

\* What is fixed by the call, and the state before the flood starts.
CallOK ==
  /\ dem \in [Cells -> Nat] /\ given \in [Cells -> Int] /\ permit \in BOOLEAN
  /\ stage \in {"seed", "flood", "done", "thrown"}

Untouched ==
  /\ label = given /\ flow = [c \in Cells |-> NO_FLOW] /\ pits = <<>>
  /\ queue = EmptyQueue(-1) /\ db = <<>>

\* The labels in use, and that a depression has the label of its pit.
LabelsOK ==
  /\ label \in [Cells -> Labels] /\ pits \in Seq(Cells)
  /\ \A i \in DOMAIN pits : label[pits[i]] = i
  /\ \A c \in Cells : given[c] \in {NO_DEP} \cup Exterior
  /\ \A c \in Cells : given[c] # NO_DEP => label[c] = given[c]

\* The queue holds what is still to be done: every cell from which the flood can
\* go on, and nothing below the key pulled last.
CellQueued(c) == <<dem[c], c>> \in Queued(queue)
IsSink(c) == label[c] = NO_DEP /\ \A n \in Around(c) : dem[n] >= dem[c]
IsFront(c) == label[c] # NO_DEP /\ \E n \in Around(c) : label[n] = NO_DEP

QueueOK ==
  /\ queue \in Queues(dem)
  /\ QueueIsMonotone /\ Away(queue)
  /\ \A c \in Cells : IsSink(c) \/ IsFront(c) => CellQueued(c)
  /\ stage = "done" => Queued(queue) = {}

FloodInv ==
  /\ CallOK
  /\ stage \in {"seed", "thrown"} => Untouched
  /\ stage \in {"flood", "done"} => LabelsOK /\ QueueOK

\* Every cell without a label lies above or level with something queued: the
\* lowest such cell is a seed, or has a lower neighbour from which the flood goes
\* on.
LEMMA SomethingLower ==
  ASSUME CallOK, LabelsOK, QueueOK, NEW x \in Cells, label[x] = NO_DEP
  PROVE  \E e \in Queued(queue) : e[1] <= dem[x]
<1> DEFINE S == {c \in Cells : label[c] = NO_DEP /\ dem[c] <= dem[x]}
           H == {dem[c] : c \in S}
<1>1. H \subseteq Nat /\ dem[x] \in H
  BY DEF CallOK
<1>2. PICK h \in H : \A g \in H : h <= g
  <2> HIDE DEF H
  <2> QED BY <1>1, Least
<1>3. PICK y \in S : dem[y] = h
  BY <1>2
<1>4. y \in Cells /\ label[y] = NO_DEP /\ dem[y] <= dem[x] /\ \A c \in S : dem[y] <= dem[c]
  BY <1>2, <1>3
<1>5. CASE \A n \in Around(y) : dem[n] >= dem[y]
  <2>1. CellQueued(y)
    BY <1>4, <1>5 DEF QueueOK, IsSink
  <2> QED BY <1>4, <2>1 DEF CellQueued
<1>6. CASE ~ \A n \in Around(y) : dem[n] >= dem[y]
  <2>1. PICK n \in Around(y) : ~ (dem[n] >= dem[y])
    BY <1>6
  <2>2. n \in Cells /\ y \in Around(n)
    BY <1>4, AroundIsMutual
  <2>3. dem[n] \in Nat /\ dem[y] \in Nat /\ dem[x] \in Nat
    BY <1>4, <2>2 DEF CallOK
  <2>4. dem[n] < dem[y] /\ dem[n] <= dem[x]
    BY <1>4, <2>1, <2>3
  <2>5. label[n] # NO_DEP
    BY <1>4, <2>2, <2>3, <2>4
  <2>6. CellQueued(n)
    BY <1>4, <2>2, <2>5 DEF QueueOK, IsFront
  <2> QED BY <2>4, <2>6 DEF CellQueued
<1> QED BY <1>5, <1>6

\* There are no more depressions than cells, so their labels stay below BOUNDARY.
LEMMA PitsFit ==
  ASSUME NEW p \in Seq(Cells), \A i, j \in DOMAIN p : p[i] = p[j] => i = j
  PROVE  Len(p) \in Nat /\ Len(p) <= N /\ Len(p) < BOUNDARY /\ Len(p) < NO_DEP
<1>1. p \in [1 .. Len(p) -> Cells] /\ Len(p) \in Nat
  OBVIOUS
<1>2. p \in Injection(1 .. Len(p), Cells)
  BY <1>1, Fun_IsInj
<1>3. Cardinality(1 .. Len(p)) <= N
  BY <1>2, CellCount, FS_Injection
<1>4. Cardinality(1 .. Len(p)) = Len(p)
  <2> DEFINE l == Len(p)
  <2>1. 1 \in Int /\ l \in Int /\ l >= 0
    BY <1>1
  <2> HIDE DEF l
  <2>2. Cardinality(1 .. l) = IF 1 > l THEN 0 ELSE l - 1 + 1
    BY <2>1, FS_Interval
  <2> QED BY <2>1, <2>2 DEF l
<1> QED BY <1>1, <1>3, <1>4, CellCount, LabelAssumption DEF N

\* What Visit does, in terms of the focal cell.
Focal == TopValue(queue)
FocalLabel == IF label[Focal] = NO_DEP THEN NewLabel ELSE label[Focal]
Fresh == {n \in Around(Focal) : label[n] = NO_DEP}
Met == {n \in Around(Focal) : label[n] \notin {NO_DEP, FocalLabel}}

\* What a visit assumes of the state and changes in it.
LEMMA VisitIs ==
  ASSUME CallOK, LabelsOK, QueueOK, Visit
  PROVE  /\ stage = "flood"
         /\ Focal \in Cells /\ CellQueued(Focal)
         /\ FocalLabel \in 0 .. Len(pits') \cup {BOUNDARY} /\ FocalLabel # NO_DEP
         /\ Fresh \subseteq Cells /\ Focal \notin Fresh
         /\ \A e \in Queued(queue) : dem[Focal] <= e[1]
         /\ \A n \in Fresh : dem[Focal] <= dem[n]
         /\ pits' = IF label[Focal] = NO_DEP THEN Append(pits, Focal) ELSE pits
         /\ label' = [x \in Cells |-> IF x = Focal \/ x \in Fresh THEN FocalLabel ELSE label[x]]
         /\ flow' = [x \in Cells |-> IF x \in Fresh THEN Focal ELSE flow[x]]
         /\ db' = Recorded(FocalLabel, Focal, Met)
         /\ queue' \in Queues(dem) /\ queue'.last = dem[Focal]
         /\ Queued(queue) \ {<<dem[Focal], Focal>>} \subseteq Queued(queue')
         /\ \A n \in Fresh : <<dem[n], n>> \in Queued(queue')
         /\ \A e \in Queued(queue') : e \in Queued(queue) \/ \E n \in Fresh : e = <<dem[n], n>>
         /\ Away(queue) => Away(queue')
         /\ OnTop(queue', Pop(queue), Fresh)
         /\ \A n \in Fresh : dem[n] = dem[Focal] => PutOnTop(queue', Pop(queue), n)
         /\ UNCHANGED <<dem, given, permit, stage>>
<1>1. /\ stage = "flood" /\ ~ IsEmpty(queue) /\ Focal \in Cells
      /\ pits' = IF label[Focal] = NO_DEP THEN Append(pits, Focal) ELSE pits
      /\ SpreadLabel(FocalLabel, Focal, Fresh)
      /\ db' = Recorded(FocalLabel, Focal, Met)
      /\ UNCHANGED <<dem, given, permit, stage>>
  BY DEF Visit, Focal, FocalLabel, Fresh, Met
<1>2. dem \in [Cells -> Nat] /\ queue \in Queues(dem) /\ \A e \in Queued(queue) : queue.last <= e[1]
  BY DEF CallOK, QueueOK, QueueIsMonotone
<1>3. /\ CellQueued(Focal)
      /\ Pop(queue) \in Queues(dem) /\ Pop(queue).last = dem[Focal]
      /\ Queued(queue) \ {<<dem[Focal], Focal>>} \subseteq Queued(Pop(queue))
      /\ Queued(Pop(queue)) \subseteq Queued(queue)
      /\ \A e \in Queued(queue) : dem[Focal] <= e[1]
      /\ Away(queue) => Away(Pop(queue))
  BY <1>1, <1>2, PopHolds DEF Focal, CellQueued
<1>4. Fresh \subseteq Cells /\ Focal \notin Fresh
  BY <1>1, AroundIsMutual DEF Fresh
<1>5. \A n \in Fresh : dem[Focal] <= dem[n]
  <2> SUFFICES ASSUME NEW n \in Fresh PROVE dem[Focal] <= dem[n]
    OBVIOUS
  <2>1. n \in Cells /\ label[n] = NO_DEP
    BY <1>4 DEF Fresh
  <2>2. PICK e \in Queued(queue) : e[1] <= dem[n]
    BY <2>1, SomethingLower
  <2>3. dem[Focal] <= e[1] /\ dem[Focal] \in Nat /\ dem[n] \in Nat
    BY <1>1, <1>2, <1>3, <2>1
  <2>4. e[1] \in Nat
    <3>1. Queued(queue) \subseteq Entries(dem)
      BY <1>2, QueueParts
    <3>2. PICK y \in Cells : e = <<dem[y], y>>
      BY <2>2, <3>1 DEF Entries
    <3> QED BY <1>2, <3>2
  <2> QED BY <2>2, <2>3, <2>4
<1>6. /\ label' = [x \in Cells |-> IF x = Focal \/ x \in Fresh THEN FocalLabel ELSE label[x]]
      /\ flow' = [x \in Cells |-> IF x \in Fresh THEN Focal ELSE flow[x]]
      /\ queue' = PushAll(Pop(queue), dem, Neighbours[Focal], Fresh)
  BY <1>1 DEF SpreadLabel
<1>7. /\ queue' \in Queues(dem) /\ queue'.last = dem[Focal]
      /\ Queued(queue') = Queued(Pop(queue)) \cup {<<dem[n], n>> : n \in Fresh}
      /\ OnTop(queue', Pop(queue), Fresh)
      /\ \A n \in Fresh : dem[n] = dem[Focal] => PutOnTop(queue', Pop(queue), n)
  <2>1. Neighbours[Focal] \in Seq(Cells)
    BY <1>1, NeighboursAre
  <2>2. ToSet(Neighbours[Focal]) \cap Fresh = Fresh
    BY DEF Fresh, Around
  <2>3. /\ PushAll(Pop(queue), dem, Neighbours[Focal], Fresh) \in Queues(dem)
        /\ PushAll(Pop(queue), dem, Neighbours[Focal], Fresh).last = Pop(queue).last
        /\ Queued(PushAll(Pop(queue), dem, Neighbours[Focal], Fresh))
             = Queued(Pop(queue)) \cup {<<dem[v], v>> : v \in ToSet(Neighbours[Focal]) \cap Fresh}
        /\ OnTop(PushAll(Pop(queue), dem, Neighbours[Focal], Fresh), Pop(queue), Fresh)
        /\ \A v \in ToSet(Neighbours[Focal]) \cap Fresh :
             dem[v] = Pop(queue).last
               => PutOnTop(PushAll(Pop(queue), dem, Neighbours[Focal], Fresh), Pop(queue), v)
    BY <1>2, <1>3, <2>1, PushAllAdds
  <2> QED BY <1>3, <1>6, <2>2, <2>3
<1>8. FocalLabel \in 0 .. Len(pits') \cup {BOUNDARY} /\ FocalLabel # NO_DEP
  <2>1. pits \in Seq(Cells) /\ Len(pits) \in Nat
    BY DEF LabelsOK
  <2>2. CASE label[Focal] = NO_DEP
    <3>1. pits' = Append(pits, Focal) /\ FocalLabel = Len(pits) + 1
      BY <1>1, <2>2 DEF FocalLabel, NewLabel
    <3>2. /\ pits' \in Seq(Cells) /\ Len(pits') = Len(pits) + 1 /\ pits'[Len(pits) + 1] = Focal
          /\ \A i \in 1 .. Len(pits) : pits'[i] = pits[i]
      BY <1>1, <2>1, <3>1
    <3>3. \A i \in 1 .. Len(pits) : label[pits[i]] = i
      BY <2>1 DEF LabelsOK
    <3>4. \A i \in 1 .. Len(pits) : i < NO_DEP
      <4>1. \A i, j \in DOMAIN pits : pits[i] = pits[j] => i = j
        BY DEF LabelsOK
      <4>2. Len(pits) < NO_DEP
        BY <2>1, <4>1, PitsFit
      <4> QED BY <2>1, <4>2, LabelAssumption
    <3>5. \A i \in 1 .. Len(pits) : pits[i] # Focal
      BY <2>2, <3>3, <3>4, LabelAssumption
    <3>6. \A i, j \in DOMAIN pits' : pits'[i] = pits'[j] => i = j
      <4>1. DOMAIN pits' = 1 .. Len(pits) + 1
        BY <3>2
      <4>2. \A i \in DOMAIN pits' : i \in 1 .. Len(pits) \/ i = Len(pits) + 1
        BY <2>1, <4>1
      <4> QED BY <3>2, <3>3, <3>5, <4>2
    <3>7. Len(pits') < NO_DEP
      BY <3>2, <3>6, PitsFit
    <3> QED BY <2>1, <3>1, <3>2, <3>7, LabelAssumption
  <2>3. CASE label[Focal] # NO_DEP
    <3>1. label[Focal] \in Labels \ {NO_DEP} /\ pits' = pits /\ FocalLabel = label[Focal]
      BY <1>1, <2>3 DEF LabelsOK, FocalLabel
    <3> QED BY <3>1 DEF Labels
  <2> QED BY <2>2, <2>3
<1>9. \A e \in Queued(queue') : e \in Queued(queue) \/ \E n \in Fresh : e = <<dem[n], n>>
  BY <1>3, <1>7
<1>10. /\ Queued(queue) \ {<<dem[Focal], Focal>>} \subseteq Queued(queue')
       /\ \A n \in Fresh : <<dem[n], n>> \in Queued(queue')
  BY <1>3, <1>7
<1>11. Away(queue) => Away(queue')
  BY <1>3, <1>7 DEF OnTop
<1> QED BY <1>1, <1>3, <1>4, <1>5, <1>6, <1>7, <1>8, <1>9, <1>10, <1>11

-----------------------------------------------------------------------------
\* The invariant is inductive.
LEMMA FloodInvInit ==
  Init => FloodInv
<1> SUFFICES ASSUME Init PROVE FloodInv
  OBVIOUS
<1>1. CallOK
  BY InputAssumption DEF Init, CallOK
<1>2. Untouched /\ stage = "seed"
  BY DEF Init, Untouched
<1> QED BY <1>1, <1>2 DEF FloodInv

\* The cells row by row are all the cells, each once.
LEMMA RowMajorIs ==
  RowMajor \in Seq(Cells) /\ ToSet(RowMajor) = Cells /\ Distinct(RowMajor)
<1>1. RowMajor = [i \in 1 .. N |-> i - 1] /\ N \in Nat /\ Cells = 0 .. N - 1
  BY CellCount DEF RowMajor, N, Cells
<1>2. \A i \in 1 .. N : i - 1 \in Cells
  BY <1>1
<1>3. RowMajor \in Seq(Cells) /\ DOMAIN RowMajor = 1 .. N
  BY <1>1, <1>2
<1>4. \A c \in Cells : c + 1 \in 1 .. N /\ RowMajor[c + 1] = c
  BY <1>1
<1>5. Cells \subseteq ToSet(RowMajor)
  BY <1>3, <1>4 DEF ToSet
<1>6. ToSet(RowMajor) \subseteq Cells
  <2>1. \A i \in DOMAIN RowMajor : RowMajor[i] \in Cells
    BY <1>1, <1>2, <1>3
  <2> QED BY <2>1 DEF ToSet
<1>7. Distinct(RowMajor)
  BY <1>1, <1>3 DEF Distinct
<1> QED BY <1>3, <1>5, <1>6, <1>7

\* Seeding queues the front and the sinks, at their elevations.
LEMMA SeedKeeps ==
  FloodInv /\ Seed => FloodInv'
<1> SUFFICES ASSUME FloodInv, Seed PROVE FloodInv'
  OBVIOUS
<1>1. /\ CallOK /\ Untouched /\ stage = "seed" /\ stage' = "flood"
      /\ UNCHANGED <<dem, given, permit, label, flow, pits, db>>
      /\ \A c \in Cells : label[c] \in {NO_DEP} \cup Exterior
      /\ queue' = PushAll(queue, dem, RowMajor, OceanSeeds \cup LandSeeds)
  BY DEF FloodInv, Seed, Allowed
<1>2. dem \in [Cells -> Nat] /\ label \in [Cells -> Int] /\ label = given
  BY <1>1 DEF CallOK, Untouched
<1>3. CallOK'
  BY <1>1 DEF CallOK
<1>4. LabelsOK'
  <2>1. pits' = <<>> /\ label' = given /\ given' = given
    BY <1>1 DEF Untouched
  <2>2. Labels' = 0 .. 0 \cup {BOUNDARY, NO_DEP}
    BY <2>1 DEF Labels
  <2>3. label' \in [Cells -> Labels']
    BY <1>1, <1>2, <2>1, <2>2 DEF Exterior, OCEAN
  <2> QED BY <1>1, <1>2, <2>1, <2>3 DEF LabelsOK
<1>5. RowMajor \in Seq(Cells) /\ ToSet(RowMajor) = Cells
  BY RowMajorIs
<1>6. queue \in Queues(dem) /\ Queued(queue) = {} /\ queue.last = -1
  <2>1. queue = [last |-> -1, front |-> <<>>, rest |-> EmptyBag]
    BY <1>1 DEF Untouched, EmptyQueue
  <2>2. DOMAIN EmptyBag = {} /\ EmptyBag \in [{} -> Nat \ {0}]
    BY DEF EmptyBag, SetToBag
  <2>3. queue \in Queues(dem)
    <3>1. <<>> \in Seq(Cells) /\ -1 \in Int /\ DOMAIN <<>> = {}
      OBVIOUS
    <3> QED BY <1>2, <2>1, <2>2, <3>1, QueueMade
  <2>4. Queued(queue) = {}
    <3>1. DOMAIN queue.front = {} /\ DOMAIN queue.rest = {}
      BY <2>1, <2>2
    <3> QED BY <3>1 DEF Queued
  <2> QED BY <2>1, <2>3, <2>4
<1>7. /\ queue' \in Queues(dem) /\ queue'.last = -1
      /\ Queued(queue') = {<<dem[v], v>> : v \in Cells \cap (OceanSeeds \cup LandSeeds)}
      /\ Away(queue')
  <2>1. Away(queue)
    <3>1. DOMAIN queue.rest = {}
      BY <1>1 DEF Untouched, EmptyQueue, EmptyBag, SetToBag
    <3> QED BY <3>1 DEF Away
  <2>2. /\ queue' \in Queues(dem) /\ queue'.last = -1
        /\ Queued(queue') = {<<dem[v], v>> : v \in Cells \cap (OceanSeeds \cup LandSeeds)}
        /\ OnTop(queue', queue, OceanSeeds \cup LandSeeds)
    BY <1>1, <1>2, <1>5, <1>6, PushAllAdds
  <2> QED BY <2>1, <2>2 DEF OnTop
<1>8. QueueIsMonotone'
  <2>1. \A e \in Queued(queue') : queue'.last <= e[1]
    BY <1>2, <1>7
  <2> QED BY <2>1 DEF QueueIsMonotone
<1>9. ASSUME NEW c \in Cells, (IsSink(c) \/ IsFront(c))' PROVE CellQueued(c)'
  <2>1. IsSink(c) \/ IsFront(c)
    BY <1>1, <1>9 DEF IsSink, IsFront
  <2>2. c \in OceanSeeds \cup LandSeeds
    BY <1>1, <2>1 DEF IsSink, IsFront, OceanSeeds, LandSeeds
  <2>3. <<dem[c], c>> \in Queued(queue')
    BY <1>7, <2>2
  <2> QED BY <1>1, <2>3 DEF CellQueued
<1>10. QueueOK'
  BY <1>1, <1>7, <1>8, <1>9 DEF QueueOK
<1> QED BY <1>1, <1>3, <1>4, <1>10 DEF FloodInv

\* A visit takes the focal cell off the queue only when no neighbour of it is left
\* without a label, and queues what it labels.
LEMMA VisitKeeps ==
  FloodInv /\ Visit => FloodInv'
<1> SUFFICES ASSUME FloodInv, Visit PROVE FloodInv'
  OBVIOUS
<1>1. stage = "flood" /\ CallOK /\ LabelsOK /\ QueueOK
  BY DEF FloodInv, Visit
<1>2. /\ Focal \in Cells /\ CellQueued(Focal)
      /\ FocalLabel \in 0 .. Len(pits') \cup {BOUNDARY} /\ FocalLabel # NO_DEP
      /\ Fresh \subseteq Cells /\ Focal \notin Fresh
      /\ \A e \in Queued(queue) : dem[Focal] <= e[1]
      /\ \A n \in Fresh : dem[Focal] <= dem[n]
      /\ pits' = IF label[Focal] = NO_DEP THEN Append(pits, Focal) ELSE pits
      /\ label' = [x \in Cells |-> IF x = Focal \/ x \in Fresh THEN FocalLabel ELSE label[x]]
      /\ queue' \in Queues(dem) /\ queue'.last = dem[Focal]
      /\ Queued(queue) \ {<<dem[Focal], Focal>>} \subseteq Queued(queue')
      /\ \A n \in Fresh : <<dem[n], n>> \in Queued(queue')
      /\ \A e \in Queued(queue') : e \in Queued(queue) \/ \E n \in Fresh : e = <<dem[n], n>>
      /\ Away(queue) => Away(queue')
      /\ UNCHANGED <<dem, given, permit, stage>>
  BY <1>1, VisitIs
<1>3. CallOK'
  BY <1>1, <1>2 DEF CallOK
<1>4. pits \in Seq(Cells) /\ pits' \in Seq(Cells) /\ Len(pits) \in Nat
  BY <1>1, <1>2 DEF LabelsOK
<1>5. Labels \subseteq Labels'
  <2>1. Len(pits') >= Len(pits) /\ Len(pits') \in Nat
    BY <1>2, <1>4
  <2>2. 0 .. Len(pits) \subseteq 0 .. Len(pits')
    BY <1>4, <2>1
  <2> QED BY <2>2 DEF Labels
<1>6. \A c \in Cells : label[c] # NO_DEP => label'[c] = label[c]
  BY <1>2 DEF Fresh, FocalLabel
<1>7. \A c \in Cells : label'[c] = NO_DEP => label[c] = NO_DEP /\ c # Focal /\ c \notin Fresh
  BY <1>2
<1>8. LabelsOK'
  <2>1. label' \in [Cells -> Labels']
    <3>1. FocalLabel \in Labels'
      BY <1>2 DEF Labels
    <3>2. \A c \in Cells : label[c] \in Labels'
      BY <1>1, <1>5 DEF LabelsOK
    <3> QED BY <1>2, <3>1, <3>2
  <2>2. ASSUME NEW i \in DOMAIN pits' PROVE label'[pits'[i]] = i
    <3>1. CASE i \in DOMAIN pits
      <4>1. pits'[i] = pits[i] /\ pits[i] \in Cells /\ label[pits[i]] = i
        BY <1>1, <1>2, <1>4, <3>1 DEF LabelsOK
      <4>2. i # NO_DEP
        <5>1. \A j, k \in DOMAIN pits : pits[j] = pits[k] => j = k
          BY <1>1 DEF LabelsOK
        <5>2. Len(pits) < NO_DEP
          BY <1>4, <5>1, PitsFit
        <5> QED BY <1>4, <3>1, <5>2, LabelAssumption
      <4> QED BY <1>6, <4>1, <4>2
    <3>2. CASE i \notin DOMAIN pits
      <4>1. label[Focal] = NO_DEP /\ pits' = Append(pits, Focal)
        BY <1>2, <3>2
      <4>2. i = Len(pits) + 1 /\ pits'[i] = Focal
        BY <1>2, <1>4, <3>2, <4>1
      <4>3. FocalLabel = Len(pits) + 1
        BY <4>1 DEF FocalLabel, NewLabel
      <4> QED BY <1>2, <4>2, <4>3
    <3> QED BY <3>1, <3>2
  <2>3. /\ \A c \in Cells : given'[c] \in {NO_DEP} \cup Exterior
        /\ \A c \in Cells : given'[c] # NO_DEP => label'[c] = given'[c]
    BY <1>1, <1>2, <1>6 DEF LabelsOK
  <2>4. pits' \in Seq(Cells)
    BY <1>4
  <2>5. \A i \in DOMAIN pits' : label'[pits'[i]] = i
    BY <2>2
  <2> QED BY <2>1, <2>3, <2>4, <2>5 DEF LabelsOK
<1>9. QueueIsMonotone'
  <2>1. ASSUME NEW e \in Queued(queue') PROVE queue'.last <= e[1]
    <3>1. CASE e \in Queued(queue)
      BY <1>2, <3>1
    <3>2. CASE \E n \in Fresh : e = <<dem[n], n>>
      BY <1>2, <3>2
    <3> QED BY <1>2, <3>1, <3>2
  <2> QED BY <2>1 DEF QueueIsMonotone
<1>10. ASSUME NEW c \in Cells, (IsSink(c) \/ IsFront(c))' PROVE CellQueued(c)'
  <2>1. CASE c \in Fresh
    <3>1. <<dem[c], c>> \in Queued(queue')
      BY <1>2, <2>1
    <3> QED BY <1>2, <3>1 DEF CellQueued
  <2>2. CASE c = Focal
    <3>1. \A n \in Around(c) : label'[n] # NO_DEP
      <4> SUFFICES ASSUME NEW n \in Around(c), label'[n] = NO_DEP PROVE FALSE
        OBVIOUS
      <4>1. n \in Cells
        BY <1>2, <2>2, AroundIsMutual
      <4>2. label[n] = NO_DEP /\ n \notin Fresh
        BY <1>7, <4>1
      <4> QED BY <2>2, <4>2 DEF Fresh
    <3>2. label'[c] # NO_DEP
      BY <1>2, <2>2
    <3> QED BY <1>10, <3>1, <3>2 DEF IsSink, IsFront
  <2>3. CASE c \notin Fresh /\ c # Focal
    <3>1. label'[c] = label[c]
      BY <1>2, <2>3
    <3>2. IsSink(c) \/ IsFront(c)
      <4>1. CASE IsSink(c)'
        BY <1>2, <3>1, <4>1 DEF IsSink
      <4>2. CASE IsFront(c)'
        <5>1. PICK n \in Around(c) : label'[n] = NO_DEP
          BY <4>2 DEF IsFront
        <5>2. n \in Cells
          BY AroundIsMutual
        <5>3. label[n] = NO_DEP
          BY <1>7, <5>1, <5>2
        <5> QED BY <3>1, <4>2, <5>3 DEF IsFront
      <4> QED BY <1>10, <4>1, <4>2
    <3>3. <<dem[c], c>> \in Queued(queue)
      BY <1>1, <3>2 DEF QueueOK, CellQueued
    <3>4. <<dem[c], c>> # <<dem[Focal], Focal>>
      BY <2>3
    <3>5. <<dem[c], c>> \in Queued(queue')
      BY <1>2, <3>3, <3>4
    <3> QED BY <1>2, <3>5 DEF CellQueued
  <2> QED BY <2>1, <2>2, <2>3
<1>11. QueueOK'
  <2>1. Away(queue')
    BY <1>1, <1>2 DEF QueueOK
  <2>2. stage' = "flood"
    BY <1>1, <1>2
  <2> QED BY <1>2, <1>9, <1>10, <2>1, <2>2 DEF QueueOK
<1> QED BY <1>1, <1>2, <1>3, <1>8, <1>11 DEF FloodInv

\* Refusing a call, ending and stuttering leave the flood as it is.
LEMMA OthersKeep ==
  FloodInv /\ (Refuse \/ Finish \/ UNCHANGED vars) => FloodInv'
<1> SUFFICES ASSUME FloodInv, Refuse \/ Finish \/ UNCHANGED vars PROVE FloodInv'
  OBVIOUS
<1>1. UNCHANGED <<dem, given, permit, label, flow, pits, queue, db>>
  BY DEF Refuse, Finish, vars
<1>2. /\ Untouched' <=> Untouched
      /\ LabelsOK' <=> LabelsOK
      /\ QueueIsMonotone' <=> QueueIsMonotone
  BY <1>1 DEF Untouched, LabelsOK, Labels, QueueIsMonotone
<1>6. \A c \in Cells : (IsSink(c) \/ IsFront(c) => CellQueued(c))'
                     <=> (IsSink(c) \/ IsFront(c) => CellQueued(c))
  BY <1>1 DEF IsSink, IsFront, CellQueued
<1>7. stage' \in {"seed", "flood", "done", "thrown"} /\ CallOK => CallOK'
  BY <1>1 DEF CallOK
<1>3. CASE Refuse
  <2>1. stage = "seed" /\ stage' = "thrown"
    BY <1>3 DEF Refuse
  <2> QED BY <1>2, <1>7, <2>1 DEF FloodInv
<1>4. CASE Finish
  <2>1. stage = "flood" /\ stage' = "done" /\ IsEmpty(queue)
    BY <1>4 DEF Finish
  <2>2. Queued(queue) = {}
    <3>1. DOMAIN queue.front = {} /\ DOMAIN queue.rest = {}
      BY <2>1 DEF IsEmpty, EmptyBag, SetToBag
    <3> QED BY <3>1 DEF Queued
  <2>3. QueueOK'
    BY <1>1, <1>2, <1>6, <2>1, <2>2 DEF FloodInv, QueueOK
  <2> QED BY <1>2, <1>7, <2>1, <2>3 DEF FloodInv
<1>5. CASE UNCHANGED vars
  <2>1. stage' = stage
    BY <1>5 DEF vars
  <2>2. QueueOK' <=> QueueOK
    BY <1>1, <1>2, <1>6, <2>1 DEF QueueOK
  <2>3. CallOK'
    BY <1>7, <2>1 DEF FloodInv, CallOK
  <2> QED BY <1>2, <2>1, <2>2, <2>3 DEF FloodInv
<1> QED BY <1>3, <1>4, <1>5

\* The labels and the queue are right at every step.
LEMMA FloodInvHolds == Spec => []FloodInv
<1>1. FloodInv /\ [Next]_vars => FloodInv'
  BY SeedKeeps, VisitKeeps, OthersKeep DEF Next
<1> QED BY FloodInvInit, <1>1, PTL DEF Spec

\* The heap never sees a key below the one popped last.
THEOREM QueueStaysMonotone ==
  Spec => []QueueIsMonotone
<1>1. FloodInv => QueueIsMonotone
  <2> SUFFICES ASSUME FloodInv PROVE QueueIsMonotone
    OBVIOUS
  <2>1. CASE stage \in {"flood", "done"}
    BY <2>1 DEF FloodInv, QueueOK
  <2>2. CASE stage \in {"seed", "thrown"}
    <3>1. queue = [last |-> -1, front |-> <<>>, rest |-> EmptyBag]
      BY <2>2 DEF FloodInv, Untouched, EmptyQueue
    <3>2. DOMAIN queue.front = {} /\ DOMAIN queue.rest = {}
      BY <3>1 DEF EmptyBag, SetToBag
    <3>3. Queued(queue) = {}
      BY <3>2 DEF Queued
    <3> QED BY <3>3 DEF QueueIsMonotone
  <2> QED BY <2>1, <2>2 DEF FloodInv, CallOK
<1> QED BY FloodInvHolds, <1>1, PTL

\* When the queue runs empty no cell is left without a label.
THEOREM NoCellIsLeftOut ==
  Spec => []EveryCellAssigned
<1>1. FloodInv => EveryCellAssigned
  <2> SUFFICES ASSUME FloodInv, stage = "done", NEW c \in Cells, label[c] = NO_DEP PROVE FALSE
    BY DEF EveryCellAssigned
  <2>1. CallOK /\ LabelsOK /\ QueueOK /\ Queued(queue) = {}
    BY DEF FloodInv, QueueOK
  <2> QED BY <2>1, SomethingLower
<1> QED BY FloodInvHolds, <1>1, PTL

-----------------------------------------------------------------------------
\* The cells with a label, and the drainage tree on them: a flow direction leads to
\* a cell of the same label that is not higher, a cell without one is the end of
\* its label, and a depth that falls along the flow keeps it from circling.
Labelled == {c \in Cells : label[c] # NO_DEP}

IsEnd(c) ==
  IF label[c] \in Exterior THEN given[c] = label[c]
  ELSE label[c] \in DOMAIN pits /\ pits[label[c]] = c

DepthOf(d) ==
  /\ d \in [Cells -> Nat]
  /\ \A c \in Labelled : d[c] < Cardinality(Labelled)
  /\ \A c \in Cells : flow[c] # NO_FLOW => d[flow[c]] < d[c]

Drainage ==
  /\ flow \in [Cells -> Cells \cup {NO_FLOW}]
  /\ \A c \in Cells : flow[c] # NO_FLOW =>
       /\ label[c] # NO_DEP
       /\ flow[c] \in Around(c) /\ label[flow[c]] = label[c] /\ dem[flow[c]] <= dem[c]
  /\ \A c \in Labelled : flow[c] = NO_FLOW => IsEnd(c)
  /\ \E d : DepthOf(d)

DrainInv == stage \in {"flood", "done"} => Drainage

\* There are finitely many labelled cells.
LEMMA LabelledFinite ==
  /\ IsFiniteSet(Labelled) /\ Cardinality(Labelled) \in Nat /\ Cardinality(Labelled) <= N
<1>1. Labelled \subseteq Cells
  BY DEF Labelled
<1> QED BY <1>1, CellCount, FS_Subset, FS_CardinalityType

\* Before the first visit every labelled cell is an end.
LEMMA DrainSeed ==
  FloodInv /\ Seed => Drainage'
<1> SUFFICES ASSUME FloodInv, Seed PROVE Drainage'
  OBVIOUS
<1>1. FloodInv' /\ stage' = "flood"
  BY SeedKeeps DEF Seed
<1>2. CallOK' /\ LabelsOK'
  BY <1>1 DEF FloodInv
<1>3. /\ flow' = [c \in Cells |-> NO_FLOW] /\ label' = given' /\ given' = given
      /\ \A c \in Cells : given[c] \in {NO_DEP} \cup Exterior
  BY DEF FloodInv, Seed, Untouched, Allowed
<1>4. \A c \in Labelled' : IsEnd(c)'
  BY <1>3 DEF Labelled, IsEnd
<1>5. DepthOf([c \in Cells |-> 0])'
  <2>1. \A c \in Labelled' : 0 < Cardinality(Labelled')
    <3>1. IsFiniteSet(Labelled')
      <4>1. Labelled' \subseteq Cells
        BY DEF Labelled
      <4> QED BY <4>1, CellCount, FS_Subset
    <3> SUFFICES ASSUME Labelled' # {} PROVE 0 < Cardinality(Labelled')
      OBVIOUS
    <3> QED BY <3>1, NonEmptyCount
  <2>2. \A c \in Labelled' : c \in Cells
    BY DEF Labelled
  <2> QED BY <1>3, <2>1, <2>2 DEF DepthOf
<1>6. \E d : DepthOf(d)'
  BY <1>5
<1> QED BY <1>3, <1>4, <1>6 DEF Drainage

\* A visit adds cells upstream of the focal cell only, one level deeper.
LEMMA DrainVisit ==
  FloodInv /\ Drainage /\ Visit => Drainage'
<1> SUFFICES ASSUME FloodInv, Drainage, Visit PROVE Drainage'
  OBVIOUS
<1>1. stage = "flood" /\ CallOK /\ LabelsOK /\ QueueOK
  BY DEF FloodInv, Visit
<1>2. /\ Focal \in Cells
      /\ FocalLabel # NO_DEP
      /\ Fresh \subseteq Cells /\ Focal \notin Fresh
      /\ \A n \in Fresh : dem[Focal] <= dem[n]
      /\ pits' = IF label[Focal] = NO_DEP THEN Append(pits, Focal) ELSE pits
      /\ label' = [x \in Cells |-> IF x = Focal \/ x \in Fresh THEN FocalLabel ELSE label[x]]
      /\ flow' = [x \in Cells |-> IF x \in Fresh THEN Focal ELSE flow[x]]
      /\ dem' = dem /\ given' = given
  BY <1>1, VisitIs
<1>3. /\ flow \in [Cells -> Cells \cup {NO_FLOW}]
      /\ \A c \in Cells : flow[c] # NO_FLOW =>
           /\ label[c] # NO_DEP
           /\ flow[c] \in Around(c) /\ label[flow[c]] = label[c] /\ dem[flow[c]] <= dem[c]
      /\ \A c \in Labelled : flow[c] = NO_FLOW => IsEnd(c)
  BY DEF Drainage
<1>4. PICK d : DepthOf(d)
  BY DEF Drainage
<1>5. \A n \in Fresh : label[n] = NO_DEP /\ n \notin Labelled
  BY DEF Fresh, Labelled
<1>6. \A c \in Labelled : c \in Cells /\ label'[c] = label[c] /\ flow'[c] = flow[c]
  BY <1>2, <1>5 DEF Labelled, FocalLabel
<1>7. Labelled' = Labelled \cup {Focal} \cup Fresh
  BY <1>2 DEF Labelled
<1>8. flow' \in [Cells -> Cells \cup {NO_FLOW}]
  BY <1>2, <1>3
<1>9. ASSUME NEW c \in Cells, flow'[c] # NO_FLOW
      PROVE  /\ label'[c] # NO_DEP /\ flow'[c] \in Around(c)
             /\ label'[flow'[c]] = label'[c] /\ dem'[flow'[c]] <= dem'[c]
  <2>1. CASE c \in Fresh
    <3>1. flow'[c] = Focal /\ label'[c] = FocalLabel /\ label'[Focal] = FocalLabel
      BY <1>2, <2>1
    <3>2. Focal \in Around(c)
      BY <1>2, <2>1, AroundIsMutual DEF Fresh
    <3> QED BY <1>2, <2>1, <3>1, <3>2
  <2>2. CASE c \notin Fresh
    <3>1. flow'[c] = flow[c] /\ flow[c] \in Cells
      BY <1>2, <1>3, <1>9, <2>2
    <3>2. /\ label[c] # NO_DEP
          /\ flow[c] \in Around(c) /\ label[flow[c]] = label[c] /\ dem[flow[c]] <= dem[c]
      BY <1>3, <1>9, <3>1
    <3>3. c \in Labelled /\ flow[c] \in Labelled
      BY <3>1, <3>2 DEF Labelled
    <3> QED BY <1>2, <1>6, <3>1, <3>2, <3>3
  <2> QED BY <2>1, <2>2
<1>10. ASSUME NEW c \in Labelled', flow'[c] = NO_FLOW PROVE IsEnd(c)'
  <2>1. c \notin Fresh
    BY <1>2, <1>10, LabelAssumption
  <2>2. CASE c \in Labelled
    <3>1. IsEnd(c) /\ label'[c] = label[c]
      BY <1>3, <1>6, <1>10, <2>2
    <3>2. pits \in Seq(Cells) /\ \A i \in DOMAIN pits : i \in DOMAIN pits' /\ pits'[i] = pits[i]
      BY <1>1, <1>2 DEF LabelsOK
    <3> QED BY <1>2, <3>1, <3>2 DEF IsEnd
  <2>3. CASE c \notin Labelled
    <3>1. c = Focal /\ label[Focal] = NO_DEP
      BY <1>2, <1>7, <2>1, <2>3 DEF Labelled
    <3>2. pits' = Append(pits, Focal) /\ label'[c] = Len(pits) + 1
      BY <1>2, <3>1 DEF FocalLabel, NewLabel
    <3>3. pits \in Seq(Cells) /\ Len(pits) \in Nat
      BY <1>1 DEF LabelsOK
    <3>4. Len(pits) + 1 \in DOMAIN pits' /\ pits'[Len(pits) + 1] = c
      BY <1>2, <3>1, <3>2, <3>3
    <3>5. Len(pits) + 1 \notin Exterior
      <4>1. LabelsOK'
        BY VisitKeeps, <1>1 DEF FloodInv, Visit
      <4>2. \A i, j \in DOMAIN pits' : pits'[i] = pits'[j] => i = j
        BY <4>1 DEF LabelsOK
      <4>3. pits' \in Seq(Cells) /\ Len(pits') = Len(pits) + 1
        BY <1>2, <3>2, <3>3
      <4>4. Len(pits') < BOUNDARY
        BY <4>2, <4>3, PitsFit
      <4> QED BY <3>3, <4>3, <4>4, LabelAssumption DEF Exterior, OCEAN
    <3> QED BY <3>2, <3>4, <3>5 DEF IsEnd
  <2> QED BY <2>2, <2>3
<1> DEFINE top == IF label[Focal] = NO_DEP THEN 0 ELSE d[Focal]
           e == [x \in Cells |-> IF x \in Fresh THEN top + 1 ELSE IF x = Focal THEN top ELSE d[x]]
<1>11. /\ d \in [Cells -> Nat] /\ \A c \in Labelled : d[c] < Cardinality(Labelled)
       /\ \A c \in Cells : flow[c] # NO_FLOW => d[flow[c]] < d[c]
  BY <1>4 DEF DepthOf
<1>12. top \in Nat /\ (Focal \in Labelled => top = d[Focal]) /\ (Focal \notin Labelled => top = 0)
  BY <1>2, <1>11 DEF Labelled
<1> HIDE DEF top
<1>13. e \in [Cells -> Nat]
  BY <1>11, <1>12
<1>14. /\ \A c \in Labelled' : c \in Cells
       /\ \A c \in Fresh : e[c] = top + 1
       /\ e[Focal] = top
       /\ \A c \in Labelled : e[c] = d[c]
  BY <1>2, <1>5, <1>7, <1>12 DEF Labelled
<1> HIDE DEF e
<1>15. \A c \in Labelled' : e[c] < Cardinality(Labelled')
  <2> DEFINE L == Labelled
             X == Labelled \cup {Focal}
             Y == Labelled'
  <2>1. L \subseteq X /\ X \subseteq Y /\ Y = X \cup Fresh
    BY <1>7
  <2>2. IsFiniteSet(Y)
    <3>1. Y \subseteq Cells
      BY DEF Labelled
    <3> HIDE DEF Y
    <3> QED BY <3>1, CellCount, FS_Subset
  <2> HIDE DEF L, X, Y
  <2>3. IsFiniteSet(X) /\ Cardinality(X) <= Cardinality(Y) /\ (Cardinality(X) = Cardinality(Y) => X = Y)
    BY <2>1, <2>2, FS_Subset
  <2>4. IsFiniteSet(L) /\ Cardinality(L) <= Cardinality(X)
    BY <2>1, <2>3, FS_Subset
  <2>5. Cardinality(L) \in Nat /\ Cardinality(X) \in Nat /\ Cardinality(Y) \in Nat
    BY <2>2, <2>3, <2>4, FS_CardinalityType
  <2>6. top < Cardinality(X)
    <3>1. CASE Focal \in Labelled
      <4>1. d[Focal] < Cardinality(L)
        BY <1>11, <3>1 DEF L
      <4>2. d[Focal] \in Nat
        BY <1>2, <1>11
      <4> QED BY <1>12, <2>4, <2>5, <3>1, <4>1, <4>2
    <3>2. CASE Focal \notin Labelled
      <4>1. X # {}
        BY DEF X
      <4> QED BY <1>12, <2>3, <3>2, <4>1, NonEmptyCount
    <3> QED BY <3>1, <3>2
  <2> SUFFICES ASSUME NEW c \in Y PROVE e[c] < Cardinality(Y)
    BY DEF Y
  <2>7. CASE c \in Fresh
    <3>1. c \notin X
      BY <1>2, <1>5, <2>7 DEF X
    <3>2. Cardinality(X) < Cardinality(Y)
      BY <2>3, <2>5, <3>1
    <3> QED BY <1>12, <1>14, <2>5, <2>6, <2>7, <3>2
  <2>8. CASE c \in Labelled
    <3>1. d[c] < Cardinality(L) /\ e[c] = d[c]
      BY <1>11, <1>14, <2>8 DEF L
    <3>2. d[c] \in Nat
      BY <1>6, <1>11, <2>8
    <3> QED BY <2>3, <2>4, <2>5, <3>1, <3>2
  <2>9. CASE c = Focal
    BY <1>12, <1>14, <2>3, <2>5, <2>6, <2>9
  <2> QED BY <2>1, <2>7, <2>8, <2>9 DEF X
<1>16. ASSUME NEW c \in Cells, flow'[c] # NO_FLOW PROVE e[flow'[c]] < e[c]
  <2>1. CASE c \in Fresh
    BY <1>2, <1>12, <1>14, <2>1
  <2>2. CASE c \notin Fresh
    <3>1. flow'[c] = flow[c] /\ flow[c] # NO_FLOW
      BY <1>2, <1>16, <2>2
    <3>2. c \in Labelled /\ flow[c] \in Labelled
      BY <1>3, <3>1 DEF Labelled
    <3> QED BY <1>11, <1>14, <3>1, <3>2
  <2> QED BY <2>1, <2>2
<1>17. PICK f : f = e
  OBVIOUS
<1>18. DepthOf(f)'
  BY <1>13, <1>15, <1>16, <1>17 DEF DepthOf
<1>19. \E g : DepthOf(g)'
  BY <1>18
<1> QED BY <1>8, <1>9, <1>10, <1>19 DEF Drainage

\* The drainage is a forest over the labelled cells at every step.
LEMMA DrainInvHolds ==
  Spec => []DrainInv
<1>1. Init => DrainInv
  BY DEF Init, DrainInv
<1>2. FloodInv /\ DrainInv /\ [Next]_vars => DrainInv'
  <2> SUFFICES ASSUME FloodInv, DrainInv, [Next]_vars PROVE DrainInv'
    OBVIOUS
  <2>1. CASE Seed
    BY <2>1, DrainSeed DEF DrainInv
  <2>2. CASE Visit
    BY <2>2, DrainVisit DEF DrainInv, Visit
  <2>3. CASE Refuse \/ Finish \/ UNCHANGED vars
    <3>1. UNCHANGED <<dem, given, label, flow, pits>>
      BY <2>3 DEF Refuse, Finish, vars
    <3>2. stage' \in {"flood", "done"} => stage \in {"flood", "done"}
      BY <2>3 DEF Refuse, Finish, vars
    <3>3. Labelled' = Labelled /\ (\A c \in Cells : IsEnd(c)' <=> IsEnd(c))
      BY <3>1 DEF Labelled, IsEnd
    <3>4. Drainage => Drainage'
      <4> SUFFICES ASSUME Drainage PROVE Drainage'
        OBVIOUS
      <4>1. PICK d : DepthOf(d)
        BY DEF Drainage
      <4>2. DepthOf(d)'
        BY <3>1, <3>3, <4>1 DEF DepthOf
      <4>3. \E f : DepthOf(f)'
        BY <4>2
      <4>4. \A c \in Labelled : c \in Cells
        BY DEF Labelled
      <4> QED BY <3>1, <3>3, <4>3, <4>4 DEF Drainage
    <3> QED BY <3>2, <3>4 DEF DrainInv
  <2> QED BY <2>1, <2>2, <2>3 DEF Next
<1> QED BY <1>1, <1>2, FloodInvHolds, PTL DEF Spec

-----------------------------------------------------------------------------
\* Reach is where a run of the step ends.
LEMMA ReachRuns ==
  ASSUME NEW n \in Nat, NEW V, NEW base \in V, NEW Step \in [V -> V]
  PROVE  \E g : IsRun(g, n, V, base, Step) /\ g[n] = Reach(n, base, Step)
<1> DEFINE s == [i \in 1 .. n |-> i]
           Is(f) == f = [S \in SUBSET DOMAIN s |->
                           IF S = {} THEN base
                           ELSE LET x == Max(S) IN Step[f[S \ {x}]]]
           it == CHOOSE f : Is(f)
<1>1. DOMAIN s = 1 .. n
  OBVIOUS
<1>2. PICK F : IsRepeat(F, n, V, base, Step)
  BY RepeatExists
<1>3. Is(F)
  <2>1. \A S \in SUBSET (1 .. n) : F[S] = IF S = {} THEN base ELSE Step[F[S \ {Max(S)}]]
    BY <1>2 DEF IsRepeat
  <2>2. F = [S \in SUBSET (1 .. n) |-> F[S]]
    BY <1>2 DEF IsRepeat
  <2> QED BY <1>1, <2>1, <2>2
<1>4. Is(it)
  <2> HIDE DEF Is
  <2> QED BY <1>3
<1>5. it[{}] = base
  BY <1>4
<1>6. ASSUME NEW i \in 1 .. n PROVE it[1 .. i] = Step[it[1 .. i - 1]]
  <2>1. 1 .. i # {} /\ Max(1 .. i) = i /\ (1 .. i) \ {i} = 1 .. i - 1
    <3>1. i \in Nat \ {0}
      OBVIOUS
    <3> QED BY <3>1, Prefix
  <2>2. 1 .. i \in SUBSET DOMAIN s
    OBVIOUS
  <2> HIDE DEF it, s
  <2> QED BY <1>4, <2>1, <2>2
<1>7. Reach(n, base, Step) = it[1 .. n]
  BY <1>1 DEF Reach, FoldLeft, MapThenFoldSet
<1> HIDE DEF it
<1>8. \E g : IsRun(g, n, V, base, Step) /\ g[n] = it[1 .. n]
  BY <1>5, <1>6, RunMade
<1> QED BY <1>7, <1>8

\* A set that only grows has stopped growing after as many steps as it may have
\* members, and is the least that the step does not leave.
LEMMA ReachIsLeast ==
  ASSUME NEW n \in Nat, NEW U, IsFiniteSet(U), Cardinality(U) <= n,
         NEW V, \A S \in V : S \subseteq U,
         NEW base \in V, NEW Step \in [V -> V], \A S \in V : S \subseteq Step[S]
  PROVE  /\ Reach(n, base, Step) \in V
         /\ base \subseteq Reach(n, base, Step)
         /\ Step[Reach(n, base, Step)] = Reach(n, base, Step)
         /\ \A Q : base \subseteq Q /\ (\A S \in V : S \subseteq Q => Step[S] \subseteq Q)
               => Reach(n, base, Step) \subseteq Q
<1>1. PICK g : IsRun(g, n, V, base, Step) /\ g[n] = Reach(n, base, Step)
  BY ReachRuns
<1>2. Step[g[n]] = g[n] /\ base \subseteq g[n] /\ g[n] \in V
  BY <1>1, GrowthEnds
<1>3. ASSUME NEW Q, base \subseteq Q, \A S \in V : S \subseteq Q => Step[S] \subseteq Q
      PROVE  g[n] \subseteq Q
  <2> DEFINE K == {S \in V : S \subseteq Q}
  <2>1. base \in K /\ \A S \in V \cap K : Step[S] \in K
    BY <1>3
  <2> HIDE DEF K
  <2>2. g[n] \in K
    <3>1. IsRun(g, n, V, base, Step)
      BY <1>1
    <3> QED BY <2>1, <3>1, RunStays
  <2> QED BY <2>2 DEF K
<1> QED BY <1>1, <1>2, <1>3

\* The mouth of a cell is where N steps downstream lead.
IsCourse(g, c) ==
  /\ g \in [0 .. N -> Cells] /\ g[0] = c /\ g[N] = Mouth(c)
  /\ \A i \in 1 .. N : g[i] = Downstream(g[i - 1])

\* There is the course of N steps downstream from a cell.
LEMMA CourseExists ==
  ASSUME flow \in [Cells -> Cells \cup {NO_FLOW}], NEW c \in Cells
  PROVE  \E g : IsCourse(g, c)
<1> DEFINE Step == [x \in Cells |-> Downstream(x)]
<1>1. N \in Nat /\ N = Width * Height
  BY CellCount DEF N
<1>2. \A x \in Cells : Downstream(x) \in Cells /\ Step[x] = Downstream(x)
  BY DEF Downstream
<1>3. Step \in [Cells -> Cells] /\ Mouth(c) = Reach(N, c, Step)
  BY <1>1, <1>2 DEF Mouth
<1> HIDE DEF Step
<1>4. PICK g : IsRun(g, N, Cells, c, Step) /\ g[N] = Reach(N, c, Step)
  BY <1>1, <1>3, ReachRuns
<1>5. \A i \in 1 .. N : i - 1 \in 0 .. N
  BY <1>1
<1>6. IsCourse(g, c)
  BY <1>2, <1>3, <1>4, <1>5 DEF IsRun, IsCourse
<1> QED BY <1>6

\* Downstream of a cell the label stays and the elevation does not rise, and N steps
\* lead to the end of the label: each step lowers the depth by one.
LEMMA MouthIsEnd ==
  ASSUME CallOK, Drainage, NEW c \in Labelled
  PROVE  /\ Mouth(c) \in Cells /\ flow[Mouth(c)] = NO_FLOW
         /\ label[Mouth(c)] = label[c] /\ IsEnd(Mouth(c))
         /\ label[Downstream(c)] = label[c] /\ dem[Downstream(c)] <= dem[c]
<1>1. flow \in [Cells -> Cells \cup {NO_FLOW}] /\ c \in Cells /\ label[c] # NO_DEP
  BY DEF Drainage, Labelled
<1>2. PICK g : IsCourse(g, c)
  BY <1>1, CourseExists
<1>3. PICK d : DepthOf(d)
  BY DEF Drainage
<1>4. N \in Nat /\ d \in [Cells -> Nat] /\ d[c] < N
  <2>1. d[c] < Cardinality(Labelled) /\ d[c] \in Nat
    BY <1>1, <1>3 DEF DepthOf
  <2> QED BY <1>3, <2>1, LabelledFinite, CellCount DEF DepthOf
<1>5. \A x \in Labelled : /\ Downstream(x) \in Labelled /\ label[Downstream(x)] = label[x]
                         /\ dem[Downstream(x)] <= dem[x]
  <2> SUFFICES ASSUME NEW x \in Labelled
               PROVE  /\ Downstream(x) \in Labelled /\ label[Downstream(x)] = label[x]
                      /\ dem[Downstream(x)] <= dem[x]
    OBVIOUS
  <2>1. x \in Cells /\ label[x] # NO_DEP
    BY DEF Labelled
  <2>2. CASE flow[x] = NO_FLOW
    BY <2>1, <2>2 DEF Downstream, CallOK
  <2>3. CASE flow[x] # NO_FLOW
    BY <1>1, <2>1, <2>3 DEF Downstream, Drainage, Labelled
  <2> QED BY <2>2, <2>3
<1> DEFINE Ok(i) == /\ g[i] \in Labelled /\ label[g[i]] = label[c]
                    /\ flow[g[i]] = NO_FLOW \/ d[g[i]] + i <= d[c]
           T == {i \in 0 .. N : Ok(i)}
<1>6. 0 \in T
  <2>1. g[0] = c /\ d[c] \in Nat /\ 0 \in 0 .. N
    BY <1>1, <1>2, <1>4 DEF IsCourse
  <2> QED BY <2>1
<1>7. ASSUME NEW i \in 0 .. N - 1, i \in T PROVE i + 1 \in T
  <2>1. i + 1 \in 1 .. N /\ (i + 1) - 1 = i /\ i \in Nat
    BY <1>4
  <2>2. g[i + 1] = Downstream(g[i]) /\ g[i] \in Labelled /\ label[g[i]] = label[c]
    BY <1>2, <1>7, <2>1 DEF IsCourse
  <2>3. CASE flow[g[i]] = NO_FLOW
    <3>1. g[i + 1] = g[i]
      BY <2>2, <2>3 DEF Downstream
    <3> QED BY <2>1, <2>2, <2>3, <3>1
  <2>4. CASE flow[g[i]] # NO_FLOW
    <3>1. g[i + 1] = flow[g[i]] /\ g[i] \in Cells /\ g[i + 1] \in Cells
      BY <1>1, <2>2, <2>4 DEF Downstream, Labelled
    <3>2. d[g[i + 1]] < d[g[i]]
      BY <1>3, <2>4, <3>1 DEF DepthOf
    <3>3. d[g[i]] \in Nat /\ d[g[i + 1]] \in Nat /\ d[c] \in Nat
      BY <1>1, <1>4, <3>1
    <3>4. d[g[i]] + i <= d[c]
      BY <1>7, <2>4
    <3>5. d[g[i + 1]] + (i + 1) <= d[c]
      BY <2>1, <3>2, <3>3, <3>4
    <3> QED BY <1>5, <2>1, <2>2, <3>5
  <2> QED BY <2>3, <2>4
<1>8. 0 .. N \subseteq T
  <2> HIDE DEF T
  <2> QED BY <1>4, <1>6, <1>7, Upwards
<1>9. N \in T
  <2>1. N \in 0 .. N
    BY <1>4
  <2> HIDE DEF T
  <2> QED BY <1>8, <2>1
<1>10. g[N] = Mouth(c) /\ Mouth(c) \in Labelled /\ label[Mouth(c)] = label[c]
  BY <1>2, <1>9 DEF IsCourse
<1>11. Mouth(c) \in Cells
  BY <1>10 DEF Labelled
<1>12. flow[Mouth(c)] = NO_FLOW
  <2>1. d[Mouth(c)] \in Nat /\ d[c] \in Nat
    BY <1>1, <1>4, <1>11
  <2>2. flow[Mouth(c)] = NO_FLOW \/ d[Mouth(c)] + N <= d[c]
    BY <1>9, <1>10
  <2> QED BY <1>4, <2>1, <2>2
<1>13. IsEnd(Mouth(c))
  BY <1>10, <1>12 DEF Drainage
<1> QED BY <1>5, <1>10, <1>11, <1>12, <1>13

\* Every cell that has a label drains, without rising, to the pit of that label, or
\* to a cell that was handed in with it.
THEOREM EveryCellDrainsToItsPit ==
  Spec => []FlowReachesPit
<1>1. FloodInv /\ DrainInv => FlowReachesPit
  <2> SUFFICES ASSUME FloodInv, DrainInv, stage \in {"flood", "done"},
                      NEW c \in {x \in Cells : label[x] # NO_DEP}
               PROVE  /\ label[Downstream(c)] = label[c] /\ dem[Downstream(c)] <= dem[c]
                      /\ IF label[c] \in Exterior THEN given[Mouth(c)] = label[c]
                         ELSE Mouth(c) = pits[label[c]]
    BY DEF FlowReachesPit
  <2>1. CallOK /\ Drainage /\ c \in Labelled
    BY DEF FloodInv, DrainInv, Labelled
  <2>2. /\ label[Mouth(c)] = label[c] /\ IsEnd(Mouth(c))
        /\ label[Downstream(c)] = label[c] /\ dem[Downstream(c)] <= dem[c]
    BY <2>1, MouthIsEnd
  <2> QED BY <2>2 DEF IsEnd
<1> QED BY FloodInvHolds, DrainInvHolds, <1>1, PTL

-----------------------------------------------------------------------------
\* The order of the outlets, and that LowestOf finds the lowest.
Saddles == [out_cell : Cells, out_elev : Nat]
NotAbove(o, p) == o = p \/ Below(o, p)

\* Among finitely many outlets one is the lowest.
LEMMA LowestHolds ==
  ASSUME NEW S, S \subseteq Saddles, S # {}
  PROVE  LowestOf(S) \in S /\ \A p \in S : NotAbove(LowestOf(S), p)
<1> DEFINE H == {o.out_elev : o \in S}
<1>1. \A o \in S : /\ o.out_cell \in Nat /\ o.out_elev \in Nat
                   /\ o = [out_cell |-> o.out_cell, out_elev |-> o.out_elev]
  <2> SUFFICES ASSUME NEW o \in S
               PROVE  /\ o.out_cell \in Nat /\ o.out_elev \in Nat
                      /\ o = [out_cell |-> o.out_cell, out_elev |-> o.out_elev]
    OBVIOUS
  <2>1. o \in [out_cell : Cells, out_elev : Nat]
    BY DEF Saddles
  <2>2. o = [out_cell |-> o.out_cell, out_elev |-> o.out_elev]
    BY <2>1
  <2>3. o.out_cell \in Cells /\ o.out_elev \in Nat
    BY <2>1
  <2>4. Cells \subseteq Nat
    BY CellCount
  <2> QED BY <2>2, <2>3, <2>4
<1>2. PICK h \in H : \A g \in H : h <= g
  <2>1. H \subseteq Nat /\ H # {}
    BY <1>1
  <2> HIDE DEF H
  <2> QED BY <2>1, Least
<1> DEFINE L == {o \in S : o.out_elev = h}
           C == {o.out_cell : o \in L}
<1>3. PICK k \in C : \A g \in C : k <= g
  <2>1. C \subseteq Nat /\ C # {}
    BY <1>1, <1>2
  <2> HIDE DEF C
  <2> QED BY <2>1, Least
<1>4. PICK o \in S : o.out_elev = h /\ o.out_cell = k
  BY <1>3
<1>5. \A p \in S \ {o} : Below(o, p)
  <2> SUFFICES ASSUME NEW p \in S, p # o PROVE Below(o, p)
    OBVIOUS
  <2>1. h <= p.out_elev /\ h \in Nat /\ p.out_elev \in Nat /\ o.out_cell \in Nat /\ p.out_cell \in Nat
    BY <1>1, <1>2, <1>4
  <2>2. CASE p.out_elev = h
    <3>1. k <= p.out_cell
      BY <1>3, <2>2
    <3>2. k # p.out_cell
      BY <1>1, <1>4, <2>2
    <3> QED BY <1>4, <2>1, <2>2, <3>1, <3>2 DEF Below
  <2>3. CASE p.out_elev # h
    BY <1>4, <2>1, <2>3 DEF Below
  <2> QED BY <2>2, <2>3
<1>6. LowestOf(S) \in S /\ \A p \in S \ {LowestOf(S)} : Below(LowestOf(S), p)
  BY <1>5 DEF LowestOf
<1> QED BY <1>6 DEF NotAbove

\* Not being above is an order on the outlets.
LEMMA NotAboveOrders ==
  ASSUME NEW o \in Saddles, NEW p \in Saddles, NEW q \in Saddles,
         NotAbove(o, p), NotAbove(p, q)
  PROVE  NotAbove(o, q)
<1>1. /\ o.out_cell \in Nat /\ p.out_cell \in Nat /\ q.out_cell \in Nat
      /\ o.out_elev \in Nat /\ p.out_elev \in Nat /\ q.out_elev \in Nat
  BY CellCount DEF Saddles
<1> QED BY <1>1 DEF NotAbove, Below

\* A crossing: two touching cells with different labels.
Crosses(c, n) ==
  /\ n \in Around(c)
  /\ label[c] # NO_DEP /\ label[n] # NO_DEP /\ label[c] # label[n]

KeyOf(c, n) == <<label[c], label[n]>>

\* The database holds saddles of crossings only, and none above the saddle of a
\* crossing from which the flood has already gone on.
IsSaddle(k) == \E c, n \in Cells : Crosses(c, n) /\ k = KeyOf(c, n) /\ db[k] = SaddleOf(c, n)

IsRecorded(c, n) ==
  KeyOf(c, n) \in DOMAIN db /\ NotAbove(db[KeyOf(c, n)], SaddleOf(c, n))

Database ==
  /\ \A k \in DOMAIN db : IsSaddle(k)
  /\ \A c \in Cells : ~ CellQueued(c) =>
       \A n \in Around(c) :
         Crosses(c, n) /\ ~ ({label[c], label[n]} \subseteq Exterior) => IsRecorded(c, n)

DatabaseInv == stage \in {"flood", "done"} => Database

\* The outlet between two cells has its type.
LEMMA SaddleType ==
  ASSUME CallOK, NEW c \in Cells, NEW n \in Cells
  PROVE  SaddleOf(c, n) \in Saddles
BY DEF CallOK, SaddleOf, Saddles

\* Before the first visit nothing is recorded and nothing has to be.
LEMMA DatabaseSeed ==
  FloodInv /\ Seed => Database'
<1> SUFFICES ASSUME FloodInv, Seed PROVE Database'
  OBVIOUS
<1>1. /\ label' = label /\ db' = <<>>
      /\ \A c \in Cells : label[c] \in {NO_DEP} \cup Exterior
  BY DEF FloodInv, Seed, Untouched, Allowed
<1>2. \A k \in DOMAIN db' : IsSaddle(k)'
  BY <1>1
<1>3. \A c \in Cells : \A n \in Around(c) :
        ~ (Crosses(c, n)' /\ ~ ({label'[c], label'[n]} \subseteq Exterior))
  BY <1>1, AroundIsMutual DEF Crosses
<1> QED BY <1>2, <1>3 DEF Database

\* A visit records what the focal cell meets, and keeps the lower of two outlets.
LEMMA DatabaseVisit ==
  FloodInv /\ Database /\ Visit => Database'
<1> SUFFICES ASSUME FloodInv, Database, Visit PROVE Database'
  OBVIOUS
<1>1. stage = "flood" /\ CallOK /\ LabelsOK /\ QueueOK
  BY DEF FloodInv, Visit
<1>2. /\ Focal \in Cells
      /\ FocalLabel # NO_DEP
      /\ Fresh \subseteq Cells /\ Focal \notin Fresh
      /\ label' = [x \in Cells |-> IF x = Focal \/ x \in Fresh THEN FocalLabel ELSE label[x]]
      /\ db' = Recorded(FocalLabel, Focal, Met)
      /\ Queued(queue) \ {<<dem[Focal], Focal>>} \subseteq Queued(queue')
      /\ \A n \in Fresh : <<dem[n], n>> \in Queued(queue')
      /\ dem' = dem
  BY <1>1, VisitIs
<1>3. \A x \in Cells : label[x] # NO_DEP => label'[x] = label[x]
  BY <1>2 DEF Fresh, FocalLabel
<1>4. label'[Focal] = FocalLabel /\ \A n \in Fresh : label'[n] = FocalLabel
  BY <1>2
<1>5. \A c, n \in Cells : SaddleOf(c, n)' = SaddleOf(c, n) /\ SaddleOf(c, n) \in Saddles
  BY <1>1, <1>2, SaddleType DEF SaddleOf
<1>6. \A c, n \in Cells : Crosses(c, n) => Crosses(c, n)' /\ KeyOf(c, n)' = KeyOf(c, n)
  BY <1>3 DEF Crosses, KeyOf
<1>7. PICK f : f = Focal
  OBVIOUS
<1>17. \A n \in Met : /\ n \in Cells /\ Crosses(f, n)'
                      /\ KeyOf(f, n)' = <<FocalLabel, label[n]>>
  <2> SUFFICES ASSUME NEW n \in Met
               PROVE  /\ n \in Cells /\ Crosses(f, n)'
                      /\ KeyOf(f, n)' = <<FocalLabel, label[n]>>
    OBVIOUS
  <2>1. n \in Around(f) /\ label[n] # NO_DEP /\ label[n] # FocalLabel
    BY <1>7 DEF Met
  <2>2. n \in Cells
    BY <1>2, <1>7, <2>1, AroundIsMutual
  <2>3. label'[n] = label[n] /\ label'[f] = FocalLabel
    BY <1>3, <1>4, <1>7, <2>1, <2>2
  <2>4. Crosses(f, n)'
    BY <1>2, <2>1, <2>3 DEF Crosses
  <2> QED BY <2>2, <2>3, <2>4 DEF KeyOf
<1>8. \A k \in DOMAIN db : IsSaddle(k)
  BY DEF Database
<1> DEFINE Choice(k) == {db[j] : j \in {k} \cap DOMAIN db}
                        \cup {SaddleOf(f, n) : n \in {m \in Met : <<FocalLabel, label[m]>> = k}}
<1>9. DOMAIN db' = DOMAIN db \cup {<<FocalLabel, label[n]>> : n \in Met}
  BY <1>2 DEF Recorded
<1>10. \A k \in DOMAIN db' : db'[k] = LowestOf(Choice(k))
  BY <1>2, <1>7 DEF Recorded
<1>11. \A k \in DOMAIN db : db[k] \in Saddles
  BY <1>5, <1>8 DEF IsSaddle
<1>12. ASSUME NEW k \in DOMAIN db'
       PROVE  db'[k] \in Choice(k) /\ \A p \in Choice(k) : NotAbove(db'[k], p)
  <2>1. Choice(k) \subseteq Saddles
    BY <1>2, <1>5, <1>7, <1>11, <1>17
  <2>2. Choice(k) # {}
    BY <1>9
  <2> HIDE DEF Choice
  <2> QED BY <1>10, <2>1, <2>2, LowestHolds
<1>13. ASSUME NEW k \in DOMAIN db' PROVE IsSaddle(k)'
  <2>1. CASE k \in DOMAIN db /\ db'[k] = db[k]
    <3>1. PICK c \in Cells, n \in Cells :
            Crosses(c, n) /\ k = KeyOf(c, n) /\ db[k] = SaddleOf(c, n)
      BY <1>8, <2>1 DEF IsSaddle
    <3>2. Crosses(c, n)' /\ KeyOf(c, n)' = k /\ db'[k] = SaddleOf(c, n)'
      BY <1>5, <1>6, <2>1, <3>1
    <3> QED BY <3>2 DEF IsSaddle
  <2>2. CASE \E n \in Met : <<FocalLabel, label[n]>> = k /\ db'[k] = SaddleOf(f, n)
    <3>1. PICK n \in Met : <<FocalLabel, label[n]>> = k /\ db'[k] = SaddleOf(f, n)
      BY <2>2
    <3>2. f \in Cells /\ n \in Cells /\ Crosses(f, n)' /\ KeyOf(f, n)' = k
      BY <1>2, <1>7, <1>17, <3>1
    <3>3. db'[k] = SaddleOf(f, n)'
      BY <1>5, <3>1, <3>2
    <3> QED BY <3>2, <3>3 DEF IsSaddle
  <2> QED BY <1>12, <2>1, <2>2
<1>14. \A k \in DOMAIN db : k \in DOMAIN db' /\ NotAbove(db'[k], db[k])
  BY <1>9, <1>12
<1>15. \A n \in Met : /\ <<FocalLabel, label[n]>> \in DOMAIN db'
                      /\ NotAbove(db'[<<FocalLabel, label[n]>>], SaddleOf(f, n))
  <2> SUFFICES ASSUME NEW n \in Met
               PROVE  /\ <<FocalLabel, label[n]>> \in DOMAIN db'
                      /\ NotAbove(db'[<<FocalLabel, label[n]>>], SaddleOf(f, n))
    OBVIOUS
  <2>1. SaddleOf(f, n) \in Choice(<<FocalLabel, label[n]>>)
    OBVIOUS
  <2> HIDE DEF Choice
  <2> QED BY <1>9, <1>12, <2>1
<1> HIDE DEF Choice
<1>16. ASSUME NEW c \in Cells, ~ CellQueued(c)', NEW n \in Around(c),
              Crosses(c, n)', ~ ({label'[c], label'[n]} \subseteq Exterior)
       PROVE  IsRecorded(c, n)'
  <2>1. n \in Cells
    BY AroundIsMutual
  <2>2. c \notin Fresh
    BY <1>2, <1>16 DEF CellQueued
  <2>3. label'[c] # NO_DEP /\ label'[n] # NO_DEP /\ label'[c] # label'[n]
    BY <1>16 DEF Crosses
  <2>4. CASE c = f
    <3>1. n \in Met
      <4>1. label[n] # NO_DEP
        BY <1>2, <1>4, <1>7, <2>1, <2>3, <2>4, <1>16 DEF Fresh
      <4>2. label'[n] = label[n] /\ label'[c] = FocalLabel
        BY <1>3, <1>4, <1>7, <2>1, <2>4, <4>1
      <4> QED BY <1>7, <2>3, <2>4, <4>1, <4>2 DEF Met
    <3>2. label'[n] = label[n] /\ label'[c] = FocalLabel
      BY <1>3, <1>4, <1>7, <2>1, <2>4, <3>1 DEF Met
    <3>3. KeyOf(c, n)' = <<FocalLabel, label[n]>>
      BY <3>2 DEF KeyOf
    <3>4. SaddleOf(c, n)' = SaddleOf(f, n)
      BY <1>2, <1>5, <1>7, <2>1, <2>4
    <3> QED BY <1>15, <3>1, <3>3, <3>4 DEF IsRecorded, NotAbove, Below
  <2>5. CASE c # f
    <3>1. label'[c] = label[c] /\ label[c] # NO_DEP
      BY <1>2, <1>7, <2>2, <2>3, <2>5
    <3>2. ~ CellQueued(c)
      <4>1. <<dem[c], c>> # <<dem[Focal], Focal>>
        BY <1>7, <2>5
      <4> QED BY <1>2, <1>16, <4>1 DEF CellQueued
    <3>3. label[n] # NO_DEP
      BY <1>1, <3>1, <3>2 DEF QueueOK, IsFront
    <3>4. label'[n] = label[n]
      BY <1>3, <2>1, <3>3
    <3>5. Crosses(c, n) /\ KeyOf(c, n)' = KeyOf(c, n)
      BY <2>3, <3>1, <3>3, <3>4 DEF Crosses, KeyOf
    <3>6. IsRecorded(c, n)
      BY <1>16, <3>1, <3>2, <3>4, <3>5 DEF Database
    <3>7. PICK k : k = KeyOf(c, n)
      OBVIOUS
    <3>8. k \in DOMAIN db /\ NotAbove(db[k], SaddleOf(c, n)) /\ db[k] \in Saddles
      BY <1>11, <3>6, <3>7 DEF IsRecorded
    <3>9. k \in DOMAIN db' /\ NotAbove(db'[k], db[k])
      BY <1>14, <3>8
    <3>10. db'[k] \in Saddles
      <4>1. IsSaddle(k)'
        BY <1>13, <3>9
      <4>2. \E x, y \in Cells : db'[k] = SaddleOf(x, y)'
        BY <4>1 DEF IsSaddle
      <4> QED BY <1>5, <4>2
    <3>11. NotAbove(db'[k], SaddleOf(c, n))
      BY <1>2, <1>5, <2>1, <3>8, <3>9, <3>10, NotAboveOrders
    <3>12. KeyOf(c, n)' = k /\ SaddleOf(c, n)' = SaddleOf(c, n)
      BY <1>5, <2>1, <3>5, <3>7
    <3> QED BY <3>9, <3>11, <3>12 DEF IsRecorded, NotAbove, Below
  <2> QED BY <2>4, <2>5
<1> QED BY <1>13, <1>16 DEF Database

\* The other steps leave the labels and the outlets alone, and only the queue
\* running empty ends the flood.
LEMMA DatabaseInvHolds ==
  Spec => []DatabaseInv
<1>1. Init => DatabaseInv
  BY DEF Init, DatabaseInv
<1>2. FloodInv /\ DatabaseInv /\ [Next]_vars => DatabaseInv'
  <2> SUFFICES ASSUME FloodInv, DatabaseInv, [Next]_vars PROVE DatabaseInv'
    OBVIOUS
  <2>1. CASE Seed
    BY <2>1, DatabaseSeed DEF DatabaseInv
  <2>2. CASE Visit
    BY <2>2, DatabaseVisit DEF DatabaseInv, Visit
  <2>3. CASE Refuse \/ Finish \/ UNCHANGED vars
    <3>1. UNCHANGED <<dem, label, queue, db>>
      BY <2>3 DEF Refuse, Finish, vars
    <3>2. stage' \in {"flood", "done"} => stage \in {"flood", "done"}
      BY <2>3 DEF Refuse, Finish, vars
    <3>3. \A c, n \in Cells : /\ Crosses(c, n)' <=> Crosses(c, n)
                              /\ KeyOf(c, n)' = KeyOf(c, n) /\ SaddleOf(c, n)' = SaddleOf(c, n)
      BY <3>1 DEF Crosses, KeyOf, SaddleOf
    <3>4. \A k : IsSaddle(k) => IsSaddle(k)'
      BY <3>1, <3>3 DEF IsSaddle
    <3>5. \A c, n \in Cells : IsRecorded(c, n) => IsRecorded(c, n)'
      BY <3>1, <3>3 DEF IsRecorded, NotAbove, Below
    <3>6. \A c \in Cells : CellQueued(c)' <=> CellQueued(c)
      BY <3>1 DEF CellQueued
    <3>7. \A c \in Cells : \A n \in Around(c) : n \in Cells
      BY AroundIsMutual
    <3>8. Database => Database'
      BY <3>1, <3>3, <3>4, <3>5, <3>6, <3>7 DEF Database
    <3> QED BY <3>2, <3>8 DEF DatabaseInv
  <2> QED BY <2>1, <2>2, <2>3 DEF Next
<1> QED BY <1>1, <1>2, FloodInvHolds, PTL DEF Spec

\* Every label names the ocean, the boundary or a depression that exists, and the
\* outlets are between two labels that are in use.
THEOREM TypesHold ==
  Spec => []TypeOK
<1>1. FloodInv /\ DrainInv /\ DatabaseInv => TypeOK
  <2> SUFFICES ASSUME FloodInv, DrainInv, DatabaseInv PROVE TypeOK
    OBVIOUS
  <2>1. /\ <<dem, given>> \in [Cells -> Int] \X [Cells -> Int] /\ permit \in BOOLEAN
        /\ dem \in [Cells -> Nat] /\ stage \in {"seed", "flood", "done", "thrown"}
    BY DEF FloodInv, CallOK
  <2>2. CASE stage \in {"seed", "thrown"}
    <3>1. flow = [c \in Cells |-> NO_FLOW] /\ pits = <<>> /\ DOMAIN db = {}
      BY <2>2 DEF FloodInv, Untouched
    <3>2. flow \in [Cells -> Cells \cup {NO_FLOW}] /\ pits \in Seq(Cells)
      BY <3>1
    <3> QED BY <2>1, <2>2, <3>1, <3>2 DEF TypeOK
  <2>3. CASE stage \in {"flood", "done"}
    <3>1. /\ label \in [Cells -> Labels] /\ pits \in Seq(Cells)
          /\ flow \in [Cells -> Cells \cup {NO_FLOW}]
      BY <2>3 DEF FloodInv, DrainInv, LabelsOK, Drainage
    <3>2. ASSUME NEW k \in DOMAIN db
          PROVE  /\ k[1] # k[2] /\ {k[1], k[2]} \subseteq Labels \ {NO_DEP}
                 /\ db[k] \in [out_cell : Cells, out_elev : Int]
      <4>1. IsSaddle(k)
        BY <2>3 DEF DatabaseInv, Database
      <4>2. PICK c \in Cells, n \in Cells :
              Crosses(c, n) /\ k = KeyOf(c, n) /\ db[k] = SaddleOf(c, n)
        BY <4>1 DEF IsSaddle
      <4>3. k[1] = label[c] /\ k[2] = label[n]
        BY <4>2 DEF KeyOf
      <4>4. label[c] # label[n] /\ {label[c], label[n]} \subseteq Labels \ {NO_DEP}
        BY <3>1, <4>2 DEF Crosses
      <4>5. SaddleOf(c, n) \in [out_cell : Cells, out_elev : Int]
        BY <2>1 DEF SaddleOf
      <4> QED BY <4>2, <4>3, <4>4, <4>5
    <3> QED BY <2>1, <3>1, <3>2 DEF TypeOK
  <2> QED BY <2>1, <2>2, <2>3
<1> QED BY FloodInvHolds, DrainInvHolds, DatabaseInvHolds, <1>1, PTL

-----------------------------------------------------------------------------
\* What OutletsAreSaddles says of one pair of labels.
HeightOf(s) == Max({dem[s[1]], dem[s[2]]})
CellOf(s) == IF dem[s[2]] > dem[s[1]] THEN s[2] ELSE s[1]
Between(k) == {s \in Crossings : <<label[s[1]], label[s[2]]>> = k}

\* The outlet of a crossing is its higher cell.
LEMMA SaddleParts ==
  ASSUME CallOK, NEW s \in Cells \X Cells
  PROVE  /\ SaddleOf(s[1], s[2]) = [out_cell |-> CellOf(s), out_elev |-> HeightOf(s)]
         /\ HeightOf(s) \in Nat /\ CellOf(s) \in Nat
<1>1. s[1] \in Cells /\ s[2] \in Cells /\ Cells \subseteq Nat
  BY CellCount
<1>2. dem[s[1]] \in Nat /\ dem[s[2]] \in Nat
  BY <1>1 DEF CallOK
<1>3. HeightOf(s) = IF dem[s[2]] > dem[s[1]] THEN dem[s[2]] ELSE dem[s[1]]
  BY <1>2, MaxOfTwo DEF HeightOf
<1> QED BY <1>1, <1>2, <1>3 DEF SaddleOf, CellOf

\* The crossing a database entry was made at is the lowest of its pair of labels.
LEMMA LowestCrossing ==
  ASSUME FloodInv, Database, stage = "done", NEW k \in DOMAIN db,
         ~ ({k[1], k[2]} \subseteq Exterior)
  PROVE  \E s \in Between(k) :
           /\ db[k].out_elev = HeightOf(s) /\ db[k].out_cell = CellOf(s)
           /\ \A t \in Between(k) :
                /\ HeightOf(s) <= HeightOf(t)
                /\ HeightOf(t) = HeightOf(s) => CellOf(s) <= CellOf(t)
<1>1. CallOK /\ QueueOK /\ Queued(queue) = {}
  BY DEF FloodInv, QueueOK
<1>2. PICK c \in Cells, n \in Cells :
        Crosses(c, n) /\ k = KeyOf(c, n) /\ db[k] = SaddleOf(c, n)
  BY DEF Database, IsSaddle
<1> DEFINE s == <<c, n>>
<1>3. s \in Between(k)
  BY <1>2 DEF Between, Crossings, Crosses, KeyOf
<1>4. /\ db[k] = [out_cell |-> CellOf(s), out_elev |-> HeightOf(s)]
      /\ HeightOf(s) \in Nat /\ CellOf(s) \in Nat
  <2>1. s \in Cells \X Cells /\ s[1] = c /\ s[2] = n
    OBVIOUS
  <2> HIDE DEF s
  <2> QED BY <1>1, <1>2, <2>1, SaddleParts
<1> HIDE DEF s
<1>5. ASSUME NEW t \in Between(k)
      PROVE  /\ HeightOf(s) <= HeightOf(t)
             /\ HeightOf(t) = HeightOf(s) => CellOf(s) <= CellOf(t)
  <2>1. /\ t \in Cells \X Cells /\ t[1] \in Cells /\ t[2] \in Around(t[1])
        /\ label[t[1]] # label[t[2]] /\ <<label[t[1]], label[t[2]]>> = k
    BY DEF Between, Crossings
  <2>2. label[t[1]] # NO_DEP /\ label[t[2]] # NO_DEP
    BY <1>2, <2>1 DEF Crosses, KeyOf
  <2>3. ~ CellQueued(t[1])
    BY <1>1 DEF CellQueued
  <2>4. Crosses(t[1], t[2]) /\ KeyOf(t[1], t[2]) = k
    BY <2>1, <2>2 DEF Crosses, KeyOf
  <2>5. ~ ({label[t[1]], label[t[2]]} \subseteq Exterior)
    BY <2>1
  <2>6. IsRecorded(t[1], t[2])
    BY <2>1, <2>3, <2>4, <2>5 DEF Database
  <2>7. NotAbove(db[k], SaddleOf(t[1], t[2]))
    BY <2>4, <2>6 DEF IsRecorded
  <2>8. /\ SaddleOf(t[1], t[2]) = [out_cell |-> CellOf(t), out_elev |-> HeightOf(t)]
        /\ HeightOf(t) \in Nat /\ CellOf(t) \in Nat
    BY <1>1, <2>1, SaddleParts
  <2>9. /\ db[k].out_elev = HeightOf(s) /\ db[k].out_cell = CellOf(s)
        /\ SaddleOf(t[1], t[2]).out_elev = HeightOf(t) /\ SaddleOf(t[1], t[2]).out_cell = CellOf(t)
    BY <1>4, <2>8
  <2>10. \/ HeightOf(s) = HeightOf(t) /\ CellOf(s) = CellOf(t)
         \/ HeightOf(s) < HeightOf(t)
         \/ HeightOf(s) = HeightOf(t) /\ CellOf(s) < CellOf(t)
    BY <2>7, <2>9 DEF NotAbove, Below
  <2> QED BY <1>4, <2>8, <2>10
<1> QED BY <1>3, <1>4, <1>5

\* When the flood is over the database holds the lowest crossing between every two
\* labels that touch.
THEOREM OutletsAreLowestCrossings ==
  Spec => []OutletsAreSaddles
<1>1. FloodInv /\ DatabaseInv => OutletsAreSaddles
  <2> SUFFICES ASSUME FloodInv, DatabaseInv, stage = "done" PROVE OutletsAreSaddles
    BY DEF OutletsAreSaddles
  <2>1. CallOK /\ LabelsOK /\ QueueOK /\ Queued(queue) = {} /\ Database
    BY DEF FloodInv, QueueOK, DatabaseInv
  <2>2. \A c \in Cells : label[c] # NO_DEP
    BY <2>1, SomethingLower
  <2> DEFINE keys == {k \in DOMAIN db : ~ {k[1], k[2]} \subseteq Exterior}
  <2>3. keys = {<<label[s[1]], label[s[2]]>> : s \in Crossings}
    <3>1. ASSUME NEW k \in keys PROVE \E s \in Crossings : k = <<label[s[1]], label[s[2]]>>
      <4>1. PICK s \in Between(k) : TRUE
        BY <2>1, <3>1, LowestCrossing
      <4> QED BY <4>1 DEF Between
    <3>2. ASSUME NEW s \in Crossings PROVE <<label[s[1]], label[s[2]]>> \in keys
      <4>1. /\ s[1] \in Cells /\ s[2] \in Cells /\ s[2] \in Around(s[1]) /\ label[s[1]] # label[s[2]]
            /\ ~ {label[s[1]], label[s[2]]} \subseteq Exterior
        BY DEF Crossings
      <4>2. Crosses(s[1], s[2]) /\ ~ CellQueued(s[1])
        BY <2>1, <2>2, <4>1 DEF Crosses, CellQueued
      <4>3. IsRecorded(s[1], s[2])
        BY <2>1, <4>1, <4>2 DEF Database
      <4> QED BY <4>1, <4>3 DEF IsRecorded, KeyOf
    <3> HIDE DEF keys
    <3> QED BY <3>1, <3>2
  <2>4. ASSUME NEW k \in keys
        PROVE  LET lowest == Min({HeightOf(s) : s \in Between(k)})
               IN  /\ db[k].out_elev = lowest
                   /\ db[k].out_cell = Min({CellOf(s) : s \in {b \in Between(k) : HeightOf(b) = lowest}})
    <3>1. PICK s \in Between(k) :
           /\ db[k].out_elev = HeightOf(s) /\ db[k].out_cell = CellOf(s)
           /\ \A t \in Between(k) :
                /\ HeightOf(s) <= HeightOf(t)
                /\ HeightOf(t) = HeightOf(s) => CellOf(s) <= CellOf(t)
      BY <2>1, <2>4, LowestCrossing
    <3>2. \A t \in Between(k) : HeightOf(t) \in Nat /\ CellOf(t) \in Nat
      BY <2>1, SaddleParts DEF Between, Crossings
    <3> DEFINE H == {HeightOf(t) : t \in Between(k)}
               C == {CellOf(t) : t \in {b \in Between(k) : HeightOf(b) = HeightOf(s)}}
    <3>3. Min(H) = HeightOf(s)
      <4>1. H \subseteq Nat /\ HeightOf(s) \in H /\ \A y \in H : HeightOf(s) <= y
        BY <3>1, <3>2
      <4> HIDE DEF H
      <4> QED BY <4>1, MinIs
    <3>4. Min(C) = CellOf(s)
      <4>1. C \subseteq Nat /\ CellOf(s) \in C /\ \A y \in C : CellOf(s) <= y
        BY <3>1, <3>2
      <4> HIDE DEF C
      <4> QED BY <4>1, MinIs
    <3> QED BY <3>1, <3>3, <3>4
  <2> QED BY <2>3, <2>4 DEF OutletsAreSaddles, Between, HeightOf, CellOf
<1> QED BY FloodInvHolds, DatabaseInvHolds, <1>1, PTL

-----------------------------------------------------------------------------
(***************************************************************************)
(* What the flood hands on when it is over: the outlets carry the passes   *)
(* of the terrain, and a flat without a lower neighbour has one label.     *)
(***************************************************************************)
\* What a terrain filled up to z holds: with a cell its neighbours no higher than z,
\* and with one exterior cell every exterior cell no higher than z.
WetClosed(z, W) ==
  /\ \A x \in W : \A n \in Around(x) : dem[n] <= z => n \in W
  /\ \A x \in W : \A n \in Cells :
       given[x] # NO_DEP /\ given[n] # NO_DEP /\ dem[n] <= z => n \in W

\* WetWith is the least such set around what it starts from.
LEMMA WetIs ==
  ASSUME NEW z, NEW B \in SUBSET Cells
  PROVE  /\ B \subseteq WetWith(z, B) /\ WetWith(z, B) \subseteq Cells
         /\ WetClosed(z, WetWith(z, B))
         /\ \A Q : B \subseteq Q /\ WetClosed(z, Q) => WetWith(z, B) \subseteq Q
<1> DEFINE Wetter(T) == T \cup {n \in UNION {Around(x) : x \in T} : dem[n] <= z}
                          \cup {n \in Cells : given[n] # NO_DEP /\ dem[n] <= z
                                              /\ \E x \in T : given[x] # NO_DEP}
           Step == [T \in SUBSET Cells |-> Wetter(T)]
           W == WetWith(z, B)
<1>1. /\ N \in Nat /\ N = Width * Height
      /\ IsFiniteSet(Cells) /\ Cardinality(Cells) <= N
  BY CellCount DEF N
<1>2. \A T \in SUBSET Cells : Wetter(T) \in SUBSET Cells /\ Step[T] = Wetter(T)
  BY AroundIsMutual
<1>3. PICK V : V = SUBSET Cells
  OBVIOUS
<1>4. /\ Step \in [V -> V] /\ B \in V
      /\ \A T \in V : T \subseteq Step[T] /\ T \subseteq Cells
  BY <1>2, <1>3
<1>5. W = Reach(N, B, Step)
  BY <1>1 DEF WetWith
<1>6. /\ W \in V /\ B \subseteq W /\ Step[W] = W
      /\ \A Q : B \subseteq Q /\ (\A S \in V : S \subseteq Q => Step[S] \subseteq Q) => W \subseteq Q
  <2> HIDE DEF Step, W
  <2> QED BY <1>1, <1>4, <1>5, ReachIsLeast
<1>7. WetClosed(z, W)
  <2>1. Wetter(W) = W
    BY <1>2, <1>3, <1>6
  <2> HIDE DEF W
  <2> QED BY <2>1 DEF WetClosed
<1>8. ASSUME NEW Q, B \subseteq Q, WetClosed(z, Q) PROVE W \subseteq Q
  <2>1. ASSUME NEW S \in V, S \subseteq Q PROVE Step[S] \subseteq Q
    <3>1. Wetter(S) \subseteq Q
      BY <1>8, <2>1 DEF WetClosed
    <3> QED BY <1>2, <1>3, <3>1
  <2> HIDE DEF W, Step
  <2> QED BY <1>6, <1>8, <2>1
<1> HIDE DEF W
<1> QED BY <1>3, <1>6, <1>7, <1>8 DEF W

\* The outlets no higher than z lead from one sink to the next.
Sinks == 0 .. Len(pits)

LinkClosed(z, R) ==
  \A k \in DOMAIN db : SinkOf(k[1]) \in R /\ db[k].out_elev <= z => SinkOf(k[2]) \in R

\* LinkedWith is the least set of sinks that is closed in this sense.
LEMMA LinkedIs ==
  ASSUME NEW z, NEW l \in Sinks, Len(pits) \in Nat,
         \A k \in DOMAIN db : SinkOf(k[2]) \in Sinks
  PROVE  /\ l \in LinkedWith(z, l) /\ LinkedWith(z, l) \subseteq Sinks
         /\ LinkClosed(z, LinkedWith(z, l))
         /\ \A Q : l \in Q /\ LinkClosed(z, Q) => LinkedWith(z, l) \subseteq Q
<1> DEFINE M == Len(pits) + 1
           Wider(T) == T \cup {SinkOf(k[2]) : k \in {k \in DOMAIN db : SinkOf(k[1]) \in T
                                                                       /\ db[k].out_elev <= z}}
           Step == [T \in SUBSET Sinks |-> Wider(T)]
           R == LinkedWith(z, l)
<1>1. PICK U : U = Sinks
  OBVIOUS
<1>2. M \in Nat /\ IsFiniteSet(U) /\ Cardinality(U) <= M
  <2>1. 0 \in Int /\ Len(pits) \in Int
    OBVIOUS
  <2>2. IsFiniteSet(0 .. Len(pits)) /\ Cardinality(0 .. Len(pits)) = Len(pits) - 0 + 1
    BY <2>1, FS_Interval
  <2> QED BY <1>1, <2>2 DEF Sinks, M
<1>3. \A T \in SUBSET Sinks : Wider(T) \in SUBSET Sinks /\ Step[T] = Wider(T)
  OBVIOUS
<1>4. PICK V, B : V = SUBSET Sinks /\ B = {l}
  OBVIOUS
<1>5. /\ Step \in [V -> V] /\ B \in V
      /\ \A T \in V : T \subseteq Step[T] /\ T \subseteq U
  BY <1>1, <1>3, <1>4
<1>6. R = Reach(M, B, Step)
  BY <1>4 DEF LinkedWith, Sinks
<1>7. /\ R \in V /\ B \subseteq R /\ Step[R] = R
      /\ \A Q : B \subseteq Q /\ (\A S \in V : S \subseteq Q => Step[S] \subseteq Q) => R \subseteq Q
  <2>1. (\A T \in V : T \subseteq U) /\ \A T \in V : T \subseteq Step[T]
    BY <1>5
  <2>2. PICK m, g : m = M /\ g = Step
    OBVIOUS
  <2> HIDE DEF Step, R, M
  <2>3. /\ m \in Nat /\ IsFiniteSet(U) /\ Cardinality(U) <= m
        /\ (\A T \in V : T \subseteq U) /\ B \in V /\ g \in [V -> V]
        /\ (\A T \in V : T \subseteq g[T]) /\ R = Reach(m, B, g)
    BY <1>2, <1>5, <1>6, <2>1, <2>2
  <2>4. /\ R \in V /\ B \subseteq R /\ g[R] = R
        /\ \A Q : B \subseteq Q /\ (\A S \in V : S \subseteq Q => g[S] \subseteq Q) => R \subseteq Q
    BY <2>3, ReachIsLeast
  <2> QED BY <2>2, <2>4
<1>8. LinkClosed(z, R)
  <2>1. Wider(R) = R
    BY <1>3, <1>4, <1>7
  <2> HIDE DEF R
  <2> QED BY <2>1 DEF LinkClosed
<1>9. ASSUME NEW Q, l \in Q, LinkClosed(z, Q) PROVE R \subseteq Q
  <2>1. ASSUME NEW S \in V, S \subseteq Q PROVE Step[S] \subseteq Q
    <3>1. Wider(S) \subseteq Q
      BY <1>9, <2>1 DEF LinkClosed
    <3> QED BY <1>3, <1>4, <3>1
  <2>2. B \subseteq Q
    BY <1>4, <1>9
  <2> HIDE DEF R, Step
  <2> QED BY <1>7, <2>1, <2>2
<1> HIDE DEF R
<1> QED BY <1>4, <1>7, <1>8, <1>9 DEF R

-----------------------------------------------------------------------------
\* Flow goes from neighbour to neighbour and does not rise, so a wet set that holds
\* a cell holds its mouth, and one that holds the mouth the cell.
LEMMA CourseStays ==
  ASSUME CallOK, Drainage, NEW c \in Labelled, NEW z \in Int, dem[c] <= z,
         NEW W \in SUBSET Cells, WetClosed(z, W)
  PROVE  (c \in W <=> Mouth(c) \in W) /\ dem[Mouth(c)] <= z /\ Mouth(c) \in Cells
<1>1. flow \in [Cells -> Cells \cup {NO_FLOW}] /\ c \in Cells /\ N \in Nat /\ dem \in [Cells -> Nat]
  BY CellCount DEF Drainage, Labelled, CallOK
<1>2. PICK g : IsCourse(g, c)
  BY <1>1, CourseExists
<1> DEFINE T == {i \in 0 .. N : dem[g[i]] <= z /\ (c \in W <=> g[i] \in W)}
<1>3. 0 \in T
  BY <1>1, <1>2 DEF IsCourse
<1>4. ASSUME NEW i \in 0 .. N - 1, i \in T PROVE i + 1 \in T
  <2>1. i + 1 \in 1 .. N /\ i + 1 \in 0 .. N /\ (i + 1) - 1 = i /\ i \in 0 .. N
    BY <1>1
  <2>2. g[i + 1] = Downstream(g[i]) /\ g[i] \in Cells
    BY <1>2, <2>1 DEF IsCourse
  <2>3. CASE flow[g[i]] = NO_FLOW
    BY <1>4, <2>1, <2>2, <2>3 DEF Downstream
  <2>4. CASE flow[g[i]] # NO_FLOW
    <3>1. /\ g[i + 1] = flow[g[i]] /\ g[i + 1] \in Cells
          /\ g[i + 1] \in Around(g[i]) /\ dem[g[i + 1]] <= dem[g[i]]
      BY <1>1, <2>2, <2>4 DEF Downstream, Drainage
    <3>2. g[i] \in Around(g[i + 1])
      BY <2>2, <3>1, AroundIsMutual
    <3>3. dem[g[i]] \in Nat /\ dem[g[i + 1]] \in Nat /\ dem[g[i]] <= z
      BY <1>1, <1>4, <2>2, <3>1
    <3>4. dem[g[i + 1]] <= z
      BY <3>1, <3>3
    <3>5. g[i] \in W <=> g[i + 1] \in W
      BY <3>1, <3>2, <3>3, <3>4 DEF WetClosed
    <3> QED BY <1>4, <2>1, <3>4, <3>5
  <2> QED BY <2>3, <2>4
<1>5. N \in T
  <2>1. 0 .. N \subseteq T
    <3> HIDE DEF T
    <3> QED BY <1>1, <1>3, <1>4, Upwards
  <2> QED BY <1>1, <2>1
<1> QED BY <1>1, <1>2, <1>5 DEF IsCourse

\* The ends of the two ways of going on from a depression.
LEMMA PassesCarried ==
  ASSUME FloodInv, Drainage, Database, stage = "done",
         NEW i \in DOMAIN pits, NEW z \in Int, dem[pits[i]] <= z
  PROVE  LET wet == WetWith(z, {pits[i]})
             linked == LinkedWith(z, i)
         IN  /\ \A j \in DOMAIN pits : pits[j] \in wet <=> j \in linked
             /\ (\E c \in wet : given[c] # NO_DEP) <=> OCEAN \in linked
<1>1. CallOK /\ LabelsOK /\ QueueOK /\ Queued(queue) = {}
  BY DEF FloodInv, QueueOK
<1>2. /\ pits \in Seq(Cells) /\ Len(pits) \in Nat /\ DOMAIN pits = 1 .. Len(pits)
      /\ label \in [Cells -> Labels] /\ dem \in [Cells -> Nat]
      /\ \A j \in DOMAIN pits : pits[j] \in Cells /\ label[pits[j]] = j
  BY <1>1 DEF LabelsOK, CallOK
<1>3. \A c \in Cells : label[c] # NO_DEP /\ c \in Labelled /\ ~ CellQueued(c)
  BY <1>1, SomethingLower DEF Labelled, CellQueued
<1>4. \A j \in DOMAIN pits : j \in Sinks /\ SinkOf(j) = j /\ j \notin Exterior /\ j # OCEAN
  <2>1. \A j, k \in DOMAIN pits : pits[j] = pits[k] => j = k
    BY <1>2
  <2>2. Len(pits) < BOUNDARY
    BY <1>2, <2>1, PitsFit
  <2> QED BY <1>2, <2>2, LabelAssumption DEF Sinks, SinkOf, Exterior, OCEAN
<1>5. \A c \in Cells : SinkOf(label[c]) \in Sinks
  BY <1>2, <1>3 DEF SinkOf, Sinks, Labels, Exterior, OCEAN
<1>6. \A k \in DOMAIN db : IsSaddle(k)
  BY DEF Database
<1>7. \A k \in DOMAIN db : SinkOf(k[2]) \in Sinks
  BY <1>5, <1>6 DEF IsSaddle, KeyOf
<1>8. \A c \in Cells : given[c] # NO_DEP => label[c] \in Exterior /\ SinkOf(label[c]) = OCEAN
  BY <1>1 DEF LabelsOK, SinkOf
<1> DEFINE wet == WetWith(z, {pits[i]})
           linked == LinkedWith(z, i)
<1>9. /\ {pits[i]} \subseteq wet /\ wet \in SUBSET Cells /\ WetClosed(z, wet)
      /\ \A Q : {pits[i]} \subseteq Q /\ WetClosed(z, Q) => wet \subseteq Q
  <2>1. {pits[i]} \in SUBSET Cells
    BY <1>2
  <2> QED BY <2>1, WetIs
<1>10. /\ i \in linked /\ LinkClosed(z, linked)
       /\ \A Q : i \in Q /\ LinkClosed(z, Q) => linked \subseteq Q
  BY <1>2, <1>4, <1>7, LinkedIs
<1> HIDE DEF wet, linked
\* What is wet lies in a basin the outlets lead to.
<1> DEFINE Q == {x \in Cells : dem[x] <= z /\ SinkOf(label[x]) \in linked}
<1>11. WetClosed(z, Q)
  <2>1. ASSUME NEW x \in Q, NEW n \in Around(x), dem[n] <= z PROVE n \in Q
    <3>1. x \in Cells /\ n \in Cells /\ dem[x] <= z /\ SinkOf(label[x]) \in linked
      BY AroundIsMutual
    <3>2. CASE label[x] = label[n] \/ {label[x], label[n]} \subseteq Exterior
      BY <2>1, <3>1, <3>2 DEF SinkOf
    <3>3. CASE label[x] # label[n] /\ ~ ({label[x], label[n]} \subseteq Exterior)
      <4>1. Crosses(x, n)
        BY <1>3, <2>1, <3>1, <3>3 DEF Crosses
      <4>2. KeyOf(x, n) \in DOMAIN db /\ NotAbove(db[KeyOf(x, n)], SaddleOf(x, n))
        BY <1>3, <2>1, <3>1, <3>3, <4>1 DEF Database, IsRecorded
      <4>3. PICK k : k = KeyOf(x, n)
        OBVIOUS
      <4>4. k[1] = label[x] /\ k[2] = label[n]
        BY <4>3 DEF KeyOf
      <4>5. db[k].out_elev <= z
        <5>1. SaddleOf(x, n) \in Saddles /\ SaddleOf(x, n).out_elev <= z
          BY <1>1, <1>2, <2>1, <3>1, SaddleType DEF SaddleOf
        <5>2. db[k].out_elev \in Nat
          <6>1. PICK a \in Cells, b \in Cells : db[k] = SaddleOf(a, b)
            BY <1>6, <4>2, <4>3 DEF IsSaddle
          <6> QED BY <1>1, <6>1, SaddleType DEF Saddles
        <5>3. SaddleOf(x, n).out_elev \in Nat
          BY <5>1 DEF Saddles
        <5> QED BY <4>2, <4>3, <5>1, <5>2, <5>3 DEF NotAbove, Below
      <4>6. SinkOf(label[n]) \in linked
        BY <1>10, <3>1, <4>2, <4>3, <4>4, <4>5 DEF LinkClosed
      <4> QED BY <2>1, <3>1, <4>6
    <3> QED BY <3>2, <3>3
  <2>2. ASSUME NEW x \in Q, NEW n \in Cells, given[x] # NO_DEP, given[n] # NO_DEP, dem[n] <= z
        PROVE  n \in Q
    BY <1>8, <2>2
  <2> HIDE DEF Q
  <2> QED BY <2>1, <2>2 DEF WetClosed
<1>12. wet \subseteq Q
  <2>1. {pits[i]} \subseteq Q
    BY <1>2, <1>4, <1>10
  <2> HIDE DEF Q
  <2> QED BY <1>9, <1>11, <2>1
\* What the outlets lead to is wet.
<1> DEFINE R == {l \in Sinks : IF l = OCEAN THEN \E c \in wet : given[c] # NO_DEP
                               ELSE pits[l] \in wet}
<1>13. ASSUME NEW c \in Cells, dem[c] <= z PROVE c \in wet <=> SinkOf(label[c]) \in R
  <2>1. /\ c \in wet <=> Mouth(c) \in wet
        /\ dem[Mouth(c)] <= z /\ Mouth(c) \in Cells
    BY <1>1, <1>3, <1>9, <1>13, CourseStays
  <2>2. label[Mouth(c)] = label[c] /\ IsEnd(Mouth(c))
    BY <1>1, <1>3, MouthIsEnd
  <2>3. CASE label[c] \in Exterior
    <3>1. given[Mouth(c)] # NO_DEP /\ SinkOf(label[c]) = OCEAN
      BY <1>3, <2>2, <2>3 DEF IsEnd, SinkOf
    <3>2. (\E x \in wet : given[x] # NO_DEP) => Mouth(c) \in wet
      BY <1>9, <2>1, <3>1 DEF WetClosed
    <3>3. OCEAN \in Sinks
      BY <1>2 DEF Sinks, OCEAN
    <3> QED BY <2>1, <3>1, <3>2, <3>3
  <2>4. CASE label[c] \notin Exterior
    <3>1. label[c] \in DOMAIN pits /\ pits[label[c]] = Mouth(c) /\ SinkOf(label[c]) = label[c]
      BY <2>2, <2>4 DEF IsEnd, SinkOf
    <3> QED BY <1>4, <2>1, <3>1
  <2> QED BY <2>3, <2>4
<1>14. i \in R
  BY <1>4, <1>9
<1> HIDE DEF R
<1>15. LinkClosed(z, R)
  <2> SUFFICES ASSUME NEW k \in DOMAIN db, SinkOf(k[1]) \in R, db[k].out_elev <= z
               PROVE  SinkOf(k[2]) \in R
    BY DEF LinkClosed
  <2>1. PICK a \in Cells, b \in Cells :
          Crosses(a, b) /\ k = KeyOf(a, b) /\ db[k] = SaddleOf(a, b)
    BY <1>6 DEF IsSaddle
  <2>2. k[1] = label[a] /\ k[2] = label[b] /\ b \in Around(a)
    BY <2>1 DEF KeyOf, Crosses
  <2>3. dem[a] <= z /\ dem[b] <= z
    <3>1. dem[a] \in Nat /\ dem[b] \in Nat
      BY <1>2
    <3>2. db[k].out_elev = IF dem[b] > dem[a] THEN dem[b] ELSE dem[a]
      BY <2>1 DEF SaddleOf
    <3> QED BY <3>1, <3>2
  <2>4. a \in wet
    BY <1>13, <2>2, <2>3
  <2>5. b \in wet
    BY <1>9, <2>2, <2>3, <2>4 DEF WetClosed
  <2> QED BY <1>13, <2>2, <2>3, <2>5
<1>16. linked \subseteq R
  BY <1>10, <1>14, <1>15
<1>17. ASSUME NEW j \in DOMAIN pits PROVE pits[j] \in wet <=> j \in linked
  <2>1. pits[j] \in wet => j \in linked
    BY <1>2, <1>4, <1>12
  <2>2. j \in linked => pits[j] \in wet
    BY <1>4, <1>16 DEF R
  <2> QED BY <2>1, <2>2
<1>18. (\E c \in wet : given[c] # NO_DEP) <=> OCEAN \in linked
  <2>1. ASSUME NEW c \in wet, given[c] # NO_DEP PROVE OCEAN \in linked
    BY <1>8, <1>12, <2>1
  <2>2. OCEAN \in linked => \E c \in wet : given[c] # NO_DEP
    BY <1>16 DEF R
  <2> QED BY <2>1, <2>2
<1> QED BY <1>17, <1>18 DEF wet, linked

\* With the exterior as one sink, two pits, or a pit and the sink, are connected
\* over cells no higher than z exactly if they are over outlets no higher than z.
LEMMA PassesAreKept ==
  Spec => []PassesSurvive
<1>1. FloodInv /\ DrainInv /\ DatabaseInv => PassesSurvive
  <2> SUFFICES ASSUME FloodInv, DrainInv, DatabaseInv, stage = "done",
                      NEW i \in DOMAIN pits, NEW z \in {dem[c] : c \in Cells}, z >= dem[pits[i]]
               PROVE  LET wet == WetWith(z, {pits[i]})
                          linked == LinkedWith(z, i)
                      IN  /\ \A j \in DOMAIN pits : pits[j] \in wet <=> j \in linked
                          /\ (\E c \in wet : given[c] # NO_DEP) <=> OCEAN \in linked
    BY DEF PassesSurvive
  <2>1. Drainage /\ Database
    BY DEF DrainInv, DatabaseInv
  <2>2. z \in Int /\ dem[pits[i]] <= z
    <3>1. dem \in [Cells -> Nat] /\ pits[i] \in Cells
      BY DEF FloodInv, CallOK, LabelsOK
    <3> QED BY <3>1
  <2> QED BY <2>1, <2>2, PassesCarried
<1> QED BY FloodInvHolds, DrainInvHolds, DatabaseInvHolds, <1>1, PTL

\* The outlets are the saddles between the labels and all of the passes of the
\* terrain: nothing that the hierarchy is later built from is missing or wrong.
THEOREM OutletsKeepThePasses == Spec => []OutletsCarryPasses
<1>1. OutletsAreSaddles /\ PassesSurvive => OutletsCarryPasses
  BY DEF OutletsCarryPasses
<1> QED BY OutletsAreLowestCrossings, PassesAreKept, <1>1, PTL

-----------------------------------------------------------------------------
\* The flat of a cell: level interior cells, closed, and the least such set.
LevelClosed(c, Q) ==
  \A x \in Q : \A n \in Around(x) : given[n] = NO_DEP /\ dem[n] = dem[c] => n \in Q

\* Flat(c) is that set.
LEMMA FlatIs ==
  ASSUME NEW c \in Interior
  PROVE  /\ c \in Flat(c) /\ LevelClosed(c, Flat(c))
         /\ \A x \in Flat(c) : x \in Cells /\ given[x] = NO_DEP /\ dem[x] = dem[c]
         /\ \A Q : c \in Q /\ LevelClosed(c, Q) => Flat(c) \subseteq Q
<1> DEFINE Wider(T) == T \cup {n \in UNION {Around(x) : x \in T} : given[n] = NO_DEP /\ dem[n] = dem[c]}
           Step == [T \in SUBSET Cells |-> Wider(T)]
           F == Flat(c)
<1>1. /\ N \in Nat /\ N = Width * Height
      /\ IsFiniteSet(Cells) /\ Cardinality(Cells) <= N
      /\ c \in Cells
  BY CellCount DEF N, Interior
<1>2. \A T \in SUBSET Cells : Wider(T) \in SUBSET Cells /\ Step[T] = Wider(T)
  BY AroundIsMutual
<1>3. PICK V, B : V = SUBSET Cells /\ B = {c}
  OBVIOUS
<1>4. /\ Step \in [V -> V] /\ B \in V
      /\ \A T \in V : T \subseteq Step[T] /\ T \subseteq Cells
  BY <1>1, <1>2, <1>3
<1>5. F = Reach(N, B, Step)
  BY <1>1, <1>3 DEF Flat, Spread
<1>6. /\ F \in V /\ B \subseteq F /\ Step[F] = F
      /\ \A Q : B \subseteq Q /\ (\A S \in V : S \subseteq Q => Step[S] \subseteq Q) => F \subseteq Q
  <2>1. PICK U, m, g, r : U = Cells /\ m = N /\ g = Step /\ r = F
    OBVIOUS
  <2>4. (\A T \in V : T \subseteq U) /\ \A T \in V : T \subseteq g[T]
    BY <1>4, <2>1
  <2> HIDE DEF Step, F
  <2>2. /\ m \in Nat /\ IsFiniteSet(U) /\ Cardinality(U) <= m
        /\ (\A T \in V : T \subseteq U) /\ B \in V /\ g \in [V -> V]
        /\ (\A T \in V : T \subseteq g[T]) /\ r = Reach(m, B, g)
    BY <1>1, <1>4, <1>5, <2>1, <2>4
  <2>3. /\ r \in V /\ B \subseteq r /\ g[r] = r
        /\ \A Q : B \subseteq Q /\ (\A S \in V : S \subseteq Q => g[S] \subseteq Q) => r \subseteq Q
    BY <2>2, ReachIsLeast
  <2> QED BY <2>1, <2>3
<1>7. LevelClosed(c, F)
  <2>1. Wider(F) = F
    BY <1>2, <1>3, <1>6
  <2> HIDE DEF F
  <2> QED BY <2>1 DEF LevelClosed
<1>8. ASSUME NEW Q, c \in Q, LevelClosed(c, Q) PROVE F \subseteq Q
  <2>1. ASSUME NEW S \in V, S \subseteq Q PROVE Step[S] \subseteq Q
    <3>1. Wider(S) \subseteq Q
      BY <1>8, <2>1 DEF LevelClosed
    <3> QED BY <1>2, <1>3, <3>1
  <2>2. B \subseteq Q
    BY <1>3, <1>8
  <2> HIDE DEF F, Step
  <2> QED BY <1>6, <2>1, <2>2
<1>9. \A x \in F : x \in Cells /\ given[x] = NO_DEP /\ dem[x] = dem[c]
  <2> DEFINE Q == {x \in Cells : given[x] = NO_DEP /\ dem[x] = dem[c]}
  <2>1. c \in Q
    BY DEF Interior
  <2>2. LevelClosed(c, Q)
    BY AroundIsMutual DEF LevelClosed
  <2> HIDE DEF Q, F
  <2>3. F \subseteq Q
    BY <1>8, <2>1, <2>2
  <2> QED BY <2>3 DEF Q
<1> HIDE DEF F
<1> QED BY <1>3, <1>6, <1>7, <1>8, <1>9 DEF F

\* A flat that is partly in a set touches what it lacks.
LEMMA FlatIsConnected ==
  ASSUME NEW c \in Interior, NEW A, \E x \in Flat(c) : x \in A, \E x \in Flat(c) : x \notin A
  PROVE  \E x \in Flat(c) : x \in A /\ \E n \in Around(x) : n \in Flat(c) /\ n \notin A
<1> SUFFICES ASSUME \A x \in Flat(c) : x \in A => \A n \in Around(x) : n \in Flat(c) => n \in A
             PROVE  FALSE
  OBVIOUS
<1>1. /\ c \in Flat(c) /\ LevelClosed(c, Flat(c))
      /\ \A x \in Flat(c) : x \in Cells /\ given[x] = NO_DEP /\ dem[x] = dem[c]
      /\ \A Q : c \in Q /\ LevelClosed(c, Q) => Flat(c) \subseteq Q
  BY FlatIs
<1>2. CASE c \in A
  <2> DEFINE Q == Flat(c) \cap A
  <2>1. c \in Q /\ LevelClosed(c, Q)
    BY <1>1, <1>2 DEF LevelClosed
  <2> HIDE DEF Q
  <2>2. Flat(c) \subseteq Q
    BY <1>1, <2>1
  <2> QED BY <2>2 DEF Q
<1>3. CASE c \notin A
  <2> DEFINE Q == Flat(c) \ A
  <2>1. LevelClosed(c, Q)
    <3> SUFFICES ASSUME NEW x \in Q, NEW n \in Around(x), given[n] = NO_DEP, dem[n] = dem[c]
                 PROVE  n \in Q
      BY DEF LevelClosed
    <3>1. x \in Flat(c) /\ x \in Cells /\ x \notin A /\ n \in Flat(c)
      BY <1>1 DEF LevelClosed
    <3>2. x \in Around(n)
      BY <3>1, AroundIsMutual
    <3> QED BY <3>1, <3>2
  <2>2. c \in Q
    BY <1>1, <1>3
  <2> HIDE DEF Q
  <2>3. Flat(c) \subseteq Q
    BY <1>1, <2>1, <2>2
  <2> QED BY <2>3 DEF Q
<1> QED BY <1>2, <1>3

-----------------------------------------------------------------------------
\* What happens to a pit flat: nothing until its elevation is pulled; then one label
\* comes in, from a level exterior cell beside it or from a pit in it, and until the
\* flat is full the cells it can go on from lie on top of the front, together
\* with cells of that label alone.
Sea(c) == {given[n] : n \in {m \in (UNION {Around(x) : x \in Flat(c)}) \ Flat(c) : dem[m] = dem[c]}}

Source(c, l) == l # NO_DEP /\ (l \in Sea(c) \/ (l \in DOMAIN pits /\ pits[l] \in Flat(c)))

Untold(c) == \A x \in Flat(c) : label[x] = NO_DEP

IsEdge(c, x) == label[x] # NO_DEP /\ \E n \in Around(x) : n \in Flat(c) /\ label[n] = NO_DEP

OnlyOnTop(c, l, m) ==
  /\ m \in 0 .. Len(queue.front)
  /\ \A i \in m + 1 .. Len(queue.front) : label[queue.front[i]] = l
  /\ \A x \in Flat(c) : IsEdge(c, x) => \E i \in m + 1 .. Len(queue.front) : queue.front[i] = x

Told(c, l) ==
  /\ Source(c, l)
  /\ \A x \in Flat(c) : label[x] \in {NO_DEP, l}
  /\ \E x \in Flat(c) : label[x] = l
  /\ (\E x \in Flat(c) : label[x] = NO_DEP) =>
       queue.last = dem[c] /\ \E m : OnlyOnTop(c, l, m)

Whole(c) == Untold(c) \/ \E l : Told(c, l)

PitFlats == {c \in Interior : IsPitFlat(Flat(c))}

FlatInv == stage \in {"flood", "done"} => \A c \in PitFlats : Whole(c)

\* The label that first reaches a pit flat is that of a pit in it or of a level
\* exterior cell beside it.
LEMMA FirstTouch ==
  ASSUME FloodInv, Visit, NEW c \in PitFlats, Untold(c),
         Focal \in Flat(c) \/ \E n \in Flat(c) : n \in Fresh,
         NEW l, l = FocalLabel
  PROVE  Source(c, l)' /\ dem[Focal] = dem[c]
<1>1. stage = "flood" /\ CallOK /\ LabelsOK /\ QueueOK /\ LabelsOK'
  BY VisitKeeps DEF FloodInv, Visit
<1>2. /\ Focal \in Cells /\ FocalLabel # NO_DEP /\ Fresh \subseteq Cells
      /\ \A n \in Fresh : dem[Focal] <= dem[n]
      /\ pits' = IF label[Focal] = NO_DEP THEN Append(pits, Focal) ELSE pits
      /\ dem' = dem /\ given' = given
  BY <1>1, VisitIs
<1>3. /\ c \in Interior /\ c \in Flat(c) /\ LevelClosed(c, Flat(c))
      /\ \A x \in Flat(c) : x \in Cells /\ given[x] = NO_DEP /\ dem[x] = dem[c]
      /\ \A x \in Flat(c) : \A n \in Around(x) : dem[n] >= dem[x]
  BY FlatIs DEF PitFlats, IsPitFlat
<1>5. PICK F : F = Flat(c)
  OBVIOUS
<1>6. Flat(c)' = F /\ Sea(c)' = Sea(c)
  BY <1>2, <1>5 DEF Flat, Spread, Sea
<1>7. CASE Focal \in Flat(c)
  <2>1. label[Focal] = NO_DEP /\ l = Len(pits) + 1 /\ pits' = Append(pits, Focal)
    BY <1>2, <1>7 DEF Untold, FocalLabel, NewLabel
  <2>2. pits \in Seq(Cells) /\ Len(pits) \in Nat
    BY <1>1 DEF LabelsOK
  <2>3. l \in DOMAIN pits' /\ pits'[l] \in F
    BY <1>2, <1>5, <1>7, <2>1, <2>2
  <2> QED BY <1>2, <1>3, <1>6, <1>7, <2>3 DEF Source
<1>8. CASE Focal \notin Flat(c)
  <2>1. PICK n \in Flat(c) : n \in Fresh
    BY <1>8
  <2>2. n \in Around(Focal) /\ Focal \in Around(n) /\ n \in Cells
    BY <1>2, <2>1, AroundIsMutual DEF Fresh
  <2>3. dem[Focal] = dem[c]
    <3>1. dem[Focal] <= dem[n] /\ dem[Focal] >= dem[n] /\ dem[n] = dem[c]
      BY <1>2, <1>3, <2>1, <2>2
    <3>2. dem[Focal] \in Nat /\ dem[n] \in Nat
      BY <1>1, <1>2, <2>2 DEF CallOK
    <3> QED BY <3>1, <3>2
  <2>4. given[Focal] # NO_DEP
    BY <1>3, <1>8, <2>1, <2>2, <2>3 DEF LevelClosed
  <2>5. l = given[Focal]
    BY <1>1, <1>2, <2>4 DEF LabelsOK, FocalLabel
  <2>6. l \in Sea(c)
    BY <1>8, <2>1, <2>2, <2>3, <2>5 DEF Sea
  <2> QED BY <1>2, <1>6, <2>3, <2>6 DEF Source
<1> QED BY <1>7, <1>8

\* A visit keeps a pit flat whole.
LEMMA VisitKeepsWhole ==
  ASSUME FloodInv, Visit, NEW c \in PitFlats, Whole(c)
  PROVE  Whole(c)'
<1>1. stage = "flood" /\ CallOK /\ LabelsOK /\ QueueOK
  BY DEF FloodInv, Visit
<1>2. /\ Focal \in Cells
      /\ FocalLabel # NO_DEP
      /\ Fresh \subseteq Cells /\ Focal \notin Fresh
      /\ \A e \in Queued(queue) : dem[Focal] <= e[1]
      /\ pits' = IF label[Focal] = NO_DEP THEN Append(pits, Focal) ELSE pits
      /\ label' = [x \in Cells |-> IF x = Focal \/ x \in Fresh THEN FocalLabel ELSE label[x]]
      /\ queue' \in Queues(dem) /\ queue'.last = dem[Focal]
      /\ OnTop(queue', Pop(queue), Fresh)
      /\ \A n \in Fresh : dem[n] = dem[Focal] => PutOnTop(queue', Pop(queue), n)
      /\ dem' = dem /\ given' = given
  BY <1>1, VisitIs
<1>3. /\ c \in Interior /\ c \in Flat(c)
      /\ \A x \in Flat(c) : x \in Cells /\ given[x] = NO_DEP /\ dem[x] = dem[c]
      /\ \A x \in Flat(c) : \A n \in Around(x) : dem[n] >= dem[x]
  BY FlatIs DEF PitFlats, IsPitFlat
<1>4. PICK f, t, F, h : f = Focal /\ t = FocalLabel /\ F = Flat(c) /\ h = dem[c]
  OBVIOUS
<1>5. Flat(c)' = F /\ Sea(c)' = Sea(c) /\ dem'[c] = h
  BY <1>2, <1>4 DEF Flat, Spread, Sea
<1>6. /\ \A x \in Cells : label'[x] = IF x = f \/ x \in Fresh THEN t ELSE label[x]
      /\ \A x \in Cells : label[x] # NO_DEP => label'[x] = label[x]
      /\ t # NO_DEP
  BY <1>2, <1>4 DEF Fresh, FocalLabel
<1>7. \A n \in Around(f) : label'[n] # NO_DEP
  <2> SUFFICES ASSUME NEW n \in Around(f) PROVE label'[n] # NO_DEP
    OBVIOUS
  <2>1. n \in Cells
    BY <1>2, <1>4, AroundIsMutual
  <2>2. CASE label[n] = NO_DEP
    <3>1. n \in Fresh
      BY <1>4, <2>2 DEF Fresh
    <3> QED BY <1>6, <2>1, <3>1
  <2> QED BY <1>6, <2>1, <2>2
<1>12. PICK k : k = Len(Pop(queue).front)
  OBVIOUS
<1>8. /\ k \in Nat /\ Len(queue'.front) \in Nat /\ Len(queue'.front) >= k
      /\ \A i \in 1 .. k : queue'.front[i] = Pop(queue).front[i]
      /\ \A i \in k + 1 .. Len(queue'.front) : queue'.front[i] \in Fresh
      /\ \A n \in Fresh : dem[n] = dem[f] => \E i \in k + 1 .. Len(queue'.front) : queue'.front[i] = n
  <2>1. ~ IsEmpty(queue) /\ dem \in [Cells -> Nat] /\ queue \in Queues(dem)
    BY <1>1 DEF Visit, CallOK, QueueOK
  <2>2. Pop(queue) \in Queues(dem)
    BY <2>1, PopHolds
  <2>3. Pop(queue).front \in Seq(Cells) /\ queue'.front \in Seq(Cells)
    BY <1>2, <2>1, <2>2, QueueParts
  <2>4. k \in Nat /\ Len(queue'.front) \in Nat
    BY <1>12, <2>3
  <2> QED BY <1>2, <1>4, <1>12, <2>4 DEF OnTop, PutOnTop
\* The edge of the flat after the visit is old edge or just queued.
<1>9. \A x \in F : IsEdge(c, x)' => x # f /\ (x \in Fresh \/ IsEdge(c, x))
  <2> SUFFICES ASSUME NEW x \in F, IsEdge(c, x)', x \notin Fresh PROVE x # f /\ IsEdge(c, x)
    BY <1>7 DEF IsEdge
  <2>1. PICK n \in Around(x) : n \in F /\ label'[n] = NO_DEP
    BY <1>5 DEF IsEdge
  <2>2. x # f
    BY <1>7, <2>1
  <2>3. x \in Cells /\ n \in Cells
    BY <1>3, <1>4, <2>1
  <2>4. label[n] = NO_DEP /\ label[x] # NO_DEP
    BY <1>6, <2>1, <2>2, <2>3 DEF IsEdge
  <2> QED BY <1>4, <2>1, <2>2, <2>4 DEF IsEdge
<1>10. CASE Untold(c)
  <2>1. CASE f \notin F /\ \A n \in F : n \notin Fresh
    <3>1. \A x \in F : label'[x] = NO_DEP
      BY <1>3, <1>4, <1>6, <1>10, <2>1 DEF Untold
    <3> QED BY <1>5, <3>1 DEF Whole, Untold
  <2>2. CASE f \in F \/ \E n \in F : n \in Fresh
    <3>1. Source(c, t)' /\ dem[f] = h
      <4>1. Focal \in Flat(c) \/ \E n \in Flat(c) : n \in Fresh
        BY <1>4, <2>2
      <4>2. t = FocalLabel
        BY <1>4
      <4>3. Source(c, t)' /\ dem[Focal] = dem[c]
        BY <1>10, <4>1, <4>2, FirstTouch
      <4> QED BY <1>4, <4>3
    <3>2. \A x \in F : label'[x] \in {NO_DEP, t}
      BY <1>3, <1>4, <1>6, <1>10 DEF Untold
    <3>3. \E x \in F : label'[x] = t
      BY <1>3, <1>4, <1>6, <2>2
    <3>4. OnlyOnTop(c, t, k)'
      <4>1. k \in 0 .. Len(queue'.front)
        BY <1>8
      <4>2. \A i \in k + 1 .. Len(queue'.front) : label'[queue'.front[i]] = t
        BY <1>2, <1>6, <1>8
      <4>3. \A x \in F : ~ IsEdge(c, x)
        BY <1>4, <1>10 DEF Untold, IsEdge
      <4>4. \A x \in F : IsEdge(c, x)' => \E i \in k + 1 .. Len(queue'.front) : queue'.front[i] = x
        BY <1>3, <1>4, <1>8, <1>9, <3>1, <4>3
      <4> QED BY <1>5, <4>1, <4>2, <4>4 DEF OnlyOnTop
    <3>5. Told(c, t)'
      BY <1>2, <1>4, <1>5, <3>1, <3>2, <3>3, <3>4 DEF Told
    <3> QED BY <3>5 DEF Whole
  <2> QED BY <2>1, <2>2
<1>11. ASSUME NEW l, Told(c, l) PROVE Whole(c)'
  <2>1. Source(c, l)'
    <3>1. pits \in Seq(Cells) /\ \A i \in DOMAIN pits : i \in DOMAIN pits' /\ pits'[i] = pits[i]
      BY <1>1, <1>2 DEF LabelsOK
    <3> QED BY <1>4, <1>5, <1>11, <3>1 DEF Told, Source
  <2>2. PICK y \in F : label[y] = l /\ l # NO_DEP
    BY <1>4, <1>11 DEF Told, Source
  <2>3. label'[y] = l
    BY <1>3, <1>4, <1>6, <2>2
  <2>4. CASE \A x \in F : label[x] # NO_DEP
    <3>1. \A x \in F : label[x] = l
      BY <1>4, <1>11, <2>4 DEF Told
    <3>2. \A x \in F : label'[x] = l
      BY <1>3, <1>4, <1>6, <2>2, <3>1
    <3>3. Told(c, l)'
      BY <1>5, <2>1, <2>2, <3>2 DEF Told
    <3> QED BY <3>3 DEF Whole
  <2>5. CASE \E x \in F : label[x] = NO_DEP
    <3>1. PICK z \in F : label[z] = NO_DEP
      BY <2>5
    <3>2. queue.last = h /\ \E m : OnlyOnTop(c, l, m)
      BY <1>4, <1>11, <2>5 DEF Told
    <3>3. PICK m : OnlyOnTop(c, l, m)
      BY <3>2
    <3>4. PICK x0 \in F : IsEdge(c, x0)
      <4> DEFINE A == {x \in Cells : label[x] # NO_DEP}
      <4>1. (\E x \in Flat(c) : x \in A) /\ (\E x \in Flat(c) : x \notin A)
        BY <1>3, <1>4, <2>2, <3>1
      <4>2. \E x \in Flat(c) : x \in A /\ \E n \in Around(x) : n \in Flat(c) /\ n \notin A
        <5> HIDE DEF A
        <5> QED BY <1>3, <4>1, FlatIsConnected
      <4> QED BY <1>3, <1>4, <4>2 DEF IsEdge
    <3>5. /\ m \in 0 .. Len(queue.front)
          /\ \A i \in m + 1 .. Len(queue.front) : label[queue.front[i]] = l
          /\ \A x \in F : IsEdge(c, x) => \E i \in m + 1 .. Len(queue.front) : queue.front[i] = x
      BY <1>4, <3>3 DEF OnlyOnTop
    <3>6. queue.front \in Seq(Cells) /\ queue.front # <<>> /\ Len(queue.front) > m
          /\ \A i \in DOMAIN queue.front : dem[queue.front[i]] = queue.last
      <4>1. PICK i \in m + 1 .. Len(queue.front) : queue.front[i] = x0
        BY <3>4, <3>5
      <4>2. queue.front \in Seq(Cells) /\ \A j \in DOMAIN queue.front : dem[queue.front[j]] = queue.last
        BY <1>1, QueueParts DEF QueueOK, CallOK
      <4>3. Len(queue.front) \in Nat
        BY <4>2
      <4> QED BY <3>5, <4>1, <4>2, <4>3
    <3>7. /\ Len(queue.front) \in Nat \ {0} /\ f = queue.front[Len(queue.front)]
          /\ k = Len(queue.front) - 1
          /\ \A i \in 1 .. k : Pop(queue).front[i] = queue.front[i]
      BY <1>1, <1>4, <1>12, <3>6, PopFront DEF QueueOK, CallOK, Focal
    <3>8. label[f] = l /\ dem[f] = h /\ t = l
      <4>1. Len(queue.front) \in m + 1 .. Len(queue.front) /\ Len(queue.front) \in DOMAIN queue.front
        BY <3>5, <3>6, <3>7
      <4>2. label[f] = l /\ dem[f] = h
        BY <3>2, <3>5, <3>6, <3>7, <4>1
      <4> QED BY <1>4, <2>2, <4>2 DEF FocalLabel
    <3>9. \A x \in F : label'[x] \in {NO_DEP, l}
      BY <1>3, <1>4, <1>6, <1>11, <3>8 DEF Told
    <3>10. OnlyOnTop(c, l, m)'
      <4>1. m \in 0 .. Len(queue'.front) /\ m <= k
        BY <1>8, <3>5, <3>6, <3>7
      <4>2. ASSUME NEW i \in m + 1 .. Len(queue'.front) PROVE label'[queue'.front[i]] = l
        <5>1. CASE i <= k
          <6>1. i \in 1 .. k /\ i \in m + 1 .. Len(queue.front) /\ i \in DOMAIN queue.front
            BY <1>8, <3>5, <3>6, <3>7, <5>1
          <6>2. queue'.front[i] = queue.front[i] /\ label[queue.front[i]] = l /\ queue.front[i] \in Cells
            BY <1>8, <3>5, <3>6, <3>7, <6>1
          <6> QED BY <1>6, <2>2, <6>2
        <5>2. CASE i > k
          <6>1. i \in k + 1 .. Len(queue'.front)
            BY <1>8, <3>5, <5>2
          <6>2. queue'.front[i] \in Fresh
            BY <1>8, <6>1
          <6> QED BY <1>2, <1>6, <3>8, <6>2
        <5> QED BY <1>8, <3>5, <5>1, <5>2
      <4>3. ASSUME NEW x \in F, IsEdge(c, x)'
            PROVE  \E i \in m + 1 .. Len(queue'.front) : queue'.front[i] = x
        <5>1. CASE x \in Fresh
          <6>1. dem[x] = dem[f]
            BY <1>3, <1>4, <3>8
          <6>2. PICK i \in k + 1 .. Len(queue'.front) : queue'.front[i] = x
            BY <1>8, <5>1, <6>1
          <6>3. i \in m + 1 .. Len(queue'.front)
            BY <1>8, <3>5, <4>1
          <6> QED BY <6>2, <6>3
        <5>2. CASE IsEdge(c, x) /\ x # f
          <6>1. PICK i \in m + 1 .. Len(queue.front) : queue.front[i] = x
            BY <3>5, <5>2
          <6>2. i # Len(queue.front)
            BY <3>7, <5>2, <6>1
          <6>3. i \in 1 .. k /\ i \in m + 1 .. Len(queue'.front)
            BY <1>8, <3>5, <3>7, <6>2
          <6> QED BY <1>8, <3>7, <6>1, <6>3
        <5> QED BY <1>9, <4>3, <5>1, <5>2
      <4> QED BY <1>5, <4>1, <4>2, <4>3 DEF OnlyOnTop
    <3>11. queue'.last = dem'[c]
      BY <1>2, <1>4, <1>5, <3>8
    <3>12. Told(c, l)'
      BY <1>5, <2>1, <2>3, <3>9, <3>10, <3>11 DEF Told
    <3> QED BY <3>12 DEF Whole
  <2> QED BY <2>4, <2>5
<1> QED BY <1>10, <1>11 DEF Whole

-----------------------------------------------------------------------------
\* Every pit flat is whole at every step.
LEMMA FlatInvHolds == Spec => []FlatInv
<1>1. Init => FlatInv
  BY DEF Init, FlatInv
<1>2. FloodInv /\ FlatInv /\ [Next]_vars => FlatInv'
  <2> SUFFICES ASSUME FloodInv, FlatInv, [Next]_vars, stage' \in {"flood", "done"},
                      NEW c \in PitFlats'
               PROVE  Whole(c)'
    BY DEF FlatInv
  <2>1. dem' = dem /\ given' = given
    BY DEF Next, Refuse, Seed, Visit, Finish, vars
  <2>2. c \in PitFlats /\ c \in Interior
    BY <2>1 DEF PitFlats, Interior, IsPitFlat, Flat, Spread
  <2>3. CASE Seed
    <3>1. stage = "seed" /\ label = given /\ label' = label
      BY <2>3 DEF Seed, FloodInv, Untouched
    <3>2. \A x \in Flat(c) : given[x] = NO_DEP
      BY <2>2, FlatIs
    <3>3. Flat(c)' = Flat(c)
      BY <2>1 DEF Flat, Spread
    <3> QED BY <3>1, <3>2, <3>3 DEF Whole, Untold
  <2>4. CASE Visit
    <3>1. Whole(c)
      BY <2>2, <2>4 DEF Visit, FlatInv
    <3> QED BY <2>2, <2>4, <3>1, VisitKeepsWhole
  <2>5. CASE Refuse
    BY <2>5 DEF Refuse
  <2>6. CASE Finish \/ UNCHANGED vars
    <3>1. /\ stage \in {"flood", "done"}
          /\ label' = label /\ pits' = pits /\ queue' = queue
      BY <2>6 DEF Finish, vars
    <3>2. Whole(c)
      BY <2>2, <3>1 DEF FlatInv
    <3>3. PICK F : F = Flat(c)
      OBVIOUS
    <3>4. Flat(c)' = F /\ Sea(c)' = Sea(c)
      BY <2>1, <3>3 DEF Flat, Spread, Sea
    <3>5. CASE Untold(c)
      BY <3>1, <3>3, <3>4, <3>5 DEF Untold, Whole
    <3>6. ASSUME NEW l, Told(c, l) PROVE Told(c, l)'
      BY <2>1, <3>1, <3>3, <3>4, <3>6 DEF Told, Source, OnlyOnTop, IsEdge
    <3> QED BY <3>2, <3>5, <3>6 DEF Whole
  <2> QED BY <2>3, <2>4, <2>5, <2>6 DEF Next
<1> QED BY <1>1, <1>2, FloodInvHolds, PTL DEF Spec

\* A flat of interior cells with no lower neighbour ends with one label: that of
\* a level exterior cell beside it or of a depression whose pit lies in it.
THEOREM PitFlatsGetOneLabel == Spec => []PitFlatsAreWhole
<1>1. FloodInv /\ FlatInv => PitFlatsAreWhole
  <2> SUFFICES ASSUME FloodInv, FlatInv, stage = "done", NEW c \in Interior, IsPitFlat(Flat(c))
               PROVE  /\ \A x \in Flat(c) : label[x] = label[c]
                      /\ \/ label[c] \in Sea(c)
                         \/ label[c] \in DOMAIN pits /\ pits[label[c]] \in Flat(c)
    BY DEF PitFlatsAreWhole, Sea
  <2>1. \A x \in Cells : label[x] # NO_DEP
    BY SomethingLower DEF FloodInv, QueueOK, CellQueued
  <2>2. c \in Flat(c) /\ Flat(c) \subseteq Cells
    BY FlatIs
  <2>3. Whole(c)
    BY DEF FlatInv, PitFlats
  <2>4. PICK l : Told(c, l)
    BY <2>1, <2>2, <2>3 DEF Whole, Untold
  <2>5. \A x \in Flat(c) : label[x] = l
    BY <2>1, <2>2, <2>4 DEF Told
  <2> QED BY <2>2, <2>4, <2>5 DEF Told, Source
<1> QED BY <1>1, FloodInvHolds, FlatInvHolds, PTL

-----------------------------------------------------------------------------
(***************************************************************************)
(* The flood as a function.  Every visit is the round that the function    *)
(* makes of the state, so behind every state lies a history of rounds.     *)
(* Every round leaves less to do: a cell is off the queue, and what has    *)
(* come onto it is labelled from now on.  So the rounds of the fold are    *)
(* enough, and once the queue is empty those left change nothing.          *)
(***************************************************************************)
FloodState == [label |-> label, flow |-> flow, pits |-> pits, queue |-> queue]
FloodStart ==
  [label |-> given, flow |-> [c \in Cells |-> NO_FLOW], pits |-> <<>>,
   queue |-> PushAll(EmptyQueue(-1), dem, RowMajor, Seeds(Cells, dem, given))]

IsPast(h, k) ==
  /\ h[0] = FloodStart
  /\ \A i \in 1 .. k : ~ IsEmpty(h[i - 1].queue) /\ h[i] = VisitTop(Cells, dem, h[i - 1])

Unlabelled == {c \in Cells : label[c] = NO_DEP}
ToDo == QueueSize(queue) + Cardinality(Unlabelled)

HasPast == \E k \in Nat : \E h : IsPast(h, k) /\ h[k] = FloodState /\ k + ToDo <= 2 * N

PastInv == stage \in {"flood", "done"} => HasPast

\* What is left to do is a number.
LEMMA ToDoType ==
  ASSUME CallOK, QueueOK
  PROVE  /\ IsFiniteSet(Unlabelled) /\ Cardinality(Unlabelled) \in Nat
         /\ QueueSize(queue) \in Nat /\ ToDo \in Nat
<1>1. IsFiniteSet(Unlabelled) /\ Cardinality(Unlabelled) \in Nat
  BY CellCount, FS_Subset, FS_CardinalityType DEF Unlabelled
<1>2. QueueSize(queue) \in Nat
  BY SizeType DEF CallOK, QueueOK
<1> QED BY <1>1, <1>2 DEF ToDo

\* The flood starts as the function does.
LEMMA PastSeed == FloodInv /\ Seed => HasPast'
<1> SUFFICES ASSUME FloodInv, Seed PROVE HasPast'
  OBVIOUS
<1> DEFINE T == OceanSeeds \cup LandSeeds
<1>1. /\ CallOK /\ Untouched
      /\ UNCHANGED <<dem, given, permit, label, flow, pits, db>>
      /\ \A c \in Cells : label[c] \in {NO_DEP} \cup Exterior
      /\ queue' = PushAll(queue, dem, RowMajor, T) /\ stage' = "flood"
  BY DEF FloodInv, Seed, Allowed
<1>2. /\ label = given /\ flow = [c \in Cells |-> NO_FLOW] /\ pits = <<>> /\ queue = EmptyQueue(-1)
  BY <1>1 DEF Untouched
<1>3. Seeds(Cells, dem, given) = T
  <2>1. \A c \in Cells : Around(c) \cap Cells = Around(c)
    BY AroundIsMutual
  <2>2. NO_DEP \notin Exterior
    BY LabelAssumption, CellCount DEF Exterior, OCEAN
  <2>3. \A c \in Cells : c \in T <=> c \in Seeds(Cells, dem, given)
    <3> TAKE c \in Cells
    <3>1. CASE label[c] = NO_DEP
      BY <1>2, <2>1, <2>2, <3>1 DEF Seeds, OceanSeeds, LandSeeds
    <3>2. CASE label[c] # NO_DEP
      BY <1>1, <1>2, <2>1, <3>2 DEF Seeds, OceanSeeds, LandSeeds
    <3> QED BY <3>1, <3>2
  <2>4. T \subseteq Cells /\ Seeds(Cells, dem, given) \subseteq Cells
    BY DEF Seeds, OceanSeeds, LandSeeds
  <2> HIDE DEF T
  <2> QED BY <2>3, <2>4
<1> HIDE DEF T
<1>4. FloodState' = FloodStart /\ FloodStart' = FloodStart
  BY <1>1, <1>2, <1>3 DEF FloodState, FloodStart
<1>6. QueueSize(queue') <= N /\ QueueSize(queue') \in Nat
  <2>1. queue \in Queues(dem) /\ QueueSize(queue) = 0
    <3>1. queue = [last |-> -1, front |-> <<>>, rest |-> EmptyBag]
      BY <1>2 DEF EmptyQueue
    <3>2. DOMAIN EmptyBag = {} /\ EmptyBag \in [{} -> Nat \ {0}]
      BY DEF EmptyBag, SetToBag
    <3>3. queue \in Queues(dem)
      <4>1. <<>> \in Seq(Cells) /\ -1 \in Int /\ DOMAIN <<>> = {} /\ dem \in [Cells -> Nat]
        BY <1>1 DEF CallOK
      <4> QED BY <3>1, <3>2, <4>1, QueueMade
    <3>4. CopiesOf(EmptyBag) = {}
      BY <3>2 DEF CopiesOf
    <3>5. Len(queue.front) = 0 /\ CopiesOf(queue.rest) = {} /\ Cardinality({}) = 0
      BY <3>1, <3>4, FS_EmptySet
    <3> QED BY <3>3, <3>5 DEF QueueSize
  <2>2. dem \in [Cells -> Nat] /\ RowMajor \in Seq(Cells) /\ Distinct(RowMajor)
    BY <1>1, RowMajorIs DEF CallOK
  <2> DEFINE S == ToSet(RowMajor) \cap T
  <2>3. QueueSize(queue') = QueueSize(queue) + Cardinality(S)
    BY <1>1, <2>1, <2>2, PushAllSize
  <2>4. Cardinality(S) <= N /\ Cardinality(S) \in Nat
    BY RowMajorIs, CellCount, FS_Subset, FS_CardinalityType
  <2> QED BY <2>1, <2>3, <2>4
<1>7. Cardinality(Unlabelled') <= N /\ Cardinality(Unlabelled') \in Nat
  <2>1. Unlabelled' \subseteq Cells
    BY DEF Unlabelled
  <2> QED BY <2>1, CellCount, FS_Subset, FS_CardinalityType
<1>8. 0 + ToDo' <= 2 * N
  BY <1>6, <1>7, CellCount DEF ToDo
<1>9. PICK s : s = FloodStart
  OBVIOUS
<1>10. PICK h : h = [i \in {0} |-> s]
  OBVIOUS
<1>11. h[0] = s /\ s = FloodState' /\ s = FloodStart'
  BY <1>4, <1>9, <1>10
<1>12. IsPast(h, 0)'
  BY <1>11 DEF IsPast
<1>13. \E g : IsPast(g, 0)' /\ g[0] = FloodState' /\ 0 + ToDo' <= 2 * N
  BY <1>8, <1>11, <1>12
<1>14. \E k \in Nat : \E g : IsPast(g, k)' /\ g[k] = FloodState' /\ k + ToDo' <= 2 * N
  <2> WITNESS 0 \in Nat
  <2> QED BY <1>13
<1> QED BY <1>14 DEF HasPast

\* A visit is a round of the function, and leaves less to do.
LEMMA VisitIsTop ==
  ASSUME FloodInv, Drainage, Visit
  PROVE  /\ ~ IsEmpty(FloodState.queue) /\ FloodState' = VisitTop(Cells, dem, FloodState)
         /\ ToDo \in Nat /\ ToDo' \in Nat /\ ToDo' < ToDo
<1>1. stage = "flood" /\ CallOK /\ LabelsOK /\ QueueOK
  BY DEF FloodInv, Visit
<1>2. /\ Focal \in Cells
      /\ pits' = IF label[Focal] = NO_DEP THEN Append(pits, Focal) ELSE pits
      /\ label' = [x \in Cells |-> IF x = Focal \/ x \in Fresh THEN FocalLabel ELSE label[x]]
      /\ flow' = [x \in Cells |-> IF x \in Fresh THEN Focal ELSE flow[x]]
      /\ Fresh \subseteq Cells /\ FocalLabel # NO_DEP
      /\ UNCHANGED dem
  BY <1>1, VisitIs
<1>3. ~ IsEmpty(queue) /\ queue' = PushAll(Pop(queue), dem, Neighbours[Focal], Fresh)
  BY DEF Visit, SpreadLabel, Focal, Fresh
<1>4. Around(Focal) \cap Cells = Around(Focal)
  BY <1>2, AroundIsMutual
<1>5. DOMAIN label = Cells /\ DOMAIN flow = Cells
  BY <1>1 DEF LabelsOK, Drainage
<1>6. FloodState' = VisitTop(Cells, dem, FloodState)
  <2> DEFINE s == FloodState
  <2>1. s.label = label /\ s.flow = flow /\ s.pits = pits /\ s.queue = queue
    BY DEF FloodState
  <2>2. {n \in Around(Focal) \cap Cells : label[n] = NO_DEP} = Fresh
    BY <1>4 DEF Fresh
  <2>3. FocalLabel = IF label[Focal] = NO_DEP THEN Len(pits) + 1 ELSE label[Focal]
    BY DEF FocalLabel, NewLabel
  <2>4. TopValue(queue) = Focal
    BY DEF Focal
  <2> HIDE DEF s
  <2>5. VisitTop(Cells, dem, s)
          = [label |-> [x \in Cells |-> IF x = Focal \/ x \in Fresh THEN FocalLabel ELSE label[x]],
             flow |-> [x \in Cells |-> IF x \in Fresh THEN Focal ELSE flow[x]],
             pits |-> IF label[Focal] = NO_DEP THEN Append(pits, Focal) ELSE pits,
             queue |-> PushAll(Pop(queue), dem, Neighbours[Focal], Fresh)]
    BY <1>5, <2>1, <2>2, <2>3, <2>4 DEF VisitTop
  <2> QED BY <1>2, <1>3, <2>5 DEF FloodState, s
<1>7. /\ IsFiniteSet(Fresh) /\ QueueSize(queue') = QueueSize(queue) - 1 + Cardinality(Fresh)
  <2>1. dem \in [Cells -> Nat] /\ queue \in Queues(dem)
    BY <1>1 DEF CallOK, QueueOK
  <2>2. Pop(queue) \in Queues(dem) /\ QueueSize(Pop(queue)) = QueueSize(queue) - 1
    BY <1>3, <2>1, PopHolds, PopSize
  <2>3. Neighbours[Focal] \in Seq(Cells) /\ Distinct(Neighbours[Focal])
    BY <1>2, NeighboursAre
  <2>4. ToSet(Neighbours[Focal]) \cap Fresh = Fresh
    BY DEF Fresh, Around
  <2> DEFINE q == Pop(queue)
             s == Neighbours[Focal]
  <2>5. q \in Queues(dem) /\ s \in Seq(Cells) /\ Distinct(s) /\ Fresh = ToSet(s) \cap Fresh
    BY <2>2, <2>3, <2>4
  <2>6. queue' = PushAll(q, dem, s, Fresh) /\ QueueSize(q) = QueueSize(queue) - 1
    BY <1>3, <2>2
  <2> HIDE DEF q, s
  <2>7. QueueSize(queue') = QueueSize(q) + Cardinality(Fresh)
    BY <2>1, <2>5, <2>6, PushAllSize
  <2>8. IsFiniteSet(Fresh)
    BY <1>2, CellCount, FS_Subset
  <2> QED BY <2>6, <2>7, <2>8
<1>8. /\ IsFiniteSet(Unlabelled) /\ Cardinality(Unlabelled) \in Nat
      /\ QueueSize(queue) \in Nat /\ ToDo \in Nat
  BY <1>1, ToDoType
<1>9. Unlabelled' \subseteq Unlabelled \ Fresh /\ Fresh \subseteq Unlabelled
  BY <1>2 DEF Unlabelled, Fresh
<1>10. Cardinality(Unlabelled') <= Cardinality(Unlabelled) - Cardinality(Fresh)
       /\ Cardinality(Unlabelled') \in Nat /\ Cardinality(Fresh) \in Nat
  <2> DEFINE U == Unlabelled
             V == Unlabelled'
  <2>1. IsFiniteSet(U) /\ V \subseteq U \ Fresh /\ Fresh \subseteq U
    BY <1>8, <1>9
  <2> HIDE DEF U, V
  <2>2. IsFiniteSet(U \ Fresh) /\ IsFiniteSet(V)
    BY <2>1, FS_Subset
  <2>3. (U \ Fresh) \cup Fresh = U /\ (U \ Fresh) \cap Fresh = {}
    BY <2>1
  <2>4. Cardinality(U) = Cardinality(U \ Fresh) + Cardinality(Fresh) - Cardinality({})
    BY <1>7, <2>2, <2>3, FS_Union
  <2>5. /\ Cardinality({}) = 0 /\ Cardinality(U \ Fresh) \in Nat /\ Cardinality(Fresh) \in Nat
        /\ Cardinality(V) \in Nat /\ Cardinality(V) <= Cardinality(U \ Fresh)
    BY <1>7, <2>1, <2>2, FS_EmptySet, FS_CardinalityType, FS_Subset
  <2>6. Cardinality(V) <= Cardinality(U) - Cardinality(Fresh)
    BY <2>4, <2>5
  <2> QED BY <2>5, <2>6 DEF U, V
<1>11. QueueSize(queue') \in Nat
  <2>1. (CallOK /\ QueueOK)'
    <3>1. FloodInv'
      BY VisitKeeps
    <3>2. stage' = "flood"
      BY <1>1 DEF Visit
    <3> QED BY <3>1, <3>2 DEF FloodInv
  <2>2. dem' \in [Cells -> Nat] /\ queue' \in Queues(dem')
    BY <2>1 DEF CallOK, QueueOK
  <2> QED BY <2>2, SizeType
<1>12. ToDo' = QueueSize(queue') + Cardinality(Unlabelled')
  BY DEF ToDo
<1>13. ToDo' \in Nat /\ ToDo' < ToDo
  <2> DEFINE a == QueueSize(queue)
             b == QueueSize(queue')
             u == Cardinality(Unlabelled)
             v == Cardinality(Unlabelled')
             f == Cardinality(Fresh)
  <2>1. /\ a \in Nat /\ b \in Nat /\ u \in Nat /\ v \in Nat /\ f \in Nat
        /\ b = a - 1 + f /\ v <= u - f /\ ToDo = a + u /\ ToDo' = b + v
    BY <1>7, <1>8, <1>10, <1>11, <1>12 DEF ToDo
  <2> HIDE DEF a, b, u, v, f
  <2> QED BY <2>1
<1> QED BY <1>3, <1>6, <1>8, <1>13 DEF FloodState

\* Every visit adds a round to the history.
LEMMA PastNext ==
  FloodInv /\ DrainInv /\ PastInv /\ [Next]_vars => PastInv'
<1> SUFFICES ASSUME FloodInv, DrainInv, PastInv, [Next]_vars, (stage \in {"flood", "done"})'
             PROVE  HasPast'
  BY DEF PastInv
<1>1. CASE Seed
  BY <1>1, PastSeed
<1>2. CASE Visit
  <2>1. stage = "flood" /\ Drainage /\ HasPast
    BY <1>2 DEF Visit, DrainInv, PastInv
  <2>2. PICK k \in Nat : \E h : IsPast(h, k) /\ h[k] = FloodState /\ k + ToDo <= 2 * N
    BY <2>1 DEF HasPast
  <2>3. PICK h : IsPast(h, k) /\ h[k] = FloodState /\ k + ToDo <= 2 * N
    BY <2>2
  <2>4. /\ ~ IsEmpty(FloodState.queue) /\ FloodState' = VisitTop(Cells, dem, FloodState)
        /\ ToDo \in Nat /\ ToDo' \in Nat /\ ToDo' < ToDo
    BY <1>2, <2>1, VisitIsTop
  <2>5. dem' = dem /\ FloodStart' = FloodStart
    BY <1>2 DEF Visit, FloodStart
  <2>6. PICK s : s = FloodState'
    OBVIOUS
  <2> DEFINE g == [i \in 0 .. k + 1 |-> IF i = k + 1 THEN s ELSE h[i]]
  <2>7. g[k + 1] = s /\ g[0] = h[0] /\ \A i \in 0 .. k : g[i] = h[i]
    BY <2>2
  <2> HIDE DEF g
  <2>8. ASSUME NEW i \in 1 .. k + 1
        PROVE  ~ IsEmpty(g[i - 1].queue) /\ g[i] = VisitTop(Cells, dem, g[i - 1])
    <3>1. i - 1 \in 0 .. k
      BY <2>2
    <3>2. CASE i = k + 1
      <4>1. g[i - 1] = FloodState /\ g[i] = s
        BY <2>2, <2>3, <2>7, <3>1, <3>2
      <4> QED BY <2>4, <2>6, <4>1
    <3>3. CASE i # k + 1
      <4>1. i \in 1 .. k /\ i \in 0 .. k
        BY <2>2, <3>3
      <4> QED BY <2>3, <2>7, <3>1, <4>1 DEF IsPast
    <3> QED BY <3>2, <3>3
  <2>9. IsPast(g, k + 1)'
    BY <2>3, <2>5, <2>7, <2>8 DEF IsPast
  <2>10. (k + 1) + ToDo' <= 2 * N
    <3> DEFINE a == ToDo
               b == ToDo'
    <3>1. a \in Nat /\ b \in Nat /\ b < a /\ k \in Nat /\ N \in Nat /\ k + a <= 2 * N
      BY <2>2, <2>3, <2>4, CellCount
    <3>2. ToDo' = b
      OBVIOUS
    <3> HIDE DEF a, b
    <3>3. (k + 1) + b <= 2 * N
      BY <3>1
    <3> QED BY <3>2, <3>3
  <2>11. k + 1 \in Nat
    BY <2>2
  <2> QED BY <2>6, <2>7, <2>9, <2>10, <2>11 DEF HasPast
<1>3. CASE Finish \/ UNCHANGED vars
  <2>1. /\ UNCHANGED <<dem, given, label, flow, pits, queue>>
        /\ stage \in {"flood", "done"}
    BY <1>3 DEF Finish, vars
  <2>2. HasPast
    BY <2>1 DEF PastInv
  <2>3. FloodState' = FloodState /\ FloodStart' = FloodStart /\ ToDo' = ToDo
    BY <2>1 DEF FloodState, FloodStart, ToDo, Unlabelled
  <2>4. PICK k \in Nat : \E h : IsPast(h, k) /\ h[k] = FloodState /\ k + ToDo <= 2 * N
    BY <2>2 DEF HasPast
  <2>5. PICK h : IsPast(h, k) /\ h[k] = FloodState /\ k + ToDo <= 2 * N
    BY <2>4
  <2>6. IsPast(h, k)'
    BY <2>1, <2>3, <2>5 DEF IsPast
  <2> QED BY <2>3, <2>5, <2>6 DEF HasPast
<1>4. CASE Refuse
  BY <1>4 DEF Refuse
<1> QED BY <1>1, <1>2, <1>3, <1>4 DEF Next

\* When the queue is empty, the history and idle rounds are the run of the fold.
LEMMA PastIsFold ==
  ASSUME FloodInv, HasPast, stage = "done"
  PROVE  [label |-> label, flow |-> flow, pits |-> pits] = Flooded(Cells, dem, given)
<1>1. PICK k \in Nat : \E h : IsPast(h, k) /\ h[k] = FloodState /\ k + ToDo <= 2 * N
  BY DEF HasPast
<1>2. PICK h : IsPast(h, k) /\ h[k] = FloodState /\ k + ToDo <= 2 * N
  BY <1>1
<1>3. CallOK /\ QueueOK
  BY DEF FloodInv
<1>4. IsEmpty(queue)
  <2>1. dem \in [Cells -> Nat] /\ queue \in Queues(dem) /\ Queued(queue) = {}
    BY <1>3 DEF CallOK, QueueOK
  <2>2. /\ queue.front \in Seq(Cells) /\ queue.rest \in [DOMAIN queue.rest -> Nat \ {0}]
    BY <2>1, QueueParts
  <2>3. DOMAIN queue.front = {} /\ DOMAIN queue.rest = {}
    BY <2>1 DEF Queued
  <2>4. queue.front = <<>>
    BY <2>2, <2>3
  <2>5. queue.rest = EmptyBag
    BY <2>2, <2>3 DEF EmptyBag, SetToBag
  <2> QED BY <2>4, <2>5 DEF IsEmpty
<1> DEFINE n == 2 * Cardinality(Cells)
           Round(x) == IF IsEmpty(x.queue) THEN x ELSE VisitTop(Cells, dem, x)
           s == [i \in 1 .. n |-> i]
           Is(f) == f = [S \in SUBSET DOMAIN s |->
                           IF S = {} THEN FloodStart ELSE LET x == Max(S) IN Round(f[S \ {x}])]
           it == CHOOSE f : Is(f)
           g == [i \in 0 .. n |-> IF i <= k THEN h[i] ELSE FloodState]
           F == [S \in SUBSET (1 .. n) |-> g[Cardinality(S)]]
<1>5. n \in Nat /\ n = 2 * N /\ k <= n /\ n \in 0 .. n
  <2>1. ToDo \in Nat
    BY <1>3, ToDoType
  <2> QED BY <1>2, <2>1, CellCount
<1>6. g[0] = FloodStart /\ g[n] = FloodState
  BY <1>1, <1>2, <1>5 DEF IsPast
<1>7. ASSUME NEW i \in 1 .. n PROVE g[i] = Round(g[i - 1])
  <2>1. i - 1 \in 0 .. n /\ i \in 0 .. n
    BY <1>5
  <2>2. CASE i <= k
    <3>1. i \in 1 .. k /\ i - 1 <= k
      BY <1>1, <2>2
    <3>2. g[i] = h[i] /\ g[i - 1] = h[i - 1]
      BY <2>1, <2>2, <3>1
    <3> HIDE DEF g, n
    <3> QED BY <1>2, <3>1, <3>2 DEF IsPast
  <2>3. CASE i > k
    <3>1. g[i] = FloodState
      BY <1>1, <2>1, <2>3
    <3>2. g[i - 1] = FloodState
      <4>1. CASE i - 1 <= k
        <5>1. i - 1 = k
          BY <1>1, <1>5, <2>3, <4>1
        <5> QED BY <1>2, <2>1, <5>1
      <4>2. CASE ~ (i - 1 <= k)
        BY <2>1, <4>2
      <4> QED BY <4>1, <4>2
    <3>3. FloodState.queue = queue
      BY DEF FloodState
    <3> HIDE DEF g, n
    <3> QED BY <1>4, <3>1, <3>2, <3>3
  <2> QED BY <1>1, <1>5, <2>2, <2>3
<1>8. DOMAIN s = 1 .. n
  OBVIOUS
<1> HIDE DEF n, g, Round
<1>9. ASSUME NEW S \in SUBSET (1 .. n), S # {}
      PROVE  /\ Max(S) \in S
             /\ Cardinality(S) \in 1 .. n /\ Cardinality(S \ {Max(S)}) = Cardinality(S) - 1
  <2>1. S \subseteq 0 .. n /\ IsFiniteSet(S) /\ IsFiniteSet(1 .. n) /\ Cardinality(1 .. n) = n
    <3>0. 1 \in Int /\ n \in Int
      BY <1>5
    <3>1. IsFiniteSet(1 .. n) /\ Cardinality(1 .. n) = IF 1 > n THEN 0 ELSE n - 1 + 1
      BY <3>0, FS_Interval
    <3>2. IsFiniteSet(S)
      BY <3>1, FS_Subset
    <3> QED BY <1>5, <3>1, <3>2
  <2>2. Max(S) \in S
    BY <1>5, <1>9, <2>1, MaxOfBounded
  <2>3. Cardinality(S) <= n /\ Cardinality(S) \in Nat /\ Cardinality(S) > 0
    <3>1. Cardinality(S) <= n /\ Cardinality(S) \in Nat
      BY <2>1, FS_Subset, FS_CardinalityType
    <3> QED BY <1>9, <2>1, <3>1, NonEmptyCount
  <2>4. Cardinality(S \ {Max(S)}) = Cardinality(S) - 1
    BY <2>1, <2>2, FS_RemoveElement
  <2> QED BY <1>5, <2>2, <2>3, <2>4
<1>10. Is(F)
  <2>1. ASSUME NEW S \in SUBSET (1 .. n)
        PROVE  F[S] = IF S = {} THEN FloodStart ELSE Round(F[S \ {Max(S)}])
    <3>1. CASE S = {}
      BY <1>6, <3>1, FS_EmptySet
    <3>2. CASE S # {}
      <4>1. S \ {Max(S)} \in SUBSET (1 .. n)
        OBVIOUS
      <4>2. F[S] = g[Cardinality(S)] /\ F[S \ {Max(S)}] = g[Cardinality(S) - 1]
        BY <1>9, <3>2, <4>1
      <4>3. g[Cardinality(S)] = Round(g[Cardinality(S) - 1])
        BY <1>7, <1>9, <3>2
      <4> QED BY <3>2, <4>2, <4>3
    <3> QED BY <3>1, <3>2
  <2>2. F = [S \in SUBSET (1 .. n) |-> F[S]]
    OBVIOUS
  <2> HIDE DEF F
  <2> QED BY <1>8, <2>1, <2>2
<1>11. Is(it)
  <2> HIDE DEF Is, F
  <2> QED BY <1>10
<1>12. Flooded(Cells, dem, given)
         = [label |-> it[1 .. n].label, flow |-> it[1 .. n].flow, pits |-> it[1 .. n].pits]
  BY <1>8 DEF Flooded, FloodedFrom, FloodStart, FoldLeft, MapThenFoldSet, n, Round
<1> HIDE DEF it, F
<1> DEFINE T == {i \in 0 .. n : it[1 .. i] = g[i]}
<1>13. 0 \in T
  <2>1. 1 .. 0 = {} /\ it[{}] = FloodStart
    BY <1>11
  <2> QED BY <1>5, <1>6, <2>1
<1>14. ASSUME NEW i \in 0 .. n - 1, i \in T PROVE i + 1 \in T
  <2>1. i + 1 \in 1 .. n /\ (i + 1) - 1 = i /\ i + 1 \in 0 .. n /\ i + 1 \in Nat \ {0}
    BY <1>5
  <2>2. 1 .. i + 1 \in SUBSET DOMAIN s
    BY <1>5, <1>8, <2>1
  <2>3. 1 .. i + 1 # {} /\ Max(1 .. i + 1) = i + 1 /\ (1 .. i + 1) \ {i + 1} = 1 .. i
    BY <2>1, Prefix
  <2>4. it[1 .. i + 1] = Round(it[1 .. i])
    <3> HIDE DEF s
    <3> QED BY <1>11, <2>2, <2>3
  <2>5. it[1 .. i] = g[i]
    BY <1>14
  <2>6. g[i + 1] = Round(g[i])
    BY <1>7, <2>1
  <2> QED BY <2>1, <2>4, <2>5, <2>6
<1>15. it[1 .. n] = g[n]
  <2> HIDE DEF T
  <2>1. 0 .. n \subseteq T
    BY <1>5, <1>13, <1>14, Upwards
  <2>2. n \in T
    BY <1>5, <2>1
  <2> QED BY <2>2 DEF T
<1>16. it[1 .. n] = FloodState
  BY <1>6, <1>15
<1> QED BY <1>12, <1>16 DEF FloodState

\* The flood ends with every cell assigned, and as the function that the models of
\* the driver call.
THEOREM FloodIsItsFunction == Spec => []EndsAsFunction
<1>1. Init => PastInv
  BY DEF Init, PastInv
<1>2. FloodInv /\ PastInv /\ EveryCellAssigned => EndsAsFunction
  BY PastIsFold DEF PastInv, EndsAsFunction
<1> QED BY FloodInvHolds, DrainInvHolds, NoCellIsLeftOut, PastNext, <1>1, <1>2, PTL DEF Spec
=============================================================================
