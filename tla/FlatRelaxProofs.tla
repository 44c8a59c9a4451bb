-------------------------- MODULE FlatRelaxProofs --------------------------
(***************************************************************************)
(* The rounds of the streaming flat resolution: between two answers of     *)
(* rank 0 the ranks work on one segment of exchanges, which says where     *)
(* each may be, what is in every column under way, and whose values of the *)
(* halo are current (IInv).  A field is final when nobody has changed      *)
(* anything in a round of which everybody has seen all edges.              *)
(***************************************************************************)
EXTENDS FlatRelax, DataLemmas

\* The cells are finitely many, in columns and rows of the raster.
LEMMA CellIs ==
  /\ Width \in Nat \ {0} /\ Height \in Nat \ {0} /\ IsFiniteSet(Cells)
  /\ \A c \in Cells : XOf(c) \in 0 .. Width - 1
<1>1. Width \in Nat \ {0} /\ Height \in Nat \ {0}
  BY GridAssumption
<1>2. Width * Height \in Int
  BY <1>1
<1>3. IsFiniteSet(0 .. Width * Height - 1)
  <2>1. 0 \in Int /\ Width * Height - 1 \in Int
    BY <1>2
  <2> QED BY <2>1, FS_Interval
<1>4. ASSUME NEW c \in Cells PROVE XOf(c) \in 0 .. Width - 1
  <2>1. c \in Int
    BY <1>2 DEF Cells
  <2>2. c % Width \in 0 .. Width - 1
    BY <1>1, <2>1
  <2> QED BY <2>2 DEF XOf
<1> QED BY <1>1, <1>3, <1>4 DEF Cells

\* A place in the raster is a cell of its column.
LEMMA PlaceIs ==
  ASSUME NEW x \in 0 .. Width - 1, NEW y \in 0 .. Height - 1
  PROVE  y * Width + x \in Cells /\ XOf(y * Width + x) = x
<1>1. Width \in Nat \ {0} /\ Height \in Nat \ {0}
  BY GridAssumption
<1>2. x \in Nat /\ y \in Nat /\ x < Width /\ y + 1 <= Height
  BY <1>1
<1>3. (y * Width + x) % Width = x
  BY <1>1, <1>2
<1>4. y * Width + x < (y + 1) * Width
  BY <1>1, <1>2
<1>5. (y + 1) * Width <= Height * Width
  BY <1>1, <1>2
<1>6. y * Width + x \in Nat /\ (y + 1) * Width \in Nat /\ Height * Width = Width * Height
      /\ Width * Height \in Nat
  BY <1>1, <1>2
<1>7. y * Width + x \in 0 .. Width * Height - 1
  BY <1>4, <1>5, <1>6
<1> QED BY <1>3, <1>7 DEF Cells, XOf

\* The offsets lead to what is at most one step away.
LEMMA OffsetsAre ==
  /\ Offsets \in Seq(Int \X Int)
  /\ \A i \in DOMAIN Offsets : Offsets[i][1] \in -1 .. 1 /\ Offsets[i][2] \in -1 .. 1
<1>1. CASE Diagonals
  <2>1. Offsets = << <<-1, 0>>, <<-1, -1>>, <<0, -1>>, <<1, -1>>,
                     <<1, 0>>, <<1, 1>>, <<0, 1>>, <<-1, 1>> >>
    BY <1>1 DEF Offsets
  <2> QED BY <2>1
<1>2. CASE ~ Diagonals
  <2>1. Offsets = << <<-1, 0>>, <<0, -1>>, <<1, 0>>, <<0, 1>> >>
    BY <1>2 DEF Offsets
  <2> QED BY <2>1
<1> QED BY <1>1, <1>2

\* The cells of the raster at most a column away.
Within(c) == {n \in Cells : XOf(c) - 1 <= XOf(n) /\ XOf(n) <= XOf(c) + 1}
Place(c, o) == (YOf(c) + o[2]) * Width + XOf(c) + o[1]
InReach(c, o) == InGrid(XOf(c) + o[1], YOf(c) + o[2])

\* The neighbours of a cell are such cells.
LEMMA NeighboursWithin ==
  ASSUME NEW c \in Cells
  PROVE  Around(c) \subseteq Within(c)
<1> DEFINE k == Len(Offsets)
           V == Seq(Within(c))
           Op == [a \in (1 .. k) \X V |->
                    IF InReach(c, Offsets[a[1]]) THEN Append(a[2], Place(c, Offsets[a[1]])) ELSE a[2]]
           Is(f) == f = [s \in SUBSET DOMAIN Offsets |->
                           IF s = {} THEN <<>>
                           ELSE LET x == Max(s)
                                IN  IF InReach(c, Offsets[x])
                                    THEN Append(f[s \ {x}], Place(c, Offsets[x]))
                                    ELSE f[s \ {x}]]
           it == CHOOSE f : Is(f)
<1>1. k \in Nat /\ DOMAIN Offsets = 1 .. k
  BY OffsetsAre
<1>2. ASSUME NEW i \in 1 .. k, InReach(c, Offsets[i]) PROVE Place(c, Offsets[i]) \in Within(c)
  <2>1. Offsets[i] \in Int \X Int /\ Offsets[i][1] \in -1 .. 1
    BY <1>1, OffsetsAre
  <2>2. XOf(c) \in Int /\ Width \in Int
    BY CellIs
  <2>3. YOf(c) \in Int
    <3>1. c \in Int
      <4>1. Width * Height \in Int
        BY CellIs
      <4> QED BY <4>1 DEF Cells
    <3> QED BY <3>1, CellIs DEF YOf
  <2> DEFINE x == XOf(c) + Offsets[i][1]
             y == YOf(c) + Offsets[i][2]
  <2>4. x \in 0 .. Width - 1 /\ y \in 0 .. Height - 1
    BY <1>2 DEF InReach, InGrid
  <2>5. y * Width + x \in Cells /\ XOf(y * Width + x) = x
    BY <2>4, PlaceIs
  <2>6. Place(c, Offsets[i]) = y * Width + x
    <3>1. y \in Int /\ Offsets[i][1] \in Int
      BY <2>1, <2>3
    <3>2. Place(c, Offsets[i]) = y * Width + XOf(c) + Offsets[i][1]
      BY DEF Place
    <3> HIDE DEF y
    <3>3. y * Width \in Int
      BY <2>2, <3>1
    <3> DEFINE p == y * Width
    <3> HIDE DEF p
    <3>4. Place(c, Offsets[i]) = p + XOf(c) + Offsets[i][1]
      BY <3>2 DEF p
    <3>5. p + XOf(c) + Offsets[i][1] = p + (XOf(c) + Offsets[i][1])
      BY <2>2, <3>1, <3>3 DEF p
    <3> QED BY <3>4, <3>5 DEF p
  <2>7. XOf(c) - 1 <= x /\ x <= XOf(c) + 1
    BY <2>1, <2>2
  <2> HIDE DEF x, y
  <2> QED BY <2>5, <2>6, <2>7 DEF Within
<1>3. Op \in [(1 .. k) \X V -> V]
  <2>1. ASSUME NEW a \in (1 .. k) \X V
        PROVE  (IF InReach(c, Offsets[a[1]]) THEN Append(a[2], Place(c, Offsets[a[1]])) ELSE a[2]) \in V
    <3>1. a[1] \in 1 .. k /\ a[2] \in V
      OBVIOUS
    <3> QED BY <3>1, <1>2
  <2> QED BY <2>1
<1>4. <<>> \in V
  OBVIOUS
<1>5. PICK F : IsFold(F, k, V, <<>>, Op)
  <2> HIDE DEF Op, k, V
  <2> QED BY <1>1, <1>3, <1>4, FoldExists
<1>6. Is(F)
  <2>1. ASSUME NEW S \in SUBSET (1 .. k), S # {}
        PROVE  F[S] = IF InReach(c, Offsets[Max(S)])
                      THEN Append(F[S \ {Max(S)}], Place(c, Offsets[Max(S)]))
                      ELSE F[S \ {Max(S)}]
    <3>1. Max(S) \in S
      <4>1. S \subseteq 0 .. k
        OBVIOUS
      <4> HIDE DEF k
      <4> QED BY <1>1, <2>1, <4>1, MaxOfBounded
    <3>2. F[S \ {Max(S)}] \in V
      BY <1>5 DEF IsFold
    <3>3. F[S] = Op[<<Max(S), F[S \ {Max(S)}]>>]
      BY <1>5, <2>1 DEF IsFold
    <3> QED BY <3>1, <3>2, <3>3
  <2>2. F = [S \in SUBSET (1 .. k) |-> F[S]] /\ F[{}] = <<>>
    BY <1>5 DEF IsFold
  <2> QED BY <2>1, <2>2, <1>1
<1>7. Is(it)
  <2> HIDE DEF Is
  <2> QED BY <1>6
<1> DEFINE T == {i \in 0 .. k : it[1 .. i] \in V}
<1>8. 0 \in T
  <2>1. it[{}] = <<>>
    BY <1>7, <1>1
  <2>2. 1 .. 0 = {}
    OBVIOUS
  <2> HIDE DEF it, k, V
  <2>3. it[1 .. 0] \in V
    BY <1>4, <2>1, <2>2
  <2> QED BY <1>1, <2>3
<1>9. ASSUME NEW i \in 0 .. k - 1, i \in T PROVE i + 1 \in T
  <2> DEFINE j == i + 1
  <2>1. j \in Nat \ {0} /\ j \in 1 .. k /\ j \in 0 .. k /\ j - 1 = i
    BY <1>1
  <2> HIDE DEF j
  <2>2. 1 .. j # {} /\ Max(1 .. j) = j /\ (1 .. j) \ {j} = 1 .. i
    BY <2>1, Prefix
  <2>3. 1 .. j \in SUBSET DOMAIN Offsets
    BY <1>1, <2>1
  <2>4. it[1 .. j] = IF InReach(c, Offsets[j]) THEN Append(it[1 .. i], Place(c, Offsets[j])) ELSE it[1 .. i]
    <3> HIDE DEF it, k, T
    <3> QED BY <1>7, <2>2, <2>3
  <2>5. it[1 .. i] \in V
    BY <1>9
  <2>6. it[1 .. j] \in V
    <3> HIDE DEF it, k, T
    <3> QED BY <1>2, <2>1, <2>4, <2>5
  <2> HIDE DEF it
  <2> QED BY <2>1, <2>6 DEF j
<1>10. k \in T
  <2> HIDE DEF T
  <2>1. 0 .. k \subseteq T
    BY <1>1, <1>8, <1>9, Upwards
  <2> QED BY <1>1, <2>1
<1>11. Neighbours[c] = it[1 .. k]
  BY <1>1 DEF Neighbours, FoldLeft, MapThenFoldSet, InReach, Place
<1> HIDE DEF it, k
<1> QED BY <1>10, <1>11 DEF Around, ToSet

-----------------------------------------------------------------------------
\* The tiles follow one another from the first column to the last.
LEMMA BoundsAre ==
  /\ ntiles \in Nat \ {0} /\ X0(0) = 0 /\ X1(ntiles - 1) = Width
  /\ \A r \in Ranks : r \in Nat /\ X0(r) \in Nat /\ X1(r) \in Nat /\ X0(r) < X1(r)
  /\ \A r \in Ranks : r + 1 \in Ranks => X0(r + 1) = X1(r)
<1>1. Bounds \in Seq(Nat) /\ Len(Bounds) \in Nat /\ Len(Bounds) >= 2
  BY BoundsAssumption
<1>2. Bounds[Len(Bounds)] = Width
  BY BoundsAssumption DEF Last
<1>3. \A i \in 1 .. Len(Bounds) : Bounds[i] \in Nat
  BY <1>1
<1>4. \A r \in Ranks : r \in Nat /\ r + 1 \in 1 .. Len(Bounds) - 1 /\ r + 2 \in 1 .. Len(Bounds)
                       /\ r + 1 \in 1 .. Len(Bounds)
  BY <1>1 DEF Ranks, ntiles
<1>5. ASSUME NEW r \in Ranks
      PROVE  r \in Nat /\ X0(r) \in Nat /\ X1(r) \in Nat /\ X0(r) < X1(r)
  <2>1. (r + 1) + 1 = r + 2
    BY <1>4
  <2>2. Bounds[r + 1] < Bounds[(r + 1) + 1]
    BY <1>4, BoundsAssumption
  <2> QED BY <1>3, <1>4, <2>1, <2>2 DEF X0, X1
<1>6. ASSUME NEW r \in Ranks, r + 1 \in Ranks PROVE X0(r + 1) = X1(r)
  <2>1. (r + 1) + 1 = r + 2
    BY <1>4
  <2> QED BY <2>1 DEF X0, X1
<1>7. X0(0) = 0
  BY BoundsAssumption DEF X0
<1>8. X1(ntiles - 1) = Width
  <2>1. (ntiles - 1) + 2 = Len(Bounds)
    BY <1>1 DEF ntiles
  <2> QED BY <1>2, <2>1 DEF X1
<1>9. ntiles \in Nat \ {0}
  <2>1. PICK n : n = Len(Bounds)
    OBVIOUS
  <2>2. n - 1 \in Nat \ {0}
    BY <1>1, <2>1
  <2> QED BY <2>1, <2>2, Zenon DEF ntiles
<1> QED BY <1>5, <1>6, <1>7, <1>8, <1>9

\* A tile further on begins where an earlier one has ended.
LEMMA TilesAscend ==
  ASSUME NEW r \in Ranks, NEW s \in Ranks, r < s
  PROVE  X1(r) <= X0(s) /\ X1(r) < X1(s) /\ X0(r) < X0(s)
<1> DEFINE T == {i \in 0 .. s - r - 1 : X1(r) <= X0(r + 1 + i)}
<1>1. r \in Nat /\ s \in Nat /\ s - r - 1 \in Nat /\ ntiles \in Nat
  BY BoundsAre
<1>2. 0 \in T
  <2>1. r + 1 \in Ranks /\ r + 1 + 0 = r + 1
    BY <1>1 DEF Ranks
  <2>2. X0(r + 1) = X1(r) /\ X1(r) \in Nat
    BY <2>1, BoundsAre
  <2> QED BY <1>1, <2>1, <2>2
<1>3. ASSUME NEW i \in 0 .. s - r - 1 - 1, i \in T PROVE i + 1 \in T
  <2> DEFINE t == r + 1 + i
  <2>1. t \in Ranks /\ t + 1 \in Ranks /\ t + 1 = r + 1 + (i + 1) /\ i + 1 \in 0 .. s - r - 1
    BY <1>1 DEF Ranks
  <2>2. X1(r) <= X0(t)
    BY <1>3
  <2> HIDE DEF t
  <2>3. X0(t + 1) = X1(t) /\ X0(t) < X1(t) /\ X0(t) \in Nat /\ X1(t) \in Nat /\ X1(r) \in Nat
    BY <2>1, BoundsAre
  <2>4. X1(r) <= X0(t + 1)
    BY <2>2, <2>3
  <2> QED BY <2>1, <2>4
<1>4. s - r - 1 \in T
  <2> HIDE DEF T
  <2>1. 0 .. s - r - 1 \subseteq T
    BY <1>1, <1>2, <1>3, Upwards
  <2> QED BY <1>1, <2>1
<1>5. r + 1 + (s - r - 1) = s
  BY <1>1
<1>6. X1(r) <= X0(s)
  BY <1>4, <1>5
<1>7. /\ X0(r) \in Nat /\ X1(r) \in Nat /\ X0(s) \in Nat /\ X1(s) \in Nat
      /\ X0(r) < X1(r) /\ X0(s) < X1(s)
  BY BoundsAre
<1> QED BY <1>6, <1>7

\* All tiles lie in the raster.
LEMMA TileWithin ==
  ASSUME NEW r \in Ranks
  PROVE  /\ X1(r) <= Width
         /\ r < ntiles - 1 => X1(r) < Width
         /\ r > 0 => X0(r) > 0
<1>1. ntiles \in Nat \ {0} /\ r \in Nat /\ 0 \in Ranks /\ ntiles - 1 \in Ranks /\ Width \in Nat
  BY BoundsAre, CellIs DEF Ranks
<1>2. X0(0) = 0 /\ X1(ntiles - 1) = Width /\ X1(r) \in Nat /\ X0(r) \in Nat
  BY BoundsAre
<1>3. r = ntiles - 1 \/ r < ntiles - 1
  BY <1>1 DEF Ranks
<1>4. r < ntiles - 1 => X1(r) < Width
  BY <1>1, <1>2, TilesAscend
<1>5. r > 0 => X0(r) > 0
  BY <1>1, <1>2, TilesAscend
<1> QED BY <1>1, <1>2, <1>3, <1>4, <1>5

\* Every cell lies in one tile.
LEMMA TileIs ==
  /\ \A c \in Cells : TileOf(c) \in Ranks /\ c \in Owned(TileOf(c))
  /\ \A r \in Ranks : \A c \in Owned(r) : c \in Cells /\ TileOf(c) = r
<1>1. ASSUME NEW c \in Cells PROVE TileOf(c) \in Ranks /\ XOf(c) \in X0(TileOf(c)) .. X1(TileOf(c)) - 1
  <2> DEFINE x == XOf(c)
             S == {r \in Ranks : X0(r) <= x}
  <2>1. x \in Nat /\ x < Width /\ Width \in Nat /\ ntiles \in Nat \ {0}
    BY CellIs, BoundsAre
  <2>2. S \subseteq 0 .. ntiles - 1 /\ S # {}
    <3>1. 0 \in Ranks /\ X0(0) = 0
      BY <2>1, BoundsAre DEF Ranks
    <3> QED BY <2>1, <3>1 DEF Ranks
  <2>3. PICK r \in S : \A s \in S : s <= r
    <3>1. ntiles - 1 \in Nat
      BY <2>1
    <3> HIDE DEF S
    <3> QED BY <2>2, <3>1, Greatest
  <2>4. r \in Nat /\ X0(r) \in Nat /\ X1(r) \in Nat
    BY <2>3, BoundsAre
  <2>5. x < X1(r)
    <3>1. CASE r = ntiles - 1
      BY <2>1, <3>1, BoundsAre
    <3>2. CASE r # ntiles - 1
      <4>1. r + 1 \in Ranks
        BY <2>1, <2>3, <2>4, <3>2 DEF Ranks
      <4>2. r + 1 \notin S
        BY <2>3, <2>4
      <4>3. ~ (X0(r + 1) <= x) /\ X0(r + 1) = X1(r)
        BY <4>1, <4>2, BoundsAre
      <4> QED BY <2>1, <2>4, <4>3
    <3> QED BY <3>1, <3>2
  <2>6. r \in Ranks /\ x \in X0(r) .. X1(r) - 1
    BY <2>1, <2>3, <2>4, <2>5
  <2> QED BY <2>6 DEF TileOf
<1>2. ASSUME NEW r \in Ranks, NEW c \in Owned(r) PROVE c \in Cells /\ TileOf(c) = r
  <2>1. c \in Cells /\ XOf(c) \in X0(r) .. X1(r) - 1
    BY DEF Owned, Between
  <2> DEFINE t == TileOf(c)
  <2>2. t \in Ranks /\ XOf(c) \in X0(t) .. X1(t) - 1
    BY <1>1, <2>1
  <2> HIDE DEF t
  <2>3. /\ r \in Nat /\ t \in Nat /\ XOf(c) \in Nat
        /\ X0(r) \in Nat /\ X1(r) \in Nat /\ X0(t) \in Nat /\ X1(t) \in Nat
    BY <2>1, <2>2, BoundsAre, CellIs
  <2>4. ~ (r < t)
    <3> SUFFICES ASSUME r < t PROVE FALSE
      OBVIOUS
    <3>1. X1(r) <= X0(t)
      BY <2>2, TilesAscend
    <3> QED BY <2>1, <2>2, <2>3, <3>1
  <2>5. ~ (t < r)
    <3> SUFFICES ASSUME t < r PROVE FALSE
      OBVIOUS
    <3>1. X1(t) <= X0(r)
      BY <2>2, TilesAscend
    <3> QED BY <2>1, <2>2, <2>3, <3>1
  <2> QED BY <2>1, <2>3, <2>4, <2>5 DEF t
<1>3. \A c \in Cells : c \in Owned(TileOf(c))
  BY <1>1 DEF Owned, Between
<1> QED BY <1>1, <1>2, <1>3

\* A tile has cells, and finitely many.
LEMMA OwnedIs ==
  ASSUME NEW r \in Ranks
  PROVE  /\ Owned(r) \subseteq Cells /\ Owned(r) # {} /\ IsFiniteSet(Owned(r))
         /\ \A x \in X0(r) .. X1(r) - 1 : \E c \in Owned(r) : XOf(c) = x
<1>1. /\ X0(r) \in Nat /\ X1(r) \in Nat /\ X0(r) < X1(r) /\ X1(r) <= Width
      /\ Width \in Nat \ {0} /\ Height \in Nat \ {0}
  BY BoundsAre, TileWithin, CellIs
<1>2. ASSUME NEW x \in X0(r) .. X1(r) - 1 PROVE \E c \in Owned(r) : XOf(c) = x
  <2>1. x \in 0 .. Width - 1 /\ 0 \in 0 .. Height - 1 /\ 0 * Width + x = x
    BY <1>1
  <2>2. x \in Cells /\ XOf(x) = x
    BY <2>1, PlaceIs
  <2>3. x \in Owned(r)
    BY <2>2 DEF Owned, Between
  <2> QED BY <2>2, <2>3
<1>3. Owned(r) # {}
  <2>1. X0(r) \in X0(r) .. X1(r) - 1
    BY <1>1
  <2> QED BY <1>2, <2>1
<1>4. Owned(r) \subseteq Cells
  BY DEF Owned, Between
<1> QED BY <1>2, <1>3, <1>4, CellIs, FS_Subset

-----------------------------------------------------------------------------
\* The columns under way from s to r, and the number of the last one that r has
\* received of every neighbour.
Columns(s, r) == Waiting(mail, Seam(s, r))
Receiving(r) == pc[r] \in {"dem", "sd", "enter", "edges", "mask"}
Received(r) == IF Receiving(r) THEN count[r] - 1 ELSE count[r]

Fields == {"away", "towards", "height"}

\* What the ranks do between two answers of rank 0: b is the number of the last
\* exchange before it, k says how it begins, f is the field.
Segments ==
  {[b |-> 0, k |-> "start", f |-> "away"]}
  \cup [b : Nat, k : {"go"}, f : Fields]
  \cup [b : Nat, k : {"leave"}, f : {"towards", "height"}]
  \cup [b : Nat, k : {"mask"}, f : {"mask"}]

\* The number of its last exchange.
End(g) == IF g.k = "start" THEN 4 ELSE IF g.k = "leave" THEN g.b + 2 ELSE g.b + 1

\* The array whose columns are exchanged under a number.
ArrayAt(g, n) == IF g.k = "start" /\ n = 1 THEN "dem" ELSE IF g.k = "start" /\ n = 2 THEN "sd" ELSE g.f

\* The field before this one.
Prev(f) == IF f = "towards" THEN "away" ELSE IF f = "height" THEN "towards" ELSE "height"
Before(f) == IF f = "away" THEN {} ELSE IF f = "towards" THEN {"away"}
             ELSE IF f = "height" THEN {"away", "towards"} ELSE Fields

\* Where a rank may be.
Early(g, r) ==
  /\ g.k = "start" /\ field[r] = g.f
  /\ \/ pc[r] = "start" /\ count[r] = 0
     \/ pc[r] = "dem" /\ count[r] = 1
     \/ pc[r] = "sd" /\ count[r] = 2
Entering(g, r) == g.k \in {"start", "leave"} /\ pc[r] = "enter" /\ count[r] = End(g) - 1 /\ field[r] = g.f
Sweeping(g, r) == g.k # "mask" /\ pc[r] = "edges" /\ count[r] = End(g) /\ field[r] = g.f
Voting(g, r) == /\ g.k # "mask" /\ pc[r] = (IF r = 0 THEN "votes" ELSE "answer")
                /\ count[r] = End(g) /\ field[r] = g.f
Behind(g, r) == /\ g.k # "start" /\ r # 0 /\ pc[r] = "answer" /\ count[r] = g.b
                /\ field[r] = IF g.k = "go" THEN g.f ELSE Prev(g.f)
Masking(g, r) == g.k = "mask" /\ pc[r] \in {"mask", "done"} /\ count[r] = g.b + 1 /\ field[r] = g.f

Placed(g, r) ==
  Early(g, r) \/ Entering(g, r) \/ Sweeping(g, r) \/ Voting(g, r) \/ Behind(g, r) \/ Masking(g, r)

\* What is in the column with number n.
ColumnIs(g, s, r, m, n) ==
  /\ m.number = n /\ m.array = ArrayAt(g, n)
  /\ \A c \in Facing(s, r) :
       /\ m.array = "dem" => m.column[c] = dem[c]
       /\ m.array \in Fields =>
            /\ m.column[c] \in Nat
            /\ n = count[s] \/ ~ changed[s] => m.column[c] = arr[s][g.f][c]

ColumnsAre(g, s, r) ==
  /\ Len(Columns(s, r)) = count[s] - Received(r)
  /\ \A i \in DOMAIN Columns(s, r) : ColumnIs(g, s, r, Columns(s, r)[i], Received(r) + i)

VotesAre(g) ==
  \A t \in Others :
    /\ Waiting(mail, <<t, 0, "chg">>) = IF Voting(g, t) THEN <<changed[t]>> ELSE <<>>
    /\ Waiting(mail, <<0, t, "cont">>) = IF Behind(g, t) THEN <<g.k = "go">> ELSE <<>>

Keys == (UNION {{Seam(s, r) : r \in Beside(s)} : s \in Ranks}) \cup ToZero({"chg"}) \cup FromZero("cont")

\* The arrays of a rank.
ArraysAre(r) ==
  /\ pc[r] \notin {"start", "dem"} =>
       /\ arr[r]["dem"] = [c \in Padded(r) |-> dem[c]]
       /\ arr[r]["sd"] \cap Owned(r) = WholeSd(dem) \cap Owned(r)
  /\ pc[r] \notin {"start", "dem", "sd"} =>
       arr[r]["away"] \in [Padded(r) -> Nat] /\ arr[r]["towards"] \in [Padded(r) -> Nat]
  /\ field[r] \in {"height", "mask"} => arr[r]["height"] \in [Padded(r) -> Nat]

\* A rank has the edge of its neighbour as that has it.
Sees(g, r, s) == \A c \in Facing(s, r) : arr[r][g.f][c] = arr[s][g.f][c]

HaloIs(g, r, s) ==
  /\ Sweeping(g, r) \/ (Behind(g, r) /\ g.k = "go") =>
       (count[s] # End(g) \/ ~ changed[s] => Sees(g, r, s))
  /\ Voting(g, r) => Sees(g, r, s)

\* No value of this field can be taken over any more.
Level(f, d, c) ==
  \A n \in LevelNear(dem, Cells, c) : IF f = "height" THEN d[n] <= d[c] ELSE d[c] <= d[n] + 1
Worked(f) == IF f = "height" THEN Elevated(dem, Cells) ELSE FlatCells
Still(f, r) == \A c \in Owned(r) \cap Worked(f) : Level(f, arr[r][f], c)
Final(f) == \A c \in Worked(f) : Level(f, Joint(f), c)

StillIs(g, r) ==
  ~ changed[r] /\ (Sweeping(g, r) \/ (Voting(g, r) /\ \A s \in Beside(r) : ~ changed[s])) => Still(g.f, r)

Shared(g) ==
  /\ \A r \in Ranks : Placed(g, r) /\ ArraysAre(r) /\ StillIs(g, r)
  /\ \A r \in Ranks : \A s \in Beside(r) : ColumnsAre(g, s, r) /\ HaloIs(g, r, s)
  /\ VotesAre(g)
  /\ \A f \in Before(g.f) : Final(f)

Shapes ==
  /\ dem \in Inputs
  /\ pc = [r \in Ranks |-> pc[r]] /\ field = [r \in Ranks |-> field[r]] /\ count \in [Ranks -> Nat]
  /\ changed \in [Ranks -> BOOLEAN] /\ DOMAIN arr = Ranks /\ \A r \in Ranks : DOMAIN arr[r] = Arrays
  /\ IsMail(mail) /\ DOMAIN mail \subseteq Keys

IInv == Shapes /\ \E g \in Segments : Shared(g)

-----------------------------------------------------------------------------
\* The columns of the padded array.
LEMMA PadIs ==
  ASSUME NEW r \in Ranks
  PROVE  /\ Max({0, X0(r) - 1}) = IF r = 0 THEN 0 ELSE X0(r) - 1
         /\ Min({Width, X1(r) + 1}) = IF r = ntiles - 1 THEN Width ELSE X1(r) + 1
<1>1. /\ X0(r) \in Nat /\ X1(r) \in Nat /\ X1(r) <= Width /\ Width \in Nat /\ r \in Nat
      /\ r < ntiles - 1 => X1(r) < Width
      /\ r > 0 => X0(r) > 0
      /\ r = 0 \/ r > 0
      /\ r = ntiles - 1 \/ r < ntiles - 1
  BY BoundsAre, TileWithin, CellIs DEF Ranks
<1>2. X0(0) = 0 /\ X1(ntiles - 1) = Width
  BY BoundsAre
<1>3. Max({0, X0(r) - 1}) = IF r = 0 THEN 0 ELSE X0(r) - 1
  <2>1. PICK x : x = X0(r) - 1
    OBVIOUS
  <2>2. x \in Int /\ (r = 0 => x < 0) /\ (r # 0 => x >= 0)
    BY <1>1, <1>2, <2>1
  <2>3. \E m \in {0, x} : \A y \in {0, x} : m >= y
    BY <2>2
  <2>4. Max({0, x}) \in {0, x} /\ \A y \in {0, x} : Max({0, x}) >= y
    BY <2>3 DEF Max
  <2>5. Max({0, x}) = IF r = 0 THEN 0 ELSE x
    BY <2>2, <2>4
  <2> QED BY <2>1, <2>5
<1>4. Min({Width, X1(r) + 1}) = IF r = ntiles - 1 THEN Width ELSE X1(r) + 1
  <2>1. PICK x : x = X1(r) + 1
    OBVIOUS
  <2>2. x \in Nat /\ (r = ntiles - 1 => x > Width) /\ (r # ntiles - 1 => x <= Width)
    BY <1>1, <1>2, <2>1
  <2>3. Min({Width, x}) \in {Width, x} /\ \A m \in {Width, x} : Min({Width, x}) <= m
    <3>1. {Width, x} \subseteq Nat /\ {Width, x} # {}
      BY <1>1, <2>2
    <3> QED BY <3>1, MinOfNats
  <2>4. Min({Width, x}) = IF r = ntiles - 1 THEN Width ELSE x
    BY <1>1, <2>2, <2>3
  <2> QED BY <2>1, <2>4
<1> QED BY <1>3, <1>4

\* A rank's padded array: its tile and the columns of its neighbours that face it.
LEMMA PaddedIs ==
  ASSUME NEW r \in Ranks
  PROVE  /\ Padded(r) \subseteq Cells /\ Owned(r) \subseteq Padded(r) /\ IsFiniteSet(Padded(r))
         /\ \A c \in Padded(r) \ Owned(r) : TileOf(c) \in Beside(r) /\ c \in Facing(TileOf(c), r)
         /\ \A s \in Beside(r) : /\ s \in Ranks /\ s # r /\ r \in Beside(s)
                                 /\ Facing(s, r) \subseteq Owned(s) /\ Facing(s, r) \subseteq Padded(r)
                                 /\ Facing(s, r) \cap Owned(r) = {}
         /\ \A c \in Owned(r) : Around(c) \subseteq Padded(r)
<1> DEFINE L == IF r = 0 THEN 0 ELSE X0(r) - 1
           H == IF r = ntiles - 1 THEN Width ELSE X1(r) + 1
<1>1. /\ r \in Nat /\ ntiles \in Nat \ {0} /\ X0(r) \in Nat /\ X1(r) \in Nat /\ X0(r) < X1(r)
      /\ X1(r) <= Width /\ Width \in Nat /\ X0(0) = 0 /\ X1(ntiles - 1) = Width
      /\ r < ntiles - 1 => X1(r) < Width
      /\ r > 0 => X0(r) > 0
      /\ r = 0 \/ r > 0
      /\ r = ntiles - 1 \/ r < ntiles - 1
      /\ r <= ntiles - 1
  BY BoundsAre, TileWithin, CellIs DEF Ranks
<1>2. Padded(r) = {c \in Cells : XOf(c) \in L .. H - 1}
  BY PadIs DEF Padded, Between
<1>3. Owned(r) = {c \in Cells : XOf(c) \in X0(r) .. X1(r) - 1}
  BY DEF Owned, Between
<1>4. \A c \in Cells : XOf(c) \in 0 .. Width - 1
  BY CellIs
<1>5. L \in Nat /\ H \in Nat /\ L <= X0(r) /\ X1(r) <= H
  BY <1>1
<1>6. Owned(r) \subseteq Padded(r)
  <2> HIDE DEF L, H
  <2> QED BY <1>1, <1>2, <1>3, <1>5
<1>7. IsFiniteSet(Padded(r))
  <2> HIDE DEF L, H
  <2> QED BY <1>2, CellIs, FS_Subset
<1>8. ASSUME NEW s \in Beside(r)
      PROVE  /\ s \in Ranks /\ s # r /\ r \in Beside(s)
             /\ \/ s = r - 1 /\ s < r /\ X1(s) = X0(r) /\ r > 0
                \/ s = r + 1 /\ r < s /\ X0(s) = X1(r) /\ r < ntiles - 1
             /\ X0(s) \in Nat /\ X1(s) \in Nat /\ X0(s) < X1(s)
  <2>1. s \in Ranks /\ (s = r - 1 \/ s = r + 1)
    BY DEF Beside
  <2>2. CASE s = r - 1
    <3>1. s + 1 = r /\ s # r /\ s < r /\ r > 0
      BY <1>1, <2>1, <2>2, BoundsAre
    <3>2. X0(s + 1) = X1(s)
      BY <2>1, <3>1, BoundsAre
    <3> QED BY <2>1, <2>2, <3>1, <3>2, BoundsAre DEF Beside
  <2>3. CASE s = r + 1
    <3>1. s - 1 = r /\ s # r /\ r < s /\ r < ntiles - 1
      BY <1>1, <2>1, <2>3 DEF Ranks
    <3>2. X0(r + 1) = X1(r)
      BY <2>1, <2>3, BoundsAre
    <3> QED BY <2>1, <2>3, <3>1, <3>2, BoundsAre DEF Beside
  <2> QED BY <2>1, <2>2, <2>3
<1>9. ASSUME NEW s \in Beside(r)
      PROVE  /\ Facing(s, r) \subseteq Owned(s) /\ Facing(s, r) \subseteq Padded(r)
             /\ Facing(s, r) \cap Owned(r) = {}
  <2>1. Owned(s) = {c \in Cells : XOf(c) \in X0(s) .. X1(s) - 1}
    BY DEF Owned, Between
  <2>2. CASE s = r - 1 /\ s < r /\ X1(s) = X0(r) /\ r > 0
    <3>1. Facing(s, r) = {c \in Cells : XOf(c) = X0(r) - 1}
      BY <2>2 DEF Facing, RightEdge, Column
    <3>2. L = X0(r) - 1 /\ X0(r) - 1 \in X0(s) .. X1(s) - 1
      BY <1>1, <1>8, <2>2
    <3>3. X0(r) - 1 \in L .. H - 1 /\ X0(r) - 1 \notin X0(r) .. X1(r) - 1
      BY <1>1, <1>5, <3>2
    <3> HIDE DEF L, H
    <3> QED BY <1>2, <1>3, <2>1, <3>1, <3>2, <3>3
  <2>3. CASE s = r + 1 /\ r < s /\ X0(s) = X1(r) /\ r < ntiles - 1
    <3>1. ~ (s < r)
      BY <1>1, <2>3
    <3>2. Facing(s, r) = {c \in Cells : XOf(c) = X1(r)}
      BY <2>3, <3>1 DEF Facing, LeftEdge, Column
    <3>3. H = X1(r) + 1 /\ X1(r) \in X0(s) .. X1(s) - 1
      BY <1>1, <1>8, <2>3
    <3>4. X1(r) \in L .. H - 1 /\ X1(r) \notin X0(r) .. X1(r) - 1
      BY <1>1, <1>5, <3>3
    <3> HIDE DEF L, H
    <3> QED BY <1>2, <1>3, <2>1, <3>2, <3>3, <3>4
  <2> QED BY <1>8, <2>2, <2>3
<1>10. ASSUME NEW c \in Padded(r) \ Owned(r)
       PROVE  TileOf(c) \in Beside(r) /\ c \in Facing(TileOf(c), r)
  <2>1. c \in Cells /\ XOf(c) \in L .. H - 1 /\ XOf(c) \notin X0(r) .. X1(r) - 1
    BY <1>2, <1>3
  <2>2. XOf(c) \in Nat
    BY <1>4, <2>1
  <2>3. CASE XOf(c) < X0(r)
    <3>1. r > 0 /\ XOf(c) = X0(r) - 1
      BY <1>1, <2>1, <2>2, <2>3
    <3>2. r - 1 \in Beside(r)
      BY <1>1, <3>1 DEF Beside, Ranks
    <3>3. r - 1 < r /\ X1(r - 1) = X0(r) /\ X0(r - 1) \in Nat /\ X0(r - 1) < X1(r - 1) /\ r - 1 \in Ranks
      BY <1>1, <1>8, <3>2
    <3>4. c \in Facing(r - 1, r)
      BY <2>1, <3>1, <3>3 DEF Facing, RightEdge, Column
    <3>5. c \in Owned(r - 1)
      BY <1>9, <3>2, <3>4
    <3>6. TileOf(c) = r - 1
      BY <3>3, <3>5, TileIs
    <3> QED BY <3>2, <3>4, <3>6
  <2>4. CASE ~ (XOf(c) < X0(r))
    <3>1. r < ntiles - 1 /\ XOf(c) = X1(r)
      BY <1>1, <2>1, <2>2, <2>4
    <3>2. r + 1 \in Beside(r)
      BY <1>1, <3>1 DEF Beside, Ranks
    <3>3. ~ (r + 1 < r) /\ X0(r + 1) = X1(r) /\ r + 1 \in Ranks
      BY <1>1, <1>8, <3>2
    <3>4. c \in Facing(r + 1, r)
      BY <2>1, <3>1, <3>3 DEF Facing, LeftEdge, Column
    <3>5. c \in Owned(r + 1)
      BY <1>9, <3>2, <3>4
    <3>6. TileOf(c) = r + 1
      BY <3>3, <3>5, TileIs
    <3> QED BY <3>2, <3>4, <3>6
  <2> QED BY <2>3, <2>4
<1>11. ASSUME NEW c \in Owned(r), NEW n \in Around(c) PROVE n \in Padded(r)
  <2>1. c \in Cells /\ XOf(c) \in X0(r) .. X1(r) - 1
    BY <1>3
  <2>2. n \in Cells /\ XOf(c) - 1 <= XOf(n) /\ XOf(n) <= XOf(c) + 1
    BY <2>1, NeighboursWithin DEF Within
  <2>3. XOf(n) \in 0 .. Width - 1
    BY <1>4, <2>2
  <2>4. XOf(n) \in L .. H - 1
    BY <1>1, <2>1, <2>2, <2>3
  <2> HIDE DEF L, H
  <2> QED BY <1>2, <2>2, <2>4
<1> QED BY <1>2, <1>6, <1>7, <1>8, <1>9, <1>10, <1>11

\* A cell of a tile is on the edge of the padded array just if it is on the edge
\* of the raster.
LEMMA SameEdges ==
  ASSUME NEW r \in Ranks, NEW c \in Owned(r)
  PROVE  XOf(c) \in {Min({XOf(x) : x \in Padded(r)}), Max({XOf(x) : x \in Padded(r)})}
         <=> XOf(c) \in {Min({XOf(x) : x \in Cells}), Max({XOf(x) : x \in Cells})}
<1> DEFINE L == IF r = 0 THEN 0 ELSE X0(r) - 1
           H == IF r = ntiles - 1 THEN Width ELSE X1(r) + 1
<1>1. /\ r \in Nat /\ ntiles \in Nat \ {0} /\ X0(r) \in Nat /\ X1(r) \in Nat /\ X0(r) < X1(r)
      /\ X1(r) <= Width /\ Width \in Nat \ {0} /\ Height \in Nat \ {0} /\ X0(0) = 0 /\ X1(ntiles - 1) = Width
      /\ r < ntiles - 1 => X1(r) < Width
      /\ r > 0 => X0(r) > 0
      /\ r = 0 \/ r > 0
      /\ r = ntiles - 1 \/ r < ntiles - 1
      /\ r <= ntiles - 1
  BY BoundsAre, TileWithin, CellIs DEF Ranks
<1>2. Padded(r) = {x \in Cells : XOf(x) \in L .. H - 1}
  BY PadIs DEF Padded, Between
<1>3. L \in Nat /\ H \in Nat /\ L < H /\ H <= Width
  BY <1>1
<1>4. ASSUME NEW a \in Nat, NEW b \in Nat, a < b, b <= Width, NEW S, S = {x \in Cells : XOf(x) \in a .. b - 1}
      PROVE  Min({XOf(x) : x \in S}) = a /\ Max({XOf(x) : x \in S}) = b - 1
  <2> DEFINE X == {XOf(x) : x \in S}
  <2>1. ASSUME NEW i \in a .. b - 1 PROVE i \in X
    <3>1. i \in 0 .. Width - 1 /\ 0 \in 0 .. Height - 1 /\ 0 * Width + i = i
      BY <1>1, <1>4
    <3>2. i \in Cells /\ XOf(i) = i
      BY <3>1, PlaceIs
    <3> QED BY <1>4, <3>2
  <2>2. X = a .. b - 1
    BY <1>4, <2>1
  <2> HIDE DEF X
  <2>5. a \in X /\ b - 1 \in X
    BY <1>4, <2>2
  <2>3. Min(X) \in X /\ \A m \in X : Min(X) <= m
    <3>1. X \subseteq Nat
      BY <2>2
    <3>2. X # {}
      BY <2>5
    <3> QED BY <3>1, <3>2, MinOfNats
  <2>4. Max(X) \in X /\ \A m \in X : m <= Max(X)
    <3>1. X \subseteq 0 .. b - 1 /\ b - 1 \in Nat
      BY <1>4, <2>2
    <3>2. X # {}
      BY <2>5
    <3> QED BY <3>1, <3>2, MaxOfBounded
  <2>6. Min(X) = a /\ Max(X) = b - 1
    BY <2>2, <2>3, <2>4, <2>5
  <2> QED BY <2>6 DEF X
<1>5. Min({XOf(x) : x \in Padded(r)}) = L /\ Max({XOf(x) : x \in Padded(r)}) = H - 1
  <2> HIDE DEF L, H
  <2> QED BY <1>2, <1>3, <1>4
<1>6. Min({XOf(x) : x \in Cells}) = 0 /\ Max({XOf(x) : x \in Cells}) = Width - 1
  <2>1. Cells = {x \in Cells : XOf(x) \in 0 .. Width - 1}
    BY CellIs
  <2>2. 0 \in Nat /\ Width \in Nat /\ 0 < Width /\ Width <= Width
    BY <1>1
  <2> QED BY <1>4, <2>1, <2>2
<1>7. XOf(c) \in X0(r) .. X1(r) - 1
  BY DEF Owned, Between
<1>8. XOf(c) \in {L, H - 1} <=> XOf(c) \in {0, Width - 1}
  BY <1>1, <1>7
<1> HIDE DEF L, H
<1> QED BY <1>5, <1>6, <1>8

-----------------------------------------------------------------------------
\* What a rank knows of the terrain suffices for the cells of its tile.
LEMMA SameTerrain ==
  ASSUME NEW r \in Ranks, NEW t, NEW p, p = [c \in Padded(r) |-> t[c]]
  PROVE  /\ Undrained(p, Padded(r)) \cap Owned(r) = WholeSd(t) \cap Owned(r)
         /\ \A c \in Owned(r) : LevelNear(p, Padded(r), c) = LevelNear(t, Cells, c)
         /\ Owned(r) \cap Elevated(p, Padded(r)) = Owned(r) \cap Elevated(t, Cells)
         /\ \A c \in Owned(r) : p[c] = t[c]
<1>1. /\ Padded(r) \subseteq Cells /\ Owned(r) \subseteq Padded(r)
      /\ \A c \in Owned(r) : Around(c) \subseteq Padded(r)
  BY PaddedIs
<1>2. \A c \in Owned(r) : p[c] = t[c]
  BY <1>1
<1>3. ASSUME NEW c \in Owned(r) PROVE LevelNear(p, Padded(r), c) = LevelNear(t, Cells, c)
  <2>1. Around(c) \subseteq Padded(r) /\ c \in Padded(r)
    BY <1>1
  <2>2. Near(p, Padded(r), c) = Near(t, Cells, c)
    BY <1>1, <2>1 DEF Near, Elevated
  <2>3. \A n \in Near(t, Cells, c) : p[n] = t[n] /\ p[c] = t[c]
    BY <1>1, <2>1 DEF Near
  <2> QED BY <2>2, <2>3 DEF LevelNear
<1>4. Owned(r) \cap Elevated(p, Padded(r)) = Owned(r) \cap Elevated(t, Cells)
  BY <1>1 DEF Elevated
<1>5. ASSUME NEW c \in Owned(r) PROVE c \in Undrained(p, Padded(r)) <=> c \in WholeSd(t)
  <2> DEFINE edges(w) == {Min({XOf(x) : x \in w}), Max({XOf(x) : x \in w})}
  <2>1. XOf(c) \in edges(Padded(r)) <=> XOf(c) \in edges(Cells)
    BY SameEdges
  <2>2. c \in Padded(r) /\ c \in Cells /\ Around(c) \subseteq Padded(r) /\ Around(c) \subseteq Cells
    BY <1>1
  <2>3. c \in Undrained(p, Padded(r)) <=>
          /\ XOf(c) \notin edges(Padded(r)) /\ YOf(c) \notin {0, Height - 1}
          /\ \A n \in Around(c) : p[n].elev >= p[c].elev
    BY <2>2 DEF Undrained
  <2>4. c \in WholeSd(t) <=>
          /\ XOf(c) \notin edges(Cells) /\ YOf(c) \notin {0, Height - 1}
          /\ \A n \in Around(c) : t[n].elev >= t[c].elev
    BY <2>2 DEF Undrained, WholeSd
  <2>5. \A n \in Around(c) : p[n] = t[n] /\ p[c] = t[c]
    BY <2>2
  <2> HIDE DEF edges
  <2> QED BY <2>1, <2>3, <2>4, <2>5
<1> QED BY <1>2, <1>3, <1>4, <1>5

\* Finitely many values have a greatest.
LEMMA MaxOfFinite ==
  ASSUME NEW S, IsFiniteSet(S), S \subseteq Nat, S # {}
  PROVE  Max(S) \in S /\ \A m \in S : m <= Max(S)
<1> DEFINE F == {s \in SUBSET S : s # {} => \E n \in s : \A m \in s : m <= n}
<1>1. {} \in F
  OBVIOUS
<1>2. ASSUME NEW s \in F, NEW x \in S \ s, s \subseteq S PROVE s \cup {x} \in F
  <2>1. CASE s = {}
    BY <1>2, <2>1
  <2>2. CASE s # {}
    <3>1. PICK n \in s : \A m \in s : m <= n
      BY <1>2, <2>2
    <3>2. n \in Nat /\ x \in Nat /\ \A m \in s : m \in Nat
      BY <1>2
    <3>3. CASE n <= x
      BY <1>2, <3>1, <3>2, <3>3
    <3>4. CASE ~ (n <= x)
      BY <1>2, <3>1, <3>2, <3>4
    <3> QED BY <3>3, <3>4
  <2> QED BY <2>1, <2>2
<1>3. S \in F
  <2> HIDE DEF F
  <2> QED BY <1>1, <1>2, Gathering
<1>4. \E n \in S : \A m \in S : n >= m
  BY <1>3
<1>5. Max(S) \in S /\ \A m \in S : Max(S) >= m
  BY <1>4 DEF Max
<1>6. Max(S) \in Nat
  BY <1>5
<1> QED BY <1>5, <1>6

\* The values at finitely many places are finitely many.
LEMMA FiniteValues ==
  ASSUME NEW S, IsFiniteSet(S), NEW d
  PROVE  IsFiniteSet({d[n] : n \in S})
<1> DEFINE F == {s \in SUBSET S : IsFiniteSet({d[n] : n \in s})}
<1>1. {} \in F
  <2>1. {d[n] : n \in {}} = {}
    OBVIOUS
  <2> QED BY <2>1, FS_EmptySet
<1>2. ASSUME NEW s \in F, NEW x \in S \ s, s \subseteq S PROVE s \cup {x} \in F
  <2>1. {d[n] : n \in s \cup {x}} = {d[n] : n \in s} \cup {d[x]}
    OBVIOUS
  <2>2. IsFiniteSet({d[n] : n \in s})
    BY <1>2
  <2> DEFINE D == {d[n] : n \in s}
  <2>3. IsFiniteSet(D \cup {d[x]})
    <3> HIDE DEF D
    <3> QED BY <2>2, FS_AddElement DEF D
  <2> QED BY <1>2, <2>1, <2>3
<1>3. S \in F
  <2> HIDE DEF F
  <2> QED BY <1>1, <1>2, Gathering
<1> QED BY <1>3

\* A sweep takes a value over from a level neighbour or leaves it; it falls in the
\* distances and rises in the height of a flat.
CellsOf(kind, p, sd, w, own) ==
  IF kind = "height" THEN own \cap Elevated(p, w) ELSE own \cap Flats(p, sd)

IsSweep(kind, p, sd, w, own, d, e) ==
  /\ e \in [w -> Nat]
  /\ \A c \in w \ CellsOf(kind, p, sd, w, own) : e[c] = d[c]
  /\ \A c \in w : IF kind = "height" THEN d[c] <= e[c] ELSE e[c] <= d[c]
  /\ \A c \in CellsOf(kind, p, sd, w, own) : \A n \in LevelNear(p, w, c) :
       e[c] = d[c] => IF kind = "height" THEN d[n] <= d[c] ELSE d[c] <= d[n] + 1

\* What the loop of a relaxation leaves is a sweep: settled within the tile, and the
\* same as before exactly if there was nothing to take over.
LEMMA SweptIs ==
  ASSUME NEW w, IsFiniteSet(w), NEW own, own \subseteq w, NEW kind, NEW p, NEW sd, NEW d \in [w -> Nat],
         NEW e, e = Swept(kind, p, sd, w, own, d)
  PROVE  IsSweep(kind, p, sd, w, own, d, e)
<1>1. \A c : LevelNear(p, w, c) \subseteq w
  BY DEF LevelNear, Near, Elevated
<1>2. CASE kind = "height"
  <2> DEFINE X(c) == {d[c]} \cup {d[n] : n \in LevelNear(p, w, c)}
             cells == own \cap Elevated(p, w)
             new == [c \in w |-> IF c \in cells THEN Max(X(c)) ELSE d[c]]
  <2>1. Swept(kind, p, sd, w, own, d) = new /\ CellsOf(kind, p, sd, w, own) = cells
    BY <1>2 DEF Swept, Higher, CellsOf
  <2>2. ASSUME NEW c \in w PROVE Max(X(c)) \in Nat /\ \A m \in X(c) : m <= Max(X(c))
    <3>1. IsFiniteSet(LevelNear(p, w, c))
      BY <1>1, FS_Subset
    <3>2. IsFiniteSet({d[n] : n \in LevelNear(p, w, c)})
      BY <1>1, <3>1, FiniteValues
    <3>3. IsFiniteSet(X(c))
      <4>1. X(c) = {d[n] : n \in LevelNear(p, w, c)} \cup {d[c]}
        OBVIOUS
      <4> QED BY <3>2, <4>1, FS_AddElement
    <3>4. X(c) \subseteq Nat /\ X(c) # {}
      BY <1>1
    <3> HIDE DEF X
    <3> QED BY <3>3, <3>4, MaxOfFinite
  <2>3. \A c \in w : d[c] \in X(c) /\ \A n \in LevelNear(p, w, c) : d[n] \in X(c)
    OBVIOUS
  <2> HIDE DEF X
  <2>4. new \in [w -> Nat]
    BY <2>2
  <2>5. \A c \in w : d[c] <= new[c]
    <3> TAKE c \in w
    <3>1. d[c] \in Nat /\ d[c] <= Max(X(c))
      BY <2>2, <2>3
    <3> QED BY <3>1
  <2>6. ASSUME NEW c \in cells, NEW n \in LevelNear(p, w, c), new[c] = d[c] PROVE d[n] <= d[c]
    <3>1. c \in w /\ new[c] = Max(X(c))
      OBVIOUS
    <3>2. d[n] <= Max(X(c))
      BY <2>2, <2>3, <3>1
    <3> QED BY <2>6, <3>1, <3>2
  <2>7. \A c \in w \ cells : new[c] = d[c]
    OBVIOUS
  <2> HIDE DEF new, cells
  <2> QED BY <1>2, <2>1, <2>4, <2>5, <2>6, <2>7 DEF IsSweep
<1>3. CASE kind # "height"
  <2> DEFINE X(c) == {d[c]} \cup {d[n] + 1 : n \in LevelNear(p, w, c)}
             cells == own \cap Flats(p, sd)
             new == [c \in w |-> IF c \in cells THEN Min(X(c)) ELSE d[c]]
  <2>1. Swept(kind, p, sd, w, own, d) = new /\ CellsOf(kind, p, sd, w, own) = cells
    BY <1>3 DEF Swept, Nearer, CellsOf
  <2>2. ASSUME NEW c \in w PROVE Min(X(c)) \in Nat /\ \A m \in X(c) : Min(X(c)) <= m
    <3>1. X(c) \subseteq Nat /\ X(c) # {}
      BY <1>1
    <3> HIDE DEF X
    <3> QED BY <3>1, MinOfNats
  <2>3. \A c \in w : d[c] \in X(c) /\ \A n \in LevelNear(p, w, c) : d[n] + 1 \in X(c)
    OBVIOUS
  <2> HIDE DEF X
  <2>4. new \in [w -> Nat]
    BY <2>2
  <2>5. \A c \in w : new[c] <= d[c]
    <3> TAKE c \in w
    <3>1. d[c] \in Nat /\ Min(X(c)) <= d[c]
      BY <2>2, <2>3
    <3> QED BY <3>1
  <2>6. ASSUME NEW c \in cells, NEW n \in LevelNear(p, w, c), new[c] = d[c] PROVE d[c] <= d[n] + 1
    <3>1. c \in w /\ new[c] = Min(X(c))
      OBVIOUS
    <3>2. Min(X(c)) <= d[n] + 1
      BY <2>2, <2>3, <3>1
    <3> QED BY <2>6, <3>1, <3>2
  <2>7. \A c \in w \ cells : new[c] = d[c]
    OBVIOUS
  <2> HIDE DEF new, cells
  <2> QED BY <1>3, <2>1, <2>4, <2>5, <2>6, <2>7 DEF IsSweep
<1> QED BY <1>2, <1>3

\* What a relaxation makes of its values: those beyond the tile stay, and if none
\* has changed the cells of the tile are final under this halo.
IsRelaxed(kind, p, sd, w, own, d, e) ==
  /\ e \in [w -> Nat]
  /\ \A c \in w \ own : e[c] = d[c]
  /\ e = d => \A c \in CellsOf(kind, p, sd, w, own) : \A n \in LevelNear(p, w, c) :
                IF kind = "height" THEN d[n] <= d[c] ELSE d[c] <= d[n] + 1

\* A relaxation that has come back to where it began had nothing to do: as values
\* only fall, or only rise, already its first sweep changed none.
LEMMA ConvergedIs ==
  ASSUME NEW w, IsFiniteSet(w), NEW own, own \subseteq w, own # {}, NEW kind, NEW p, NEW sd,
         NEW d \in [w -> Nat], NEW e, e = Converged(kind, p, sd, w, own, d)
  PROVE  IsRelaxed(kind, p, sd, w, own, d, e)
<1> DEFINE V == [w -> Nat]
           Next1(f) == Swept(kind, p, sd, w, own, f)
           Step == [f \in V |-> Next1(f)]
           N == Cardinality(own)
           seq == [i \in 1 .. N |-> i]
           Is(F) == F = [s \in SUBSET DOMAIN seq |->
                           IF s = {} THEN d
                           ELSE LET new == Swept(kind, p, sd, w, own, F[s \ {Max(s)}])
                                IN  IF new = F[s \ {Max(s)}] THEN F[s \ {Max(s)}] ELSE new]
           it == CHOOSE F : Is(F)
<1>1. N \in Nat /\ N >= 1
  <2>1. IsFiniteSet(own)
    BY FS_Subset
  <2>2. Cardinality(own) \in Nat /\ Cardinality(own) > 0
    BY <2>1, NonEmptyCount
  <2> QED BY <2>2
<1>2. ASSUME NEW f \in V
      PROVE  Next1(f) \in V /\ IsSweep(kind, p, sd, w, own, f, Next1(f))
  <2>1. IsSweep(kind, p, sd, w, own, f, Next1(f))
    BY SweptIs
  <2> QED BY <2>1 DEF IsSweep
<1>3. Step \in [V -> V]
  <2> HIDE DEF Next1, V
  <2> QED BY <1>2
<1>4. DOMAIN seq = 1 .. N
  OBVIOUS
<1>5. PICK F : IsRepeat(F, N, V, d, Step)
  <2> HIDE DEF Step, V, N
  <2>1. d \in V
    BY DEF V
  <2> QED BY <1>1, <1>3, <2>1, RepeatExists
<1>6. Is(F)
  <2>1. F = [s \in SUBSET (1 .. N) |-> F[s]] /\ F[{}] = d
    BY <1>5 DEF IsRepeat
  <2>2. ASSUME NEW s \in SUBSET (1 .. N), s # {}
        PROVE  F[s] = Next1(F[s \ {Max(s)}])
    <3>1. F[s] = Step[F[s \ {Max(s)}]]
      BY <1>5, <2>2 DEF IsRepeat
    <3>2. F[s \ {Max(s)}] \in V
      <4>1. s \ {Max(s)} \in SUBSET (1 .. N)
        OBVIOUS
      <4> HIDE DEF V, N, Step
      <4> QED BY <1>5, <4>1 DEF IsRepeat
    <3> HIDE DEF Next1, V
    <3> QED BY <3>1, <3>2
  <2>3. \A s \in SUBSET (1 .. N) : F[s] = IF s = {} THEN d
                           ELSE LET new == Swept(kind, p, sd, w, own, F[s \ {Max(s)}])
                                IN  IF new = F[s \ {Max(s)}] THEN F[s \ {Max(s)}] ELSE new
    <3> HIDE DEF N, V, Step
    <3> QED BY <2>1, <2>2
  <2> HIDE DEF N, Step, V
  <2> QED BY <1>4, <2>1, <2>3
<1>7. Is(it)
  <2> HIDE DEF Is
  <2> QED BY <1>6
<1>8. it[{}] = d
  BY <1>7, <1>4
<1>9. ASSUME NEW i \in 1 .. N, it[1 .. i - 1] \in V
      PROVE  it[1 .. i] = Step[it[1 .. i - 1]]
  <2>1. 1 .. i # {} /\ Max(1 .. i) = i /\ (1 .. i) \ {i} = 1 .. i - 1
    <3>1. i \in Nat \ {0}
      BY <1>1
    <3> QED BY <3>1, Prefix
  <2>2. 1 .. i \in SUBSET DOMAIN seq
    BY <1>1, <1>4
  <2>3. it[1 .. i] = LET new == Swept(kind, p, sd, w, own, it[(1 .. i) \ {i}])
                     IN  IF new = it[(1 .. i) \ {i}] THEN it[(1 .. i) \ {i}] ELSE new
    <3> HIDE DEF it, seq
    <3> QED BY <1>7, <2>1, <2>2
  <2> HIDE DEF it
  <2>4. it[1 .. i] = Next1(it[1 .. i - 1])
    BY <2>1, <2>3
  <2> HIDE DEF Next1, V
  <2> QED BY <1>9, <2>4
<1>10. e = it[1 .. N]
  BY <1>4 DEF Converged, FoldLeft, MapThenFoldSet
<1>11. PICK g : IsRun(g, N, V, d, Step) /\ g[N] = it[1 .. N]
  <2>1. d \in V
    OBVIOUS
  <2> HIDE DEF it, N, V, Step, Next1, seq, Is
  <2>2. \A i \in 1 .. N : it[1 .. i - 1] \in V => it[1 .. i] = Step[it[1 .. i - 1]]
    BY <1>9
  <2>3. PICK n, W, S, a : n = N /\ W = V /\ S = Step /\ a = it
    OBVIOUS
  <2>4. /\ n \in Nat /\ S \in [W -> W] /\ d \in W /\ a[{}] = d
        /\ \A i \in 1 .. n : a[1 .. i - 1] \in W => a[1 .. i] = S[a[1 .. i - 1]]
    BY <1>1, <1>3, <1>8, <2>1, <2>2, <2>3
  <2>5. \E g : IsRun(g, n, W, d, S) /\ g[n] = a[1 .. n]
    BY <2>4, RunMade
  <2> QED BY <2>3, <2>5
<1>12. e = g[N] /\ g[0] = d /\ \A i \in 0 .. N : g[i] \in V
  <2> HIDE DEF it, N, V, Step
  <2> QED BY <1>10, <1>11 DEF IsRun
<1>13. \A i \in 1 .. N : g[i - 1] \in V /\ g[i] = Next1(g[i - 1])
  <2> TAKE i \in 1 .. N
  <2>1. i - 1 \in 0 .. N
    BY <1>1
  <2>2. g[i - 1] \in V /\ g[i] = Step[g[i - 1]]
    <3> HIDE DEF N, V, Step
    <3> QED BY <1>11, <1>12, <2>1 DEF IsRun
  <2> HIDE DEF V, Next1, N
  <2> QED BY <2>2
<1> HIDE DEF it, Step, seq, Is
<1>14. e \in [w -> Nat]
  <2>1. N \in 0 .. N
    BY <1>1
  <2> HIDE DEF N
  <2> QED BY <1>12, <2>1
<1>15. ASSUME NEW c \in w \ own PROVE e[c] = d[c]
  <2> DEFINE T == {i \in 0 .. N : g[i][c] = d[c]}
  <2>1. 0 \in T
    BY <1>1, <1>12
  <2>2. ASSUME NEW i \in 0 .. N - 1, i \in T PROVE i + 1 \in T
    <3>1. i + 1 \in 1 .. N /\ i + 1 \in 0 .. N /\ (i + 1) - 1 = i
      BY <1>1
    <3>2. g[i] \in V /\ g[i + 1] = Next1(g[i])
      BY <1>13, <3>1
    <3>3. c \in w \ CellsOf(kind, p, sd, w, own)
      BY DEF CellsOf
    <3>4. Next1(g[i])[c] = g[i][c]
      <4> HIDE DEF Next1, V
      <4> QED BY <1>2, <3>2, <3>3 DEF IsSweep
    <3> HIDE DEF Next1, V, N
    <3> QED BY <2>2, <3>1, <3>2, <3>4
  <2>3. N \in T
    <3> HIDE DEF T, N
    <3>1. 0 .. N \subseteq T
      BY <1>1, <2>1, <2>2, Upwards
    <3> QED BY <1>1, <3>1
  <2> HIDE DEF N
  <2> QED BY <1>12, <2>3
<1>16. ASSUME e = d, NEW c \in w PROVE Next1(d)[c] = d[c]
  <2> DEFINE Beyond(i) == IF kind = "height" THEN g[1][c] <= g[i][c] ELSE g[i][c] <= g[1][c]
             T == {i \in 0 .. N : i >= 1 => Beyond(i)}
  <2>1. \A i \in 0 .. N : g[i] \in V /\ g[i][c] \in Nat
    BY <1>12
  <2>2. 0 \in T
    BY <1>1
  <2>3. ASSUME NEW i \in 0 .. N - 1, i \in T PROVE i + 1 \in T
    <3>1. i + 1 \in 1 .. N /\ i + 1 \in 0 .. N /\ (i + 1) - 1 = i /\ i \in 0 .. N /\ 1 \in 0 .. N
      BY <1>1
    <3>2. g[i] \in V /\ g[i + 1] = Next1(g[i])
      BY <1>13, <3>1
    <3>3. IF kind = "height" THEN g[i][c] <= g[i + 1][c] ELSE g[i + 1][c] <= g[i][c]
      <4> HIDE DEF Next1, V
      <4> QED BY <1>2, <3>2 DEF IsSweep
    <3>4. g[i][c] \in Nat /\ g[i + 1][c] \in Nat /\ g[1][c] \in Nat
      BY <2>1, <3>1
    <3>5. CASE i = 0
      <4>1. i + 1 = 1
        BY <3>5
      <4>2. Beyond(i + 1)
        BY <3>4, <4>1
      <4> HIDE DEF Beyond
      <4> QED BY <3>1, <4>2
    <3>6. CASE i # 0
      <4>1. Beyond(i)
        BY <2>3, <3>1, <3>6
      <4>2. Beyond(i + 1)
        BY <3>3, <3>4, <4>1
      <4> HIDE DEF Beyond
      <4> QED BY <3>1, <4>2
    <3> QED BY <3>5, <3>6
  <2>4. Beyond(N)
    <3>1. N \in T
      <4> HIDE DEF T, N
      <4>1. 0 .. N \subseteq T
        BY <1>1, <2>2, <2>3, Upwards
      <4> QED BY <1>1, <4>1
    <3> HIDE DEF Beyond
    <3> QED BY <1>1, <3>1
  <2>5. 1 \in 1 .. N /\ 1 - 1 = 0 /\ 0 \in 0 .. N /\ 1 \in 0 .. N
    BY <1>1
  <2>6. g[1] = Next1(d) /\ g[N] = d /\ d \in V
    BY <1>12, <1>13, <1>16, <2>5
  <2>7. IF kind = "height" THEN d[c] <= Next1(d)[c] ELSE Next1(d)[c] <= d[c]
    <3> HIDE DEF Next1, V
    <3> QED BY <1>2, <2>6 DEF IsSweep
  <2>8. d[c] \in Nat /\ g[1][c] \in Nat
    BY <2>1, <2>5
  <2> HIDE DEF Next1
  <2> QED BY <2>4, <2>6, <2>7, <2>8
<1>17. ASSUME e = d, NEW c \in CellsOf(kind, p, sd, w, own), NEW n \in LevelNear(p, w, c)
       PROVE  IF kind = "height" THEN d[n] <= d[c] ELSE d[c] <= d[n] + 1
  <2>1. c \in w
    BY DEF CellsOf
  <2>2. Next1(d)[c] = d[c]
    BY <1>16, <1>17, <2>1
  <2>3. d \in V
    OBVIOUS
  <2> HIDE DEF Next1, V
  <2> QED BY <1>2, <2>2, <2>3 DEF IsSweep
<1> QED BY <1>14, <1>15, <1>17 DEF IsRelaxed

-----------------------------------------------------------------------------
\* The keys tell sender, receiver and kind of message.
LEMMA KeysDiffer ==
  /\ \A s, r, q, t \in Ranks : Seam(s, r) = Seam(q, t) => s = q /\ r = t
  /\ \A s, r \in Ranks : \A t : Seam(s, r) # <<t, 0, "chg">> /\ Seam(s, r) # <<0, t, "cont">>
  /\ \A s, r \in Ranks : Seam(s, r)[2] = r
  /\ \A t, u : <<t, 0, "chg">> # <<0, u, "cont">>
BY DEF Seam

\* What is waiting after one exchange's sends.
IsShipped(m, new, r, name, values) ==
  /\ IsMail(new) /\ DOMAIN new \subseteq Keys
  /\ \A s, t \in Ranks :
       Waiting(new, Seam(s, t)) =
         IF s = r /\ t \in Beside(r)
         THEN Append(Waiting(m, Seam(s, t)),
                     [array |-> name, number |-> count[r] + 1, column |-> Restrict(values, Facing(r, t))])
         ELSE Waiting(m, Seam(s, t))
  /\ \A t : /\ Waiting(new, <<t, 0, "chg">>) = Waiting(m, <<t, 0, "chg">>)
            /\ Waiting(new, <<0, t, "cont">>) = Waiting(m, <<0, t, "cont">>)

\* What Ship does to the messages under way.
LEMMA Shipping ==
  ASSUME NEW m, IsMail(m), DOMAIN m \subseteq Keys, NEW r \in Ranks, NEW name, NEW values,
         NEW new, new = Ship(m, r, name, values)
  PROVE  IsShipped(m, new, r, name, values)
<1> DEFINE ks == {Seam(r, s) : s \in Beside(r)}
           msgs == [key \in ks |->
             [array |-> name, number |-> count[r] + 1, column |-> Restrict(values, Facing(r, key[2]))]]
<1>1. new = Sent(m, msgs) /\ DOMAIN msgs = ks
  BY DEF Ship
<1>2. Beside(r) \subseteq Ranks
  BY DEF Beside
<1>3. ks \subseteq Keys
  BY <1>2 DEF Keys
<1>4. \A t \in Beside(r) : msgs[Seam(r, t)] = [array |-> name, number |-> count[r] + 1,
                                               column |-> Restrict(values, Facing(r, t))]
  BY <1>2, KeysDiffer
<1>5. \A s, t \in Ranks : Seam(s, t) \in ks <=> s = r /\ t \in Beside(r)
  BY <1>2, KeysDiffer
<1>6. \A t : <<t, 0, "chg">> \notin ks /\ <<0, t, "cont">> \notin ks
  BY <1>2, KeysDiffer
<1> HIDE DEF msgs, ks
<1>7. /\ IsMail(new) /\ DOMAIN new = DOMAIN m \cup ks
      /\ \A key : Waiting(new, key) = IF key \in ks THEN Append(Waiting(m, key), msgs[key]) ELSE Waiting(m, key)
  <2>1. PICK f : f = msgs
    OBVIOUS
  <2>2. new = Sent(m, f) /\ DOMAIN f = ks
    BY <1>1, <2>1
  <2>3. IsMail(Sent(m, f)) /\ DOMAIN Sent(m, f) = DOMAIN m \cup DOMAIN f
    BY SentIs
  <2>4. \A key : Waiting(Sent(m, f), key) = IF key \in DOMAIN f THEN Append(Waiting(m, key), f[key]) ELSE Waiting(m, key)
    BY SentIs
  <2> QED BY <2>1, <2>2, <2>3, <2>4
<1>8. ASSUME NEW s \in Ranks, NEW t \in Ranks
      PROVE  Waiting(new, Seam(s, t)) =
                IF s = r /\ t \in Beside(r)
                THEN Append(Waiting(m, Seam(s, t)),
                            [array |-> name, number |-> count[r] + 1, column |-> Restrict(values, Facing(r, t))])
                ELSE Waiting(m, Seam(s, t))
  BY <1>4, <1>5, <1>7
<1> QED BY <1>3, <1>6, <1>7, <1>8 DEF IsShipped

\* The same after its receives.
LEMMA Taking ==
  ASSUME IsMail(mail), DOMAIN mail \subseteq Keys, NEW r \in Ranks, Receiving(r), Has(mail, Awaited(r)),
         NEW m, m = Receive(mail, Awaited(r))
  PROVE  /\ IsMail(m) /\ DOMAIN m \subseteq Keys
         /\ \A s, t \in Ranks :
              Waiting(m, Seam(s, t)) = IF t = r /\ s \in Beside(r) THEN Tail(Columns(s, t)) ELSE Columns(s, t)
         /\ \A s \in Beside(r) : Columns(s, r) # <<>> /\ First(mail, Seam(s, r)) = Columns(s, r)[1]
         /\ \A t : /\ Waiting(m, <<t, 0, "chg">>) = Waiting(mail, <<t, 0, "chg">>)
                   /\ Waiting(m, <<0, t, "cont">>) = Waiting(mail, <<0, t, "cont">>)
<1> DEFINE ks == {Seam(s, r) : s \in Beside(r)}
<1>1. Awaited(r) = ks
  BY DEF Awaited, Receiving
<1>2. Beside(r) \subseteq Ranks
  BY DEF Beside
<1>5. \A s, t \in Ranks : Seam(s, t) \in ks <=> t = r /\ s \in Beside(r)
  BY <1>2, KeysDiffer
<1>6. \A t : <<t, 0, "chg">> \notin ks /\ <<0, t, "cont">> \notin ks
  BY <1>2, KeysDiffer
<1>7. \A s \in Beside(r) : Seam(s, r) \in DOMAIN mail
  BY <1>1 DEF Has
<1> HIDE DEF ks
<1>8. /\ IsMail(m) /\ DOMAIN m \subseteq DOMAIN mail
      /\ \A key : Waiting(m, key) = IF key \in ks THEN Tail(Waiting(mail, key)) ELSE Waiting(mail, key)
  BY <1>1, ReceiveIs
<1>9. \A s \in Beside(r) : Columns(s, r) # <<>> /\ First(mail, Seam(s, r)) = Columns(s, r)[1]
  BY <1>7, WaitingIs DEF Columns
<1> QED BY <1>5, <1>6, <1>8, <1>9 DEF Columns

-----------------------------------------------------------------------------
\* A segment's parts.
LEMMA SegmentIs ==
  ASSUME NEW g \in Segments
  PROVE  /\ g.b \in Nat /\ g.k \in {"start", "go", "leave", "mask"} /\ g.f \in Fields \cup {"mask"}
         /\ g.k = "start" => g.b = 0 /\ g.f = "away"
         /\ g.k = "go" => g.f \in Fields
         /\ g.k = "leave" => g.f \in {"towards", "height"}
         /\ g.k = "mask" <=> g.f = "mask"
         /\ End(g) \in Nat /\ g.b < End(g)
BY DEF Segments, Fields, End

\* How far two neighbours are apart.
LEMMA Apart ==
  ASSUME NEW g \in Segments, Shapes, Shared(g), NEW r \in Ranks, NEW s \in Beside(r)
  PROVE  /\ Received(s) \in Int /\ Received(s) <= count[r] /\ Received(s) >= g.b
         /\ Len(Columns(r, s)) = count[r] - Received(s)
         /\ count[r] \in Nat /\ count[r] <= End(g)
         /\ Voting(g, s) => count[r] = End(g)
         /\ Sweeping(g, s) => count[r] >= End(g) - 1
<1>1. s \in Ranks /\ r \in Beside(s)
  BY PaddedIs
<1>2. ColumnsAre(g, r, s) /\ Placed(g, s) /\ Placed(g, r)
  BY <1>1 DEF Shared
<1>3. count[s] \in Nat /\ count[r] \in Nat /\ IsMail(mail)
  BY <1>1 DEF Shapes
<1>4. Len(Columns(r, s)) \in Nat /\ Len(Columns(r, s)) = count[r] - Received(s)
  BY <1>2, <1>3, WaitingIs, QueueIs DEF ColumnsAre, Columns
<1>5. Received(s) \in Int
  BY <1>3 DEF Received
<1>6. /\ g.b \in Nat /\ g.k \in {"start", "go", "leave", "mask"}
      /\ g.k = "start" => g.b = 0
      /\ End(g) = IF g.k = "start" THEN 4 ELSE IF g.k = "leave" THEN g.b + 2 ELSE g.b + 1
  BY SegmentIs DEF End
<1>7. Received(s) >= g.b
  BY <1>2, <1>3, <1>6 DEF Placed, Early, Entering, Sweeping, Voting, Behind, Masking, Received, Receiving
<1>8. count[r] <= End(g)
  BY <1>2, <1>3, <1>6 DEF Placed, Early, Entering, Sweeping, Voting, Behind, Masking
<1>9. Voting(g, s) => Received(s) = End(g)
  BY DEF Voting, Received, Receiving
<1>10. Sweeping(g, s) => Received(s) = End(g) - 1
  BY DEF Sweeping, Received, Receiving
<1> QED BY <1>3, <1>4, <1>5, <1>6, <1>7, <1>8, <1>9, <1>10

\* Steps of one rank.
OthersStay(r) ==
  /\ dem' = dem
  /\ \A q \in Ranks \ {r} : /\ pc'[q] = pc[q] /\ count'[q] = count[q] /\ field'[q] = field[q]
                            /\ changed'[q] = changed[q] /\ arr'[q] = arr[q]

\* The columns a rank takes.
LEMMA ColumnsIn ==
  ASSUME NEW g \in Segments, Shapes, NEW s \in Ranks, NEW r \in Ranks, ColumnsAre(g, s, r), NEW took \in BOOLEAN,
         dem' = dem, arr'[s] = arr[s], changed'[s] = changed[s], count'[s] = count[s],
         Columns(s, r)' = IF took THEN Tail(Columns(s, r)) ELSE Columns(s, r),
         took => Columns(s, r) # <<>>,
         Received(r)' = Received(r) + IF took THEN 1 ELSE 0
  PROVE  ColumnsAre(g, s, r)'
<1>1. IsQueue(Columns(s, r))
  BY WaitingIs DEF Shapes, Columns
<1>2. PICK q, p, k, j : q = Columns(s, r) /\ p = Columns(s, r)' /\ k = Received(r) /\ j = Received(r)'
  OBVIOUS
<1>3. Len(q) \in Nat /\ DOMAIN q = 1 .. Len(q)
  BY <1>1, <1>2, QueueIs
<1>4. k \in Int /\ Len(q) = count[s] - k /\ \A i \in DOMAIN q : ColumnIs(g, s, r, q[i], k + i)
  BY <1>2 DEF ColumnsAre, Received, Shapes
<1>5. \A m, n : ColumnIs(g, s, r, m, n) => ColumnIs(g, s, r, m, n)'
  BY DEF ColumnIs
<1>6. CASE took
  <2>0. j = k + 1
    BY <1>2, <1>6
  <2>1. /\ p = Tail(q) /\ IsQueue(p) /\ Len(p) = Len(q) - 1 /\ \A i \in 1 .. Len(q) - 1 : p[i] = q[i + 1]
    BY <1>1, <1>2, <1>6, TailIs
  <2>2. DOMAIN p = 1 .. Len(q) - 1
    BY <2>1, QueueIs
  <2>3. \A i \in DOMAIN p : ColumnIs(g, s, r, p[i], j + i)
    <3>1. ASSUME NEW i \in DOMAIN p PROVE ColumnIs(g, s, r, p[i], j + i)
      <4>1. i + 1 \in DOMAIN q /\ p[i] = q[i + 1] /\ k + (i + 1) = j + i
        <5>1. i \in 1 .. Len(q) - 1 /\ i + 1 \in DOMAIN q
          BY <1>3, <2>2
        <5>2. k + (i + 1) = j + i
          BY <1>4, <2>0, <5>1
        <5> QED BY <2>1, <5>1, <5>2
      <4> QED BY <1>4, <4>1
    <3> QED BY <3>1
  <2>4. Len(p) = count[s] - j
    BY <1>2, <1>3, <1>4, <1>6, <2>1 DEF Shapes
  <2> QED BY <1>2, <1>5, <2>3, <2>4 DEF ColumnsAre
<1>7. CASE ~ took
  <2>1. p = q /\ j = k
    BY <1>2, <1>4, <1>7
  <2> QED BY <1>2, <1>4, <1>5, <2>1 DEF ColumnsAre
<1> QED BY <1>6, <1>7

\* The columns a rank sends.
LEMMA ColumnsOut ==
  ASSUME NEW g \in Segments, Shapes, NEW r \in Ranks, NEW s \in Ranks, ColumnsAre(g, r, s), NEW shipped \in BOOLEAN,
         NEW msg, NEW no, no = count[r] + 1, dem' = dem, Received(s)' = Received(s),
         count'[r] = count[r] + IF shipped THEN 1 ELSE 0,
         Columns(r, s)' = IF shipped THEN Append(Columns(r, s), msg) ELSE Columns(r, s),
         shipped => ColumnIs(g, r, s, msg, no)',
         \A n \in Int : n > Received(s) /\ n <= count[r] /\ ArrayAt(g, n) \in Fields /\ (n = count'[r] \/ ~ changed'[r])
            => /\ n = count[r] \/ ~ changed[r]
               /\ \A c \in Facing(r, s) : arr'[r][g.f][c] = arr[r][g.f][c]
  PROVE  ColumnsAre(g, r, s)'
<1>1. IsQueue(Columns(r, s))
  BY WaitingIs DEF Shapes, Columns
<1>2. PICK q, p, k : q = Columns(r, s) /\ p = Columns(r, s)' /\ k = Received(s)
  OBVIOUS
<1>3. Len(q) \in Nat /\ DOMAIN q = 1 .. Len(q)
  BY <1>1, <1>2, QueueIs
<1>4. k \in Int /\ Len(q) = count[r] - k /\ count[r] \in Nat /\ \A i \in DOMAIN q : ColumnIs(g, r, s, q[i], k + i)
  BY <1>2 DEF ColumnsAre, Received, Shapes
<1>5. ASSUME NEW i \in DOMAIN q PROVE ColumnIs(g, r, s, q[i], k + i)'
  <2>1. PICK m, n : m = q[i] /\ n = k + i
    OBVIOUS
  <2>2. n \in Int /\ n > k /\ n <= count[r] /\ ColumnIs(g, r, s, m, n)
    BY <1>3, <1>4, <2>1
  <2>3. ASSUME m.array \in Fields, n = count'[r] \/ ~ changed'[r], NEW c \in Facing(r, s)
        PROVE  m.column[c] = arr'[r][g.f][c]
    <3>1. ArrayAt(g, n) \in Fields
      BY <2>2, <2>3 DEF ColumnIs
    <3>2. (n = count[r] \/ ~ changed[r]) /\ arr'[r][g.f][c] = arr[r][g.f][c]
      BY <1>2, <2>2, <2>3, <3>1
    <3> QED BY <2>2, <2>3, <3>2 DEF ColumnIs
  <2>4. ColumnIs(g, r, s, m, n)'
    BY <2>2, <2>3 DEF ColumnIs
  <2> QED BY <2>1, <2>4
<1>6. CASE shipped
  <2>1. /\ p = Append(q, msg) /\ IsQueue(p) /\ Len(p) = Len(q) + 1 /\ \A i \in 1 .. Len(q) : p[i] = q[i]
        /\ p[Len(q) + 1] = msg
    BY <1>1, <1>2, <1>6, Appended
  <2>2. DOMAIN p = 1 .. Len(q) + 1
    BY <2>1, QueueIs
  <2>3. ASSUME NEW i \in DOMAIN p PROVE ColumnIs(g, r, s, p[i], k + i)'
    <3>1. CASE i \in DOMAIN q
      BY <1>3, <1>5, <2>1, <3>1
    <3>2. CASE i \notin DOMAIN q
      <4>1. PICK m, n : m = p[i] /\ n = k + i
        OBVIOUS
      <4>2. m = msg /\ n = no
        <5>1. i = Len(q) + 1
          BY <1>3, <2>2, <3>2
        <5>2. k + i = no
          BY <1>4, <5>1
        <5> QED BY <2>1, <4>1, <5>1, <5>2, Zenon
      <4>5. ColumnIs(g, r, s, m, n)'
        BY <1>6, <4>2
      <4> QED BY <4>1, <4>5
    <3> QED BY <3>1, <3>2
  <2>4. Len(p) = count'[r] - k
    BY <1>3, <1>4, <1>6, <2>1
  <2> QED BY <1>2, <2>3, <2>4 DEF ColumnsAre
<1>7. CASE ~ shipped
  <2>1. p = q /\ count'[r] = count[r]
    BY <1>2, <1>4, <1>7
  <2> QED BY <1>2, <1>4, <1>5, <2>1 DEF ColumnsAre
<1> QED BY <1>6, <1>7

\* The mail of a step: a column less from every neighbour, or one more for each.
MailIs(r, took, shipped, name, values) ==
  /\ \A s \in Beside(r) :
       /\ Columns(s, r)' = IF took THEN Tail(Columns(s, r)) ELSE Columns(s, r)
       /\ took => Columns(s, r) # <<>>
       /\ Columns(r, s)' =
            IF shipped
            THEN Append(Columns(r, s),
                        [array |-> name, number |-> count[r] + 1, column |-> Restrict(values, Facing(r, s))])
            ELSE Columns(r, s)
  /\ \A s, t \in Ranks \ {r} : Columns(s, t)' = Columns(s, t)

\* What a rank sends is its edge after the step.
Published(g, r, name, values) ==
  /\ name = ArrayAt(g, count[r] + 1)
  /\ \A s \in Beside(r) : \A c \in Facing(r, s) :
       /\ name = "dem" => values[c] = dem[c]
       /\ name \in Fields => values[c] \in Nat /\ arr'[r][g.f][c] = values[c]

\* Without a change reported, columns sent before are still the edge.
StillPublished(g, r) ==
  \A s \in Beside(r) : \A n \in Int :
     n > Received(s) /\ n <= count[r] /\ ArrayAt(g, n) \in Fields /\ (n = count'[r] \/ ~ changed'[r])
       => /\ n = count[r] \/ ~ changed[r]
          /\ \A c \in Facing(r, s) : arr'[r][g.f][c] = arr[r][g.f][c]

\* A step of one rank within a segment.
LEMMA Moves ==
  ASSUME NEW g \in Segments, Shapes, Shared(g), NEW r \in Ranks, OthersStay(r),
         NEW took \in BOOLEAN, NEW shipped \in BOOLEAN, NEW name, NEW values,
         MailIs(r, took, shipped, name, values),
         count'[r] = count[r] + IF shipped THEN 1 ELSE 0,
         Received(r)' = Received(r) + IF took THEN 1 ELSE 0,
         shipped => Published(g, r, name, values),
         StillPublished(g, r),
         Placed(g, r)', ArraysAre(r)', StillIs(g, r)', VotesAre(g)',
         \A s \in Beside(r) : HaloIs(g, r, s)' /\ HaloIs(g, s, r)',
         \A s \in Beside(r) : Voting(g, s) /\ ~ changed'[r] => ~ changed[r],
         \A f \in Before(g.f) : \A c \in Owned(r) : arr'[r][f][c] = arr[r][f][c]
  PROVE  Shared(g)'
<1>1. \A s \in Beside(r) : s \in Ranks /\ s # r /\ r \in Beside(s)
  BY PaddedIs
<1>2. dem' = dem
  BY DEF OthersStay
<1>3. ASSUME NEW s \in Beside(r) PROVE ColumnsAre(g, s, r)'
  <2>1. s \in Ranks /\ ColumnsAre(g, s, r)
    BY <1>1 DEF Shared
  <2>2. arr'[s] = arr[s] /\ changed'[s] = changed[s] /\ count'[s] = count[s]
    BY <1>1 DEF OthersStay
  <2>3. Columns(s, r)' = (IF took THEN Tail(Columns(s, r)) ELSE Columns(s, r)) /\ (took => Columns(s, r) # <<>>)
    BY DEF MailIs
  <2> QED BY <1>2, <2>1, <2>2, <2>3, ColumnsIn
<1>4. ASSUME NEW s \in Beside(r) PROVE ColumnsAre(g, r, s)'
  <2>1. s \in Ranks /\ r \in Beside(s)
    BY <1>1
  <2>2. ColumnsAre(g, r, s)
    BY <2>1 DEF Shared
  <2>3. Received(s)' = Received(s)
    BY <1>1 DEF OthersStay, Received, Receiving
  <2>4. PICK msg, no : no = count[r] + 1 /\ msg = [array |-> name, number |-> no, column |-> Restrict(values, Facing(r, s))]
    OBVIOUS
  <2>5. Columns(r, s)' = IF shipped THEN Append(Columns(r, s), msg) ELSE Columns(r, s)
    BY <2>4 DEF MailIs
  <2>6. shipped => ColumnIs(g, r, s, msg, no)'
    <3>1. \A c \in Facing(r, s) : msg.column[c] = values[c]
      BY <2>4 DEF Restrict
    <3>2. ASSUME shipped PROVE ColumnIs(g, r, s, msg, no)'
      <4>1. Published(g, r, name, values)
        BY <3>2
      <4> QED BY <1>2, <2>4, <3>1, <4>1 DEF ColumnIs, Published
    <3> QED BY <3>2
  <2>7. \A n \in Int : n > Received(s) /\ n <= count[r] /\ ArrayAt(g, n) \in Fields /\ (n = count'[r] \/ ~ changed'[r])
            => /\ n = count[r] \/ ~ changed[r]
               /\ \A c \in Facing(r, s) : arr'[r][g.f][c] = arr[r][g.f][c]
    BY DEF StillPublished
  <2> QED BY <1>2, <2>1, <2>2, <2>3, <2>4, <2>5, <2>6, <2>7, ColumnsOut
<1>5. ASSUME NEW q \in Ranks \ {r} PROVE Placed(g, q)' /\ ArraysAre(q)' /\ StillIs(g, q)'
  <2>0. /\ pc'[q] = pc[q] /\ count'[q] = count[q] /\ field'[q] = field[q] /\ changed'[q] = changed[q]
        /\ arr'[q] = arr[q]
    BY DEF OthersStay
  <2>1. Placed(g, q) /\ ArraysAre(q) /\ StillIs(g, q)
    BY DEF Shared
  <2>2. Placed(g, q)'
    BY <2>0, <2>1 DEF Placed, Early, Entering, Sweeping, Voting, Behind, Masking
  <2>3. ArraysAre(q)'
    BY <1>2, <2>0, <2>1 DEF ArraysAre
  <2>4. StillIs(g, q)'
    <3>1. Still(g.f, q)' <=> Still(g.f, q)
      BY <1>2, <2>0 DEF Still, Worked, Level, FlatCells
    <3>2. Sweeping(g, q)' <=> Sweeping(g, q)
      BY <2>0 DEF Sweeping
    <3>3. Voting(g, q)' <=> Voting(g, q)
      BY <2>0 DEF Voting
    <3>4. ASSUME NEW s \in Beside(q), Voting(g, q), ~ changed'[s] PROVE ~ changed[s]
      <4>1. s \in Ranks /\ q \in Beside(s)
        BY PaddedIs
      <4>2. CASE s = r
        BY <3>4, <4>1, <4>2
      <4>3. CASE s # r
        BY <3>4, <4>1, <4>3 DEF OthersStay
      <4> QED BY <4>2, <4>3
    <3>5. Voting(g, q) /\ (\A s \in Beside(q) : ~ changed'[s]) => \A s \in Beside(q) : ~ changed[s]
      BY <3>4
    <3> QED BY <2>0, <2>1, <3>1, <3>2, <3>3, <3>5 DEF StillIs
  <2> QED BY <2>2, <2>3, <2>4
<1>6. ASSUME NEW q \in Ranks, NEW s \in Beside(q) PROVE ColumnsAre(g, s, q)' /\ HaloIs(g, q, s)'
  <2>0. s \in Ranks /\ q \in Beside(s)
    BY PaddedIs
  <2>1. CASE q = r
    BY <1>3, <2>1
  <2>2. CASE s = r
    BY <1>4, <2>0, <2>2
  <2>3. CASE q # r /\ s # r
    <3>1. ColumnsAre(g, s, q) /\ HaloIs(g, q, s)
      BY DEF Shared
    <3>2. \A x \in {q, s} : /\ pc'[x] = pc[x] /\ count'[x] = count[x] /\ field'[x] = field[x]
                            /\ changed'[x] = changed[x] /\ arr'[x] = arr[x]
      BY <2>0, <2>3 DEF OthersStay
    <3>3. Columns(s, q)' = Columns(s, q)
      BY <2>0, <2>3 DEF MailIs
    <3>4. Received(q)' = Received(q)
      BY <3>2 DEF Received, Receiving
    <3>5. ColumnsAre(g, s, q)'
      <4>1. \A m, n : ColumnIs(g, s, q, m, n)' <=> ColumnIs(g, s, q, m, n)
        BY <1>2, <3>2 DEF ColumnIs
      <4>2. PICK k, cs : k = Received(q) /\ cs = Columns(s, q)
        OBVIOUS
      <4>3. Len(cs) = count[s] - k /\ \A i \in DOMAIN cs : ColumnIs(g, s, q, cs[i], k + i)
        BY <3>1, <4>2 DEF ColumnsAre
      <4>4. \A i \in DOMAIN cs : ColumnIs(g, s, q, cs[i], k + i)'
        BY <4>1, <4>3
      <4> QED BY <3>2, <3>3, <3>4, <4>2, <4>3, <4>4 DEF ColumnsAre
    <3>6. HaloIs(g, q, s)'
      BY <3>1, <3>2 DEF HaloIs, Sweeping, Behind, Voting, Sees
    <3> QED BY <3>5, <3>6
  <2> QED BY <2>1, <2>2, <2>3
<1>7. ASSUME NEW f \in Before(g.f) PROVE Final(f)'
  <2>1. Final(f)
    BY DEF Shared
  <2>2. Joint(f)' = Joint(f)
    <3>1. ASSUME NEW c \in Cells PROVE arr'[TileOf(c)][f][c] = arr[TileOf(c)][f][c]
      <4>1. TileOf(c) \in Ranks /\ c \in Owned(TileOf(c))
        BY TileIs
      <4> QED BY <4>1 DEF OthersStay
    <3> QED BY <3>1 DEF Joint
  <2>3. \A d : \A c : Level(f, d, c)' <=> Level(f, d, c)
    BY <1>2 DEF Level
  <2> QED BY <1>2, <2>1, <2>2, <2>3 DEF Final, Worked, Level, FlatCells
<1> QED BY <1>5, <1>6, <1>7 DEF Shared

-----------------------------------------------------------------------------
\* The mail of an exchange, of the rank's own receives and sends.
LEMMA MailMoves ==
  ASSUME Shapes, NEW r \in Ranks, NEW took \in BOOLEAN, NEW shipped \in BOOLEAN, NEW name, NEW values,
         took => Receiving(r) /\ Has(mail, Awaited(r)),
         NEW m, m = IF took THEN Receive(mail, Awaited(r)) ELSE mail,
         mail' = IF shipped THEN Ship(m, r, name, values) ELSE m
  PROVE  /\ MailIs(r, took, shipped, name, values)
         /\ IsMail(mail)' /\ DOMAIN mail' \subseteq Keys
         /\ \A t : /\ Waiting(mail, <<t, 0, "chg">>)' = Waiting(mail, <<t, 0, "chg">>)
                   /\ Waiting(mail, <<0, t, "cont">>)' = Waiting(mail, <<0, t, "cont">>)
<1>0. /\ \A s \in Beside(r) : s \in Ranks /\ s # r /\ r \in Beside(s)
      /\ IsMail(mail) /\ DOMAIN mail \subseteq Keys
  BY PaddedIs DEF Shapes
<1>1. /\ IsMail(m) /\ DOMAIN m \subseteq Keys
      /\ \A s, t \in Ranks :
           Waiting(m, Seam(s, t)) = IF took /\ t = r /\ s \in Beside(r) THEN Tail(Columns(s, t)) ELSE Columns(s, t)
      /\ took => \A s \in Beside(r) : Columns(s, r) # <<>>
      /\ \A t : /\ Waiting(m, <<t, 0, "chg">>) = Waiting(mail, <<t, 0, "chg">>)
                /\ Waiting(m, <<0, t, "cont">>) = Waiting(mail, <<0, t, "cont">>)
  <2>1. CASE took
    BY <1>0, <2>1, Taking
  <2>2. CASE ~ took
    BY <1>0, <2>2 DEF Columns
  <2> QED BY <2>1, <2>2
<1>2. /\ IsMail(mail)' /\ DOMAIN mail' \subseteq Keys
      /\ \A s, t \in Ranks :
              Waiting(mail, Seam(s, t))' =
                IF shipped /\ s = r /\ t \in Beside(r)
                THEN Append(Waiting(m, Seam(s, t)),
                            [array |-> name, number |-> count[r] + 1, column |-> Restrict(values, Facing(r, t))])
                ELSE Waiting(m, Seam(s, t))
      /\ \A t : /\ Waiting(mail, <<t, 0, "chg">>)' = Waiting(m, <<t, 0, "chg">>)
                /\ Waiting(mail, <<0, t, "cont">>)' = Waiting(m, <<0, t, "cont">>)
  <2>1. CASE shipped
    <3>1. PICK new : new = Ship(m, r, name, values)
      OBVIOUS
    <3>2. /\ IsMail(new) /\ DOMAIN new \subseteq Keys
          /\ \A s, t \in Ranks :
              Waiting(new, Seam(s, t)) =
                IF s = r /\ t \in Beside(r)
                THEN Append(Waiting(m, Seam(s, t)),
                            [array |-> name, number |-> count[r] + 1, column |-> Restrict(values, Facing(r, t))])
                ELSE Waiting(m, Seam(s, t))
          /\ \A t : /\ Waiting(new, <<t, 0, "chg">>) = Waiting(m, <<t, 0, "chg">>)
                    /\ Waiting(new, <<0, t, "cont">>) = Waiting(m, <<0, t, "cont">>)
      <4>1. IsShipped(m, new, r, name, values)
        BY <1>1, <3>1, Shipping
      <4> QED BY <4>1 DEF IsShipped
    <3>3. mail' = new
      BY <2>1, <3>1
    <3>4. (\A k : Waiting(mail, k)' = Waiting(new, k)) /\ (IsMail(mail)' <=> IsMail(new))
      BY <3>3 DEF Waiting, IsMail, IsQueue
    <3>5. \A s, t : Seam(s, t)' = Seam(s, t)
      BY DEF Seam
    <3> QED BY <2>1, <3>2, <3>3, <3>4, <3>5
  <2>2. CASE ~ shipped
    <3>1. mail' = m
      BY <2>2
    <3>2. (\A k : Waiting(mail, k)' = Waiting(m, k)) /\ (IsMail(mail)' <=> IsMail(m))
      BY <3>1 DEF Waiting, IsMail, IsQueue
    <3> QED BY <1>1, <2>2, <3>1, <3>2
  <2> QED BY <2>1, <2>2
<1>3. MailIs(r, took, shipped, name, values)
  <2>1. ASSUME NEW s \in Beside(r)
        PROVE  /\ Columns(s, r)' = IF took THEN Tail(Columns(s, r)) ELSE Columns(s, r)
               /\ took => Columns(s, r) # <<>>
               /\ Columns(r, s)' =
                    IF shipped
                    THEN Append(Columns(r, s),
                                [array |-> name, number |-> count[r] + 1, column |-> Restrict(values, Facing(r, s))])
                    ELSE Columns(r, s)
    <3>1. s \in Ranks /\ s # r
      BY <1>0
    <3>2. Waiting(m, Seam(r, s)) = Columns(r, s)
      BY <1>1, <3>1
    <3>3. Waiting(m, Seam(s, r)) = IF took THEN Tail(Columns(s, r)) ELSE Columns(s, r)
      BY <1>1, <3>1
    <3>4. Columns(s, r)' = Waiting(m, Seam(s, r))
      BY <1>2, <3>1 DEF Columns
    <3>5. Columns(r, s)' = 
                    IF shipped
                    THEN Append(Waiting(m, Seam(r, s)),
                                [array |-> name, number |-> count[r] + 1, column |-> Restrict(values, Facing(r, s))])
                    ELSE Waiting(m, Seam(r, s))
      BY <1>2, <3>1 DEF Columns
    <3> QED BY <1>1, <3>2, <3>3, <3>4, <3>5
  <2>2. ASSUME NEW s \in Ranks \ {r}, NEW t \in Ranks \ {r} PROVE Columns(s, t)' = Columns(s, t)
    <3>1. Waiting(mail, Seam(s, t))' = Waiting(m, Seam(s, t))
      BY <1>2
    <3>2. Waiting(m, Seam(s, t)) = Columns(s, t)
      BY <1>1
    <3> QED BY <3>1, <3>2 DEF Columns
  <2> QED BY <2>1, <2>2 DEF MailIs
<1> QED BY <1>1, <1>2, <1>3

\* The votes and answers under way, if the rank sends and takes none.
LEMMA VotesStay ==
  ASSUME NEW g \in Segments, VotesAre(g), NEW r \in Ranks, OthersStay(r),
         \A t : /\ Waiting(mail, <<t, 0, "chg">>)' = Waiting(mail, <<t, 0, "chg">>)
                /\ Waiting(mail, <<0, t, "cont">>)' = Waiting(mail, <<0, t, "cont">>),
         ~ Voting(g, r), ~ Voting(g, r)', ~ Behind(g, r), ~ Behind(g, r)'
  PROVE  VotesAre(g)'
<1>1. ASSUME NEW t \in Others
      PROVE  /\ Waiting(mail, <<t, 0, "chg">>)' = IF Voting(g, t)' THEN <<changed'[t]>> ELSE <<>>
             /\ Waiting(mail, <<0, t, "cont">>)' = IF Behind(g, t)' THEN <<g.k = "go">> ELSE <<>>
  <2>1. t \in Ranks
    BY DEF Others
  <2>2. /\ Waiting(mail, <<t, 0, "chg">>) = IF Voting(g, t) THEN <<changed[t]>> ELSE <<>>
        /\ Waiting(mail, <<0, t, "cont">>) = IF Behind(g, t) THEN <<g.k = "go">> ELSE <<>>
    BY DEF VotesAre
  <2>3. CASE t = r
    BY <2>2, <2>3
  <2>4. CASE t # r
    <3>1. (Voting(g, t)' <=> Voting(g, t)) /\ (Behind(g, t)' <=> Behind(g, t)) /\ changed'[t] = changed[t]
      BY <2>1, <2>4 DEF OthersStay, Voting, Behind
    <3> QED BY <2>2, <3>1
  <2> QED BY <2>3, <2>4
<1> QED BY <1>1 DEF VotesAre

\* What a rank takes from its neighbours.
IsTaken(g, r, halo) ==
  /\ DOMAIN halo = Padded(r) \ Owned(r)
  /\ \A s \in Beside(r) : \A c \in Facing(s, r) :
       /\ count[r] <= count[s]
       /\ ArrayAt(g, count[r]) = "dem" => halo[c] = dem[c]
       /\ ArrayAt(g, count[r]) \in Fields =>
            halo[c] \in Nat /\ (count[r] = count[s] \/ ~ changed[s] => halo[c] = arr[s][g.f][c])

\* The halo a rank takes is that of the exchange it is in.
LEMMA HaloTaken ==
  ASSUME NEW g \in Segments, Shapes, Shared(g), NEW r \in Ranks, Receiving(r), Has(mail, Awaited(r)), NEW halo, halo = Halo(r)
  PROVE  IsTaken(g, r, halo)
<1>1. /\ \A s \in Beside(r) : /\ s \in Ranks /\ Facing(s, r) \subseteq Owned(s)
                              /\ Facing(s, r) \subseteq Padded(r) /\ Facing(s, r) \cap Owned(r) = {}
  BY PaddedIs
<1>2. IsMail(mail) /\ DOMAIN mail \subseteq Keys /\ count \in [Ranks -> Nat]
  BY DEF Shapes
<1>3. ASSUME NEW s \in Beside(r), NEW c \in Facing(s, r)
      PROVE  /\ count[r] <= count[s]
             /\ ArrayAt(g, count[r]) = "dem" => halo[c] = dem[c]
             /\ ArrayAt(g, count[r]) \in Fields =>
                  halo[c] \in Nat /\ (count[r] = count[s] \/ ~ changed[s] => halo[c] = arr[s][g.f][c])
  <2>1. Columns(s, r) # <<>> /\ First(mail, Seam(s, r)) = Columns(s, r)[1]
    <3>1. \A x \in Beside(r) : Columns(x, r) # <<>> /\ First(mail, Seam(x, r)) = Columns(x, r)[1]
      BY <1>2, Taking
    <3> QED BY <3>1
  <2>2. PICK cs : cs = Columns(s, r)
    OBVIOUS
  <2>3. IsQueue(cs) /\ Len(cs) \in Nat /\ Len(cs) >= 1 /\ 1 \in DOMAIN cs
    BY <1>2, <2>1, <2>2, WaitingIs, QueueIs DEF Columns
  <2>4. ColumnsAre(g, s, r) /\ Received(r) = count[r] - 1
    BY DEF Shared, Received
  <2>5. Len(cs) = count[s] - Received(r) /\ \A i \in DOMAIN cs : ColumnIs(g, s, r, cs[i], Received(r) + i)
    BY <2>2, <2>4 DEF ColumnsAre
  <2>6. count[r] \in Nat /\ count[s] \in Nat
    BY <1>1, <1>2
  <2>7. count[r] <= count[s]
    BY <2>3, <2>4, <2>5, <2>6
  <2>8. ColumnIs(g, s, r, cs[1], count[r])
    <3>1. ColumnIs(g, s, r, cs[1], Received(r) + 1)
      BY <2>3, <2>5
    <3>2. Received(r) + 1 = count[r]
      BY <2>4, <2>6
    <3> QED BY <3>1, <3>2
  <2>9. halo[c] = cs[1].column[c]
    <3>1. c \in Padded(r) \ Owned(r) /\ TileOf(c) = s
      BY <1>1, TileIs
    <3> QED BY <2>1, <2>2, <3>1 DEF Halo
  <2> QED BY <2>7, <2>8, <2>9 DEF ColumnIs
<1>4. DOMAIN halo = Padded(r) \ Owned(r)
  BY DEF Halo
<1> QED BY <1>3, <1>4 DEF IsTaken

\* A round of a rank.
IsRound(r, f, d, e) ==
  /\ e \in [Padded(r) -> Nat]
  /\ \A c \in Padded(r) \ Owned(r) : e[c] = d[c]
  /\ e = d => \A c \in Owned(r) \cap Worked(f) : Level(f, d, c)

\* A relaxation of a tile under its halo is a round of the field.
LEMMA RoundIs ==
  ASSUME NEW r \in Ranks, NEW f \in Fields, NEW p, NEW sd, p = [c \in Padded(r) |-> dem[c]],
         sd \cap Owned(r) = WholeSd(dem) \cap Owned(r), NEW d \in [Padded(r) -> Nat],
         NEW e, e = Converged(f, p, sd, Padded(r), Owned(r), d)
  PROVE  IsRound(r, f, d, e)
<1>1. /\ Padded(r) \subseteq Cells /\ Owned(r) \subseteq Padded(r) /\ IsFiniteSet(Padded(r)) /\ Owned(r) # {}
  BY PaddedIs, OwnedIs
<1>2. IsRelaxed(f, p, sd, Padded(r), Owned(r), d, e)
  BY <1>1, ConvergedIs
<1>3. /\ \A c \in Owned(r) : LevelNear(p, Padded(r), c) = LevelNear(dem, Cells, c)
      /\ Owned(r) \cap Elevated(p, Padded(r)) = Owned(r) \cap Elevated(dem, Cells)
      /\ \A c \in Owned(r) : p[c] = dem[c]
  BY SameTerrain
<1>4. Owned(r) \cap Worked(f) = CellsOf(f, p, sd, Padded(r), Owned(r))
  <2>1. CASE f = "height"
    BY <1>3, <2>1 DEF CellsOf, Worked
  <2>2. CASE f # "height"
    <3>1. Owned(r) \cap Flats(p, sd) = Owned(r) \cap Flats(dem, WholeSd(dem))
      BY <1>3 DEF Flats
    <3> QED BY <2>2, <3>1 DEF CellsOf, Worked, FlatCells
  <2> QED BY <2>1, <2>2
<1>5. /\ e \in [Padded(r) -> Nat]
      /\ \A c \in Padded(r) \ Owned(r) : e[c] = d[c]
      /\ e = d => \A c \in CellsOf(f, p, sd, Padded(r), Owned(r)) : \A n \in LevelNear(p, Padded(r), c) :
                    IF f = "height" THEN d[n] <= d[c] ELSE d[c] <= d[n] + 1
  BY <1>2 DEF IsRelaxed
<1>6. ASSUME e = d, NEW c \in Owned(r) \cap Worked(f) PROVE Level(f, d, c)
  BY <1>3, <1>4, <1>5, <1>6 DEF Level
<1> QED BY <1>5, <1>6 DEF IsRound

-----------------------------------------------------------------------------
\* How the neighbours see a rank: not yet, while it is far behind,
LEMMA NoView ==
  ASSUME NEW g \in Segments, Shapes, Shared(g), NEW r \in Ranks, OthersStay(r), NEW s \in Beside(r),
         count[r] < End(g) - 1, g.k # "go"
  PROVE  HaloIs(g, s, r)'
<1>1. s \in Ranks /\ s # r
  BY PaddedIs
<1>2. ~ Sweeping(g, s) /\ ~ Voting(g, s) /\ ~ (Behind(g, s) /\ g.k = "go")
  <2>1. PICK k, e : k = count[r] /\ e = End(g)
    OBVIOUS
  <2>2. k \in Nat /\ e \in Nat /\ k < e - 1
    BY <2>1, Apart, SegmentIs
  <2>3. (Voting(g, s) => k = e) /\ (Sweeping(g, s) => k >= e - 1)
    BY <2>1, Apart
  <2> QED BY <2>2, <2>3
<1>3. ~ Sweeping(g, s)' /\ ~ Voting(g, s)' /\ ~ (Behind(g, s)' /\ g.k = "go")
  BY <1>1, <1>2 DEF OthersStay, Sweeping, Voting, Behind
<1> QED BY <1>3 DEF HaloIs

\* as it was, while the rank publishes nothing,
LEMMA ViewStays ==
  ASSUME NEW g \in Segments, Shapes, Shared(g), NEW r \in Ranks, OthersStay(r), NEW s \in Beside(r),
         count'[r] = count[r], changed'[r] = changed[r],
         \A c \in Owned(r) : arr'[r][g.f][c] = arr[r][g.f][c]
  PROVE  HaloIs(g, s, r)'
<1>1. s \in Ranks /\ s # r /\ r \in Beside(s) /\ Facing(r, s) \subseteq Owned(r)
  BY PaddedIs
<1>2. HaloIs(g, s, r)
  BY <1>1 DEF Shared
<1>3. /\ pc'[s] = pc[s] /\ count'[s] = count[s] /\ field'[s] = field[s] /\ arr'[s] = arr[s]
  BY <1>1 DEF OthersStay
<1>4. Sees(g, s, r)' <=> Sees(g, s, r)
  BY <1>1, <1>3 DEF Sees
<1>5. (Sweeping(g, s)' <=> Sweeping(g, s)) /\ (Voting(g, s)' <=> Voting(g, s)) /\ (Behind(g, s)' <=> Behind(g, s))
  BY <1>3 DEF Sweeping, Voting, Behind
<1> QED BY <1>2, <1>4, <1>5 DEF HaloIs

\* and right, when its round has changed nothing.
EdgeKept(g, r) == \A c \in Owned(r) : arr'[r][g.f][c] = arr[r][g.f][c]

\* What a neighbour has of the edge stays what it was as long as the rank has
\* changed nothing there.
LEMMA ViewKept ==
  ASSUME NEW g \in Segments, Shapes, Shared(g), NEW r \in Ranks, OthersStay(r), NEW s \in Beside(r),
         count[r] = End(g) - 1, count'[r] = End(g),
         ~ changed'[r] => EdgeKept(g, r)
  PROVE  HaloIs(g, s, r)'
<1>1. s \in Ranks /\ s # r /\ r \in Beside(s) /\ Facing(r, s) \subseteq Owned(r)
  BY PaddedIs
<1>2. HaloIs(g, s, r)
  BY <1>1 DEF Shared
<1>3. /\ pc'[s] = pc[s] /\ count'[s] = count[s] /\ field'[s] = field[s] /\ arr'[s] = arr[s]
  BY <1>1 DEF OthersStay
<1>4. ~ changed'[r] => (Sees(g, s, r)' <=> Sees(g, s, r))
  BY <1>1, <1>3 DEF Sees, EdgeKept
<1>5. (Sweeping(g, s)' <=> Sweeping(g, s)) /\ (Voting(g, s)' <=> Voting(g, s)) /\ (Behind(g, s)' <=> Behind(g, s))
  BY <1>3 DEF Sweeping, Voting, Behind
<1>6. End(g) \in Nat /\ count[r] # End(g)
  BY SegmentIs
<1>7. ~ Voting(g, s)
  <2>1. Voting(g, s) => count[r] = End(g)
    BY Apart
  <2> QED BY <1>6, <2>1
<1> QED BY <1>2, <1>4, <1>5, <1>6, <1>7 DEF HaloIs

\* The neighbours that vote have the rank's change already.
LEMMA VotersKnow ==
  ASSUME NEW g \in Segments, Shapes, Shared(g), NEW r \in Ranks, count[r] < End(g)
  PROVE  \A s \in Beside(r) : ~ Voting(g, s)
<1>1. ASSUME NEW s \in Beside(r), Voting(g, s) PROVE FALSE
  <2>1. count[r] = End(g) /\ End(g) \in Nat
    BY <1>1, Apart, SegmentIs
  <2> QED BY <2>1
<1> QED BY <1>1

\* A rank's own control.
LEMMA Advance ==
  ASSUME Shapes, NEW r \in Ranks, NEW x, pc' = [pc EXCEPT ![r] = x]
  PROVE  pc'[r] = x /\ (\A q \in Ranks \ {r} : pc'[q] = pc[q]) /\ pc' = [q \in Ranks |-> pc'[q]]
<1>1. pc = [q \in Ranks |-> pc[q]]
  BY DEF Shapes
<1> QED BY <1>1

\* The number of the exchange goes up for this rank only.
LEMMA Counted ==
  ASSUME Shapes, NEW r \in Ranks, Exchanges(r)
  PROVE  /\ count'[r] = count[r] + 1 /\ (\A q \in Ranks \ {r} : count'[q] = count[q]) /\ count' \in [Ranks -> Nat]
         /\ count[r] \in Nat
BY DEF Shapes, Exchanges

-----------------------------------------------------------------------------
\* The terrain is published.
LEMMA StartKeeps ==
  ASSUME NEW g \in Segments, Shapes, Shared(g), NEW r \in Ranks, Start(r)
  PROVE  Shapes' /\ Shared(g)'
<1>1. g.k = "start" /\ g.f = "away" /\ g.b = 0 /\ End(g) = 4 /\ count[r] = 0 /\ field[r] = "away"
  <2>1. Placed(g, r)
    BY DEF Shared
  <2>2. Early(g, r) /\ pc[r] = "start"
    BY <2>1 DEF Start, Placed, Early, Entering, Sweeping, Voting, Behind, Masking
  <2> QED BY <2>2, SegmentIs DEF Early, End
<1>2. /\ pc'[r] = "dem" /\ count'[r] = 1 /\ arr' = arr /\ changed' = changed /\ field' = field /\ dem' = dem
      /\ \A q \in Ranks \ {r} : pc'[q] = pc[q] /\ count'[q] = count[q]
      /\ pc' = [q \in Ranks |-> pc'[q]] /\ count' \in [Ranks -> Nat]
  <2>1. pc'[r] = "dem" /\ (\A q \in Ranks \ {r} : pc'[q] = pc[q]) /\ pc' = [q \in Ranks |-> pc'[q]]
    <3>1. pc' = [pc EXCEPT ![r] = "dem"]
      BY DEF Start
    <3> QED BY <3>1, Advance
  <2>2. /\ count'[r] = count[r] + 1 /\ (\A q \in Ranks \ {r} : count'[q] = count[q]) /\ count' \in [Ranks -> Nat]
    <3>1. Exchanges(r)
      BY DEF Start
    <3> QED BY <3>1, Counted
  <2> QED BY <1>1, <2>1, <2>2 DEF Start
<1>3. OthersStay(r)
  BY <1>2 DEF OthersStay
<1>4. /\ MailIs(r, FALSE, TRUE, "dem", dem)
      /\ IsMail(mail)' /\ DOMAIN mail' \subseteq Keys
      /\ \A t : /\ Waiting(mail, <<t, 0, "chg">>)' = Waiting(mail, <<t, 0, "chg">>)
                /\ Waiting(mail, <<0, t, "cont">>)' = Waiting(mail, <<0, t, "cont">>)
  <2>1. PICK d : d = dem
    OBVIOUS
  <2>2. mail' = Ship(mail, r, "dem", d)
    BY <2>1 DEF Start
  <2>3. MailIs(r, FALSE, TRUE, "dem", d)
      /\ IsMail(mail)' /\ DOMAIN mail' \subseteq Keys
      /\ \A t : /\ Waiting(mail, <<t, 0, "chg">>)' = Waiting(mail, <<t, 0, "chg">>)
                /\ Waiting(mail, <<0, t, "cont">>)' = Waiting(mail, <<0, t, "cont">>)
    <3>1. PICK m, took, shipped : m = mail /\ took = FALSE /\ shipped = TRUE
      OBVIOUS
    <3> HIDE <3>1
    <3>2. mail' = (IF shipped THEN Ship(m, r, "dem", d) ELSE m) /\ took \in BOOLEAN /\ shipped \in BOOLEAN
          /\ m = (IF took THEN Receive(mail, Awaited(r)) ELSE mail) /\ (took => Receiving(r) /\ Has(mail, Awaited(r)))
      BY <2>2, <3>1
    <3>3. MailIs(r, took, shipped, "dem", d)
      BY <3>2, MailMoves
    <3> QED BY <3>1, <3>2, <3>3, MailMoves
  <2> QED BY <2>1, <2>3
<1>5. Shapes'
  BY <1>2, <1>4 DEF Shapes
<1>6. Placed(g, r)' /\ ArraysAre(r)' /\ StillIs(g, r)'
  <2>1. Placed(g, r)'
    BY <1>1, <1>2 DEF Placed, Early
  <2>2. ArraysAre(r)'
    BY <1>1, <1>2 DEF ArraysAre
  <2>3. StillIs(g, r)'
    BY <1>2 DEF StillIs, Sweeping, Voting
  <2> QED BY <2>1, <2>2, <2>3
<1>7. VotesAre(g)'
  <2>1. VotesAre(g)
    BY DEF Shared
  <2>2. ~ Voting(g, r) /\ ~ Voting(g, r)' /\ ~ Behind(g, r) /\ ~ Behind(g, r)'
    BY <1>1, <1>2 DEF Voting, Behind, Start
  <2> QED BY <1>3, <1>4, <2>1, <2>2, VotesStay
<1>8. ASSUME NEW s \in Beside(r) PROVE HaloIs(g, r, s)' /\ HaloIs(g, s, r)'
  <2>1. HaloIs(g, r, s)'
    BY <1>2 DEF HaloIs, Sweeping, Voting, Behind
  <2>2. HaloIs(g, s, r)'
    BY <1>1, <1>3, NoView
  <2> QED BY <2>1, <2>2
<1>9. \A s \in Beside(r) : ~ Voting(g, s)
  BY <1>1, VotersKnow
<1>10. Published(g, r, "dem", dem)
  BY <1>1 DEF Published, ArrayAt, Fields
<1>11. StillPublished(g, r)
  <2>1. ASSUME NEW s \in Beside(r), NEW n \in Int, n > Received(s), n <= count[r] PROVE FALSE
    <3>1. Received(s) \in Int /\ Received(s) >= g.b
      BY Apart
    <3> QED BY <1>1, <2>1, <3>1
  <2> QED BY <2>1 DEF StillPublished
<1>12. Received(r) = 0 /\ Received(r)' = 0 /\ Before(g.f) = {}
  BY <1>1, <1>2 DEF Received, Receiving, Start, Before
<1>13. Shared(g)'
  <2>1. PICK took, shipped, d : took = FALSE /\ shipped = TRUE /\ d = dem
    OBVIOUS
  <2>2. MailIs(r, took, shipped, "dem", d) /\ Published(g, r, "dem", d) /\ took \in BOOLEAN /\ shipped \in BOOLEAN
    BY <1>4, <1>10, <2>1
  <2>3. count'[r] = count[r] + (IF shipped THEN 1 ELSE 0) /\ Received(r)' = Received(r) + IF took THEN 1 ELSE 0
    BY <1>1, <1>2, <1>12, <2>1
  <2> HIDE <2>1
  <2> QED BY <1>3, <1>6, <1>7, <1>8, <1>9, <1>11, <1>12, <2>2, <2>3, Moves
<1> QED BY <1>5, <1>13

\* A step that takes a column from each neighbour and may send one, and no vote.
ArrStays(r) == /\ DOMAIN arr' = Ranks /\ DOMAIN arr'[r] = Arrays
               /\ \A q \in Ranks \ {r} : arr'[q] = arr[q]
ChangedStays(r) == changed' \in [Ranks -> BOOLEAN] /\ \A q \in Ranks \ {r} : changed'[q] = changed[q]

IsExchange(g, r, shipped, name, values, x) ==
  /\ Shapes' /\ OthersStay(r) /\ VotesAre(g)' /\ MailIs(r, TRUE, shipped, name, values)
  /\ pc'[r] = x /\ count'[r] = (count[r] + IF shipped THEN 1 ELSE 0)
  /\ Received(r)' = Received(r) + 1

\* A step that takes the halo, whether or not it publishes a new one.
LEMMA Exchanged ==
  ASSUME NEW g \in Segments, Shapes, Shared(g), NEW r \in Ranks, NEW shipped \in BOOLEAN, NEW name, NEW values,
         NEW x, Receiving(r), Has(mail, Awaited(r)),
         mail' = IF shipped THEN Ship(Receive(mail, Awaited(r)), r, name, values) ELSE Receive(mail, Awaited(r)),
         pc' = [pc EXCEPT ![r] = x], IF shipped THEN Exchanges(r) ELSE count' = count,
         dem' = dem, field' = field, ArrStays(r), ChangedStays(r),
         x \in {"dem", "sd", "enter", "edges", "mask"} <=> shipped, x \notin {"votes", "answer"}
  PROVE  IsExchange(g, r, shipped, name, values, x)
<1>1. pc'[r] = x /\ (\A q \in Ranks \ {r} : pc'[q] = pc[q]) /\ pc' = [q \in Ranks |-> pc'[q]]
  BY Advance
<1>2. /\ count'[r] = (count[r] + IF shipped THEN 1 ELSE 0) /\ (\A q \in Ranks \ {r} : count'[q] = count[q])
      /\ count' \in [Ranks -> Nat] /\ count[r] \in Nat
  <2>1. CASE shipped
    BY <2>1, Counted
  <2>2. CASE ~ shipped
    BY <2>2 DEF Shapes
  <2> QED BY <2>1, <2>2
<1>3. OthersStay(r)
  BY <1>1, <1>2 DEF OthersStay, ArrStays, ChangedStays
<1>4. /\ MailIs(r, TRUE, shipped, name, values)
      /\ IsMail(mail)' /\ DOMAIN mail' \subseteq Keys
      /\ \A t : /\ Waiting(mail, <<t, 0, "chg">>)' = Waiting(mail, <<t, 0, "chg">>)
                /\ Waiting(mail, <<0, t, "cont">>)' = Waiting(mail, <<0, t, "cont">>)
  <2>1. PICK m, took : m = Receive(mail, Awaited(r)) /\ took = TRUE
    OBVIOUS
  <2>2. mail' = (IF shipped THEN Ship(m, r, name, values) ELSE m) /\ took \in BOOLEAN
        /\ m = (IF took THEN Receive(mail, Awaited(r)) ELSE mail) /\ (took => Receiving(r) /\ Has(mail, Awaited(r)))
    BY <2>1
  <2>3. /\ MailIs(r, took, shipped, name, values)
        /\ IsMail(mail)' /\ DOMAIN mail' \subseteq Keys
        /\ \A t : /\ Waiting(mail, <<t, 0, "chg">>)' = Waiting(mail, <<t, 0, "chg">>)
                  /\ Waiting(mail, <<0, t, "cont">>)' = Waiting(mail, <<0, t, "cont">>)
    BY <2>2, MailMoves
  <2> QED BY <2>1, <2>3
<1>5. Shapes'
  <2>1. ASSUME NEW q \in Ranks PROVE DOMAIN arr'[q] = Arrays
    BY DEF ArrStays, Shapes
  <2>2. field' = [q \in Ranks |-> field'[q]] /\ dem' \in Inputs
    BY DEF Shapes
  <2> QED BY <1>1, <1>2, <1>4, <2>1, <2>2 DEF Shapes, ArrStays, ChangedStays
<1>6. VotesAre(g)'
  <2>1. VotesAre(g)
    BY DEF Shared
  <2>2. ~ Voting(g, r) /\ ~ Voting(g, r)' /\ ~ Behind(g, r) /\ ~ Behind(g, r)'
    BY <1>1 DEF Voting, Behind, Receiving
  <2> QED BY <1>3, <1>4, <2>1, <2>2, VotesStay
<1>7. Received(r)' = Received(r) + 1
  BY <1>1, <1>2 DEF Received, Receiving
<1> QED BY <1>1, <1>2, <1>3, <1>4, <1>5, <1>6, <1>7 DEF IsExchange

-----------------------------------------------------------------------------
\* Before the first relaxation nothing but terrain and directions is sent.
LEMMA NothingPublished ==
  ASSUME NEW g \in Segments, Shapes, Shared(g), NEW r \in Ranks, g.k = "start", count[r] <= 2
  PROVE  StillPublished(g, r)
<1>1. ASSUME NEW s \in Beside(r), NEW n \in Int, n > Received(s), n <= count[r] PROVE ArrayAt(g, n) \notin Fields
  <2>1. PICK k, c : k = Received(s) /\ c = count[r]
    OBVIOUS
  <2>2. k \in Int /\ k >= 0 /\ c \in Nat /\ c <= 2 /\ n > k /\ n <= c
    BY <1>1, <2>1, Apart, SegmentIs
  <2>3. n = 1 \/ n = 2
    BY <2>2
  <2> QED BY <2>3 DEF ArrayAt, Fields
<1> QED BY <1>1 DEF StillPublished

\* The terrain has its halo.
LEMMA TakeDemKeeps ==
  ASSUME NEW g \in Segments, Shapes, Shared(g), NEW r \in Ranks, TakeDem(r)
  PROVE  Shapes' /\ Shared(g)'
<1>0. pc[r] = "dem" /\ Has(mail, Awaited(r)) /\ Receiving(r)
  BY DEF TakeDem, At, Receiving
<1>1. g.k = "start" /\ g.f = "away" /\ g.b = 0 /\ End(g) = 4 /\ count[r] = 1 /\ field[r] = "away"
  <2>1. Placed(g, r)
    BY DEF Shared
  <2>2. Early(g, r)
    BY <1>0, <2>1 DEF Placed, Early, Entering, Sweeping, Voting, Behind, Masking
  <2> QED BY <1>0, <2>2, SegmentIs DEF Early, End
<1> DEFINE P == WithHalo(r, dem)
           U == Undrained(P, Padded(r))
           V == [c \in Owned(r) |-> c \in U]
<1>2. PICK padded, sd, values, t : padded = P /\ sd = U /\ values = V /\ t = dem
  OBVIOUS
<1>3. /\ arr' = [arr EXCEPT ![r]["dem"] = padded, ![r]["sd"] = sd]
      /\ mail' = Ship(Receive(mail, Awaited(r)), r, "sd", values)
  BY <1>2 DEF TakeDem
<1> HIDE DEF P, U, V
<1>4. arr'[r]["dem"] = padded /\ arr'[r]["sd"] = sd /\ ArrStays(r)
  BY <1>3 DEF Shapes, Arrays, ArrStays
<1>5. padded = [c \in Padded(r) |-> dem[c]]
  <2>1. PICK halo : halo = Halo(r)
    OBVIOUS
  <2>2. \A s \in Beside(r) : \A c \in Facing(s, r) : ArrayAt(g, count[r]) = "dem" => halo[c] = dem[c]
    <3>1. IsTaken(g, r, halo)
      BY <1>0, <2>1, HaloTaken
    <3> QED BY <3>1 DEF IsTaken
  <2>3. ArrayAt(g, count[r]) = "dem"
    BY <1>1 DEF ArrayAt
  <2>4. \A c \in Padded(r) \ Owned(r) : halo[c] = dem[c]
    BY <2>2, <2>3, PaddedIs
  <2> QED BY <1>2, <2>1, <2>4 DEF P, WithHalo
<1>6. sd \cap Owned(r) = WholeSd(dem) \cap Owned(r)
  <2>1. t = dem /\ padded = [c \in Padded(r) |-> t[c]]
    BY <1>2, <1>5
  <2>2. Undrained(padded, Padded(r)) \cap Owned(r) = WholeSd(t) \cap Owned(r)
    BY <2>1, SameTerrain
  <2> QED BY <1>2, <2>1, <2>2 DEF U
<1>7. /\ Shapes' /\ OthersStay(r) /\ VotesAre(g)' /\ MailIs(r, TRUE, TRUE, "sd", values)
      /\ pc'[r] = "sd" /\ count'[r] = count[r] + 1 /\ Received(r)' = Received(r) + 1
  <2>1. PICK shipped : shipped = TRUE
    OBVIOUS
  <2>2. /\ mail' = IF shipped THEN Ship(Receive(mail, Awaited(r)), r, "sd", values) ELSE Receive(mail, Awaited(r))
        /\ IF shipped THEN Exchanges(r) ELSE count' = count
        /\ pc' = [pc EXCEPT ![r] = "sd"]
        /\ dem' = dem /\ field' = field /\ ChangedStays(r) /\ shipped \in BOOLEAN
        /\ "sd" \in {"dem", "sd", "enter", "edges", "mask"} <=> shipped
    BY <1>3, <2>1 DEF TakeDem, ChangedStays, Shapes
  <2>3. IsExchange(g, r, shipped, "sd", values, "sd")
    BY <1>0, <1>4, <2>2, Exchanged
  <2> QED BY <2>1, <2>3 DEF IsExchange
<1>8. dem' = dem /\ field' = field /\ changed' = changed
  BY DEF TakeDem
<1>9. Placed(g, r)' /\ ArraysAre(r)' /\ StillIs(g, r)'
  <2>1. Placed(g, r)'
    BY <1>1, <1>7, <1>8 DEF Placed, Early
  <2>2. ArraysAre(r)'
    BY <1>1, <1>4, <1>5, <1>6, <1>7, <1>8 DEF ArraysAre
  <2>3. StillIs(g, r)'
    BY <1>7 DEF StillIs, Sweeping, Voting
  <2> QED BY <2>1, <2>2, <2>3
<1>10. ASSUME NEW s \in Beside(r) PROVE HaloIs(g, r, s)' /\ HaloIs(g, s, r)'
  <2>1. HaloIs(g, r, s)'
    BY <1>7 DEF HaloIs, Sweeping, Voting, Behind
  <2>2. HaloIs(g, s, r)'
    BY <1>1, <1>7, NoView
  <2> QED BY <2>1, <2>2
<1>11. \A s \in Beside(r) : ~ Voting(g, s)
  BY <1>1, VotersKnow
<1>12. Published(g, r, "sd", values)
  BY <1>1 DEF Published, ArrayAt, Fields
<1>13. StillPublished(g, r)
  BY <1>1, NothingPublished
<1>14. Before(g.f) = {}
  BY <1>1 DEF Before
<1> QED
  <2>1. PICK took, shipped : took = TRUE /\ shipped = TRUE
    OBVIOUS
  <2>2. MailIs(r, took, shipped, "sd", values) /\ took \in BOOLEAN /\ shipped \in BOOLEAN
    BY <1>7, <2>1
  <2>3. count'[r] = count[r] + (IF shipped THEN 1 ELSE 0) /\ Received(r)' = Received(r) + IF took THEN 1 ELSE 0
    BY <1>7, <2>1
  <2> HIDE <2>1
  <2> QED BY <1>7, <1>9, <1>10, <1>11, <1>12, <1>13, <1>14, <2>2, <2>3, Moves

\* The cells without a direction have their halo, and the seeds are laid.
LEMMA TakeSdKeeps ==
  ASSUME NEW g \in Segments, Shapes, Shared(g), NEW r \in Ranks, TakeSd(r)
  PROVE  Shapes' /\ Shared(g)'
<1>0. pc[r] = "sd" /\ Has(mail, Awaited(r)) /\ Receiving(r)
  BY DEF TakeSd, At, Receiving
<1>1. g.k = "start" /\ g.f = "away" /\ g.b = 0 /\ End(g) = 4 /\ count[r] = 2 /\ field[r] = "away"
  <2>1. Placed(g, r)
    BY DEF Shared
  <2>2. Early(g, r)
    BY <1>0, <2>1 DEF Placed, Early, Entering, Sweeping, Voting, Behind, Masking
  <2> QED BY <1>0, <2>2, SegmentIs DEF Early, End
<1> DEFINE U == SdWithHalo(r)
           A == AwaySeeds(arr[r].dem, U, Padded(r), Owned(r))
           W == TowardsSeeds(arr[r].dem, U, Padded(r), Owned(r))
<1>2. PICK sd, away, towards : sd = U /\ away = A /\ towards = W
  OBVIOUS
<1>3. /\ arr' = [arr EXCEPT ![r]["sd"] = sd, ![r]["away"] = away, ![r]["towards"] = towards]
      /\ mail' = Ship(Receive(mail, Awaited(r)), r, "away", away)
  BY <1>2 DEF TakeSd
<1> HIDE DEF U, A, W
<1>4. /\ arr'[r]["dem"] = arr[r]["dem"] /\ arr'[r]["sd"] = sd /\ arr'[r]["away"] = away /\ arr'[r]["towards"] = towards
      /\ ArrStays(r)
  BY <1>3 DEF Shapes, Arrays, ArrStays
<1>5. arr[r]["dem"] = [c \in Padded(r) |-> dem[c]] /\ arr[r]["sd"] \cap Owned(r) = WholeSd(dem) \cap Owned(r)
  BY <1>0 DEF Shared, ArraysAre
<1>6. sd \cap Owned(r) = WholeSd(dem) \cap Owned(r)
  <2>1. DOMAIN Halo(r) = Padded(r) \ Owned(r)
    BY DEF Halo
  <2> QED BY <1>2, <1>5, <2>1 DEF U, SdWithHalo
<1>7. away \in [Padded(r) -> Nat] /\ towards \in [Padded(r) -> Nat]
  BY <1>2, DistanceAssumption DEF A, W, AwaySeeds, TowardsSeeds
<1>8. /\ Shapes' /\ OthersStay(r) /\ VotesAre(g)' /\ MailIs(r, TRUE, TRUE, "away", away)
      /\ pc'[r] = "enter" /\ count'[r] = count[r] + 1 /\ Received(r)' = Received(r) + 1
  <2>1. PICK shipped : shipped = TRUE
    OBVIOUS
  <2>2. /\ mail' = IF shipped THEN Ship(Receive(mail, Awaited(r)), r, "away", away) ELSE Receive(mail, Awaited(r))
        /\ IF shipped THEN Exchanges(r) ELSE count' = count
        /\ pc' = [pc EXCEPT ![r] = "enter"]
        /\ dem' = dem /\ field' = field /\ ChangedStays(r) /\ shipped \in BOOLEAN
        /\ "enter" \in {"dem", "sd", "enter", "edges", "mask"} <=> shipped
    BY <1>3, <2>1 DEF TakeSd, ChangedStays, Shapes
  <2>3. IsExchange(g, r, shipped, "away", away, "enter")
    BY <1>0, <1>4, <2>2, Exchanged
  <2> QED BY <2>1, <2>3 DEF IsExchange
<1>9. dem' = dem /\ field' = field /\ changed' = changed
  BY DEF TakeSd
<1>10. Placed(g, r)' /\ ArraysAre(r)' /\ StillIs(g, r)'
  <2>1. Placed(g, r)'
    BY <1>1, <1>8, <1>9 DEF Placed, Entering
  <2>2. ArraysAre(r)'
    BY <1>1, <1>4, <1>5, <1>6, <1>7, <1>8, <1>9 DEF ArraysAre
  <2>3. StillIs(g, r)'
    BY <1>8 DEF StillIs, Sweeping, Voting
  <2> QED BY <2>1, <2>2, <2>3
<1>11. ASSUME NEW s \in Beside(r) PROVE HaloIs(g, r, s)' /\ HaloIs(g, s, r)'
  <2>1. HaloIs(g, r, s)'
    BY <1>8 DEF HaloIs, Sweeping, Voting, Behind
  <2>2. HaloIs(g, s, r)'
    BY <1>1, <1>8, NoView
  <2> QED BY <2>1, <2>2
<1>12. \A s \in Beside(r) : ~ Voting(g, s)
  BY <1>1, VotersKnow
<1>13. Published(g, r, "away", away)
  <2>1. "away" = ArrayAt(g, count[r] + 1)
    BY <1>1 DEF ArrayAt
  <2>2. \A s \in Beside(r) : Facing(r, s) \subseteq Padded(r)
    BY PaddedIs
  <2> QED BY <1>1, <1>4, <1>7, <2>1, <2>2 DEF Published
<1>14. StillPublished(g, r)
  BY <1>1, NothingPublished
<1>15. Before(g.f) = {}
  BY <1>1 DEF Before
<1> QED
  <2>1. PICK took, shipped : took = TRUE /\ shipped = TRUE
    OBVIOUS
  <2>2. MailIs(r, took, shipped, "away", away) /\ took \in BOOLEAN /\ shipped \in BOOLEAN
    BY <1>8, <2>1
  <2>3. count'[r] = count[r] + (IF shipped THEN 1 ELSE 0) /\ Received(r)' = Received(r) + IF took THEN 1 ELSE 0
    BY <1>8, <2>1
  <2> HIDE <2>1
  <2> QED BY <1>8, <1>10, <1>11, <1>12, <1>13, <1>14, <1>15, <2>2, <2>3, Moves

-----------------------------------------------------------------------------
\* What a round leaves in the arrays of a rank.
HasRelaxed(r, f, values, new) ==
  /\ arr'[r][f] = new /\ \A x \in Arrays \ {f} : arr'[r][x] = arr[r][x]
  /\ new \in [Padded(r) -> Nat] /\ \A c \in Padded(r) \ Owned(r) : new[c] = values[c]
  /\ ArraysAre(r)'
  /\ new = values => Still(f, r)'

\* What a round leaves in the arrays of the rank.
LEMMA RelaxedIs ==
  ASSUME Shapes, NEW r \in Ranks, ArraysAre(r), pc[r] \notin {"start", "dem", "sd"}, NEW f \in Fields,
         NEW values \in [Padded(r) -> Nat], NEW new,
         new = Converged(f, arr[r]["dem"], arr[r]["sd"], Padded(r), Owned(r), values),
         arr' = [arr EXCEPT ![r][f] = new], dem' = dem, field' = field
  PROVE  HasRelaxed(r, f, values, new)
<1>1. arr[r]["dem"] = [c \in Padded(r) |-> dem[c]] /\ arr[r]["sd"] \cap Owned(r) = WholeSd(dem) \cap Owned(r)
  BY DEF ArraysAre
<1>2. /\ new \in [Padded(r) -> Nat]
      /\ \A c \in Padded(r) \ Owned(r) : new[c] = values[c]
      /\ new = values => \A c \in Owned(r) \cap Worked(f) : Level(f, values, c)
  <2>1. PICK p, sd : p = arr[r]["dem"] /\ sd = arr[r]["sd"]
    OBVIOUS
  <2>2. /\ p = [c \in Padded(r) |-> dem[c]] /\ sd \cap Owned(r) = WholeSd(dem) \cap Owned(r)
        /\ new = Converged(f, p, sd, Padded(r), Owned(r), values)
    BY <1>1, <2>1
  <2>3. IsRound(r, f, values, new)
    BY <2>2, RoundIs
  <2> QED BY <2>3 DEF IsRound
<1>3. arr'[r][f] = new /\ \A x \in Arrays \ {f} : arr'[r][x] = arr[r][x]
  BY DEF Shapes, Arrays, Fields
<1>4. ArraysAre(r)'
  <2>1. {"dem", "sd", "away", "towards", "height"} \subseteq Arrays /\ f \in {"away", "towards", "height"}
    BY DEF Arrays, Fields
  <2>2. arr'[r]["dem"] = arr[r]["dem"] /\ arr'[r]["sd"] = arr[r]["sd"]
    BY <1>3, <2>1
  <2>3. /\ arr'[r]["away"] \in [Padded(r) -> Nat] /\ arr'[r]["towards"] \in [Padded(r) -> Nat]
        /\ field[r] \in {"height", "mask"} => arr'[r]["height"] \in [Padded(r) -> Nat]
    <3>1. \A x \in {"away", "towards", "height"} : arr'[r][x] = new \/ arr'[r][x] = arr[r][x]
      BY <1>3, <2>1
    <3> QED BY <1>2, <3>1 DEF ArraysAre
  <2> QED BY <1>1, <2>2, <2>3 DEF ArraysAre
<1>5. ASSUME new = values PROVE Still(f, r)'
  <2>1. arr'[r][f] = values
    BY <1>3, <1>5
  <2>2. Worked(f)' = Worked(f) /\ \A c : Level(f, values, c)' <=> Level(f, values, c)
    BY DEF Worked, FlatCells, Level
  <2> QED BY <1>2, <1>5, <2>1, <2>2 DEF Still, Level
<1> QED BY <1>2, <1>3, <1>4, <1>5 DEF HasRelaxed

\* A round within a segment: what it begins with, and what it does.
RoundBegins(g, r, values) ==
  /\ g.k # "mask" /\ field[r] = g.f /\ count[r] = End(g) - 1 /\ pc[r] \notin {"start", "dem", "sd"}
  /\ values \in [Padded(r) -> Nat]
  /\ \A c \in Owned(r) : values[c] = arr[r][g.f][c]
  /\ \A s \in Beside(r) : \A c \in Facing(s, r) :
       count[s] # End(g) \/ ~ changed[s] => values[c] = arr[s][g.f][c]

RoundEnds(g, r, took, values, new) ==
  /\ new = Converged(g.f, arr[r]["dem"], arr[r]["sd"], Padded(r), Owned(r), values)
  /\ arr' = [arr EXCEPT ![r][g.f] = new] /\ changed'[r] = (new # values) /\ pc'[r] = "edges" /\ field' = field
  /\ count'[r] = count[r] + 1
  /\ MailIs(r, took, TRUE, g.f, new)
  /\ Received(r)' = Received(r) + (IF took THEN 1 ELSE 0) /\ VotesAre(g)'

\* A round, whatever began it, keeps what the ranks share.
LEMMA RoundKeeps ==
  ASSUME NEW g \in Segments, Shapes, Shared(g), NEW r \in Ranks, OthersStay(r), NEW values, NEW new,
         NEW took \in BOOLEAN, RoundBegins(g, r, values), RoundEnds(g, r, took, values, new)
  PROVE  Shared(g)'
<1>0. /\ g.k # "mask" /\ field[r] = g.f /\ count[r] = End(g) - 1 /\ pc[r] \notin {"start", "dem", "sd"}
      /\ values \in [Padded(r) -> Nat]
      /\ \A c \in Owned(r) : values[c] = arr[r][g.f][c]
      /\ \A s \in Beside(r) : \A c \in Facing(s, r) :
           count[s] # End(g) \/ ~ changed[s] => values[c] = arr[s][g.f][c]
      /\ new = Converged(g.f, arr[r]["dem"], arr[r]["sd"], Padded(r), Owned(r), values)
      /\ arr' = [arr EXCEPT ![r][g.f] = new] /\ changed'[r] = (new # values) /\ pc'[r] = "edges" /\ field' = field
      /\ count'[r] = count[r] + 1
      /\ MailIs(r, took, TRUE, g.f, new)
      /\ Received(r)' = Received(r) + (IF took THEN 1 ELSE 0) /\ VotesAre(g)'
  BY DEF RoundBegins, RoundEnds
<1>1. /\ g.f \in Fields /\ g.k \in {"start", "go", "leave"} /\ g.b \in Nat
      /\ End(g) = (IF g.k = "start" THEN 4 ELSE IF g.k = "leave" THEN g.b + 2 ELSE g.b + 1)
      /\ g.k = "start" => g.b = 0
  BY <1>0, SegmentIs DEF End
<1>2. HasRelaxed(r, g.f, values, new)
  <2>1. PICK f : f = g.f
    OBVIOUS
  <2>2. /\ f \in Fields /\ values \in [Padded(r) -> Nat] /\ pc[r] \notin {"start", "dem", "sd"} /\ ArraysAre(r)
        /\ new = Converged(f, arr[r]["dem"], arr[r]["sd"], Padded(r), Owned(r), values)
        /\ arr' = [arr EXCEPT ![r][f] = new] /\ dem' = dem /\ field' = field
    BY <1>0, <1>1, <2>1 DEF Shared, OthersStay
  <2>3. HasRelaxed(r, f, values, new)
    BY <2>2, RelaxedIs
  <2> QED BY <2>1, <2>3
<1>3. new \in [Padded(r) -> Nat] /\ \A c \in Padded(r) \ Owned(r) : new[c] = values[c]
  BY <1>2 DEF HasRelaxed
<1>4. /\ arr'[r][g.f] = new /\ \A x \in Arrays \ {g.f} : arr'[r][x] = arr[r][x]
  BY <1>2 DEF HasRelaxed
<1>5. dem' = dem /\ Owned(r) \subseteq Padded(r)
  BY <1>0, PaddedIs DEF OthersStay
<1>6. Sweeping(g, r)' /\ ~ Voting(g, r)' /\ ~ Behind(g, r)' /\ count'[r] = End(g)
  BY <1>0, <1>1 DEF Sweeping, Voting, Behind
<1>7. Placed(g, r)'
  BY <1>0, <1>6 DEF Placed
<1>8. ArraysAre(r)'
  BY <1>2 DEF HasRelaxed
<1>9. ~ changed'[r] => EdgeKept(g, r)
  <2>1. changed'[r] = (new # values) /\ \A c \in Owned(r) : values[c] = arr[r][g.f][c]
    BY <1>0
  <2> QED BY <1>4, <2>1 DEF EdgeKept
<1>10. StillIs(g, r)'
  BY <1>0, <1>2 DEF StillIs, HasRelaxed
<1>11. ASSUME NEW s \in Beside(r) PROVE HaloIs(g, r, s)' /\ HaloIs(g, s, r)'
  <2>1. /\ s \in Ranks /\ s # r /\ Facing(s, r) \subseteq Padded(r) /\ Facing(s, r) \cap Owned(r) = {}
    BY <1>0, PaddedIs
  <2>2. HaloIs(g, r, s)'
    <3>1. ASSUME count'[s] # End(g) \/ ~ changed'[s], NEW c \in Facing(s, r)
          PROVE  arr'[r][g.f][c] = arr'[s][g.f][c]
      <4>1. count[s] # End(g) \/ ~ changed[s]
        BY <1>0, <2>1, <3>1 DEF OthersStay
      <4>2. values[c] = arr[s][g.f][c] /\ arr'[s] = arr[s]
        BY <1>0, <2>1, <4>1 DEF OthersStay
      <4> QED BY <1>0, <1>3, <1>4, <2>1, <4>2
    <3> QED BY <1>0, <1>6, <3>1 DEF HaloIs, Sees
  <2>3. HaloIs(g, s, r)'
    BY <1>0, <1>6, <1>9, ViewKept
  <2> QED BY <1>0, <2>2, <2>3
<1>12. \A s \in Beside(r) : ~ Voting(g, s)
  <2>1. count[r] < End(g)
    BY <1>0, SegmentIs
  <2> QED BY <1>0, <2>1, VotersKnow
<1>13. Published(g, r, g.f, new)
  <2>1. g.f = ArrayAt(g, count[r] + 1)
    <3>1. (count[r] + 1 # 1 /\ count[r] + 1 # 2) \/ g.k # "start"
      <4>1. count[r] = End(g) - 1
        BY <1>0
      <4>2. g.k = "start" => End(g) = 4
        BY <1>1
      <4> QED BY <4>1, <4>2
    <3> QED BY <1>0, <3>1 DEF ArrayAt
  <2>2. \A s \in Beside(r) : Facing(r, s) \subseteq Padded(r)
    BY <1>0, <1>5, PaddedIs
  <2>3. g.f # "dem"
    BY <1>0, <1>1 DEF Fields
  <2> QED BY <1>0, <1>3, <1>4, <2>1, <2>2, <2>3 DEF Published
<1>14. StillPublished(g, r)
  <2>1. ASSUME NEW s \in Beside(r), NEW n \in Int, n > Received(s), n <= count[r], ArrayAt(g, n) \in Fields,
               n = count'[r] \/ ~ changed'[r]
        PROVE  /\ n = count[r] \/ ~ changed[r]
               /\ \A c \in Facing(r, s) : arr'[r][g.f][c] = arr[r][g.f][c]
    <3>1. PICK k, b, c, e : k = Received(s) /\ b = g.b /\ c = count[r] /\ e = End(g)
      OBVIOUS
    <3>2. k \in Int /\ k >= b /\ b \in Nat /\ c = e - 1 /\ e \in Nat
          /\ e = (IF g.k = "start" THEN 4 ELSE IF g.k = "leave" THEN b + 2 ELSE b + 1)
          /\ (g.k = "start" => b = 0) /\ n > k /\ n <= c
      BY <1>0, <1>1, <2>1, <3>1, Apart, SegmentIs
    <3>3. n # count'[r]
      BY <1>0, <3>1, <3>2
    <3>4. n = c
      <4>1. CASE g.k = "start"
        <5>1. n \in {1, 2, 3} /\ c = 3
          BY <1>0, <3>2, <4>1
        <5>2. n # 1 /\ n # 2
          BY <1>0, <2>1, <4>1 DEF ArrayAt, Fields
        <5> QED BY <1>0, <5>1, <5>2
      <4>2. CASE g.k # "start"
        BY <1>0, <3>2, <4>2
      <4> QED BY <1>0, <4>1, <4>2
    <3>5. Facing(r, s) \subseteq Owned(r)
      BY <1>0, PaddedIs
    <3> QED BY <1>0, <1>9, <2>1, <3>1, <3>3, <3>4, <3>5 DEF EdgeKept
  <2> QED BY <1>0, <2>1 DEF StillPublished
<1>15. \A f \in Before(g.f) : \A c \in Owned(r) : arr'[r][f][c] = arr[r][f][c]
  <2>1. Before(g.f) \subseteq Arrays \ {g.f}
    BY <1>0, <1>1 DEF Before, Arrays, Fields
  <2> QED BY <1>0, <1>4, <2>1
<1> QED
  <2>1. PICK shipped, name : shipped = TRUE /\ name = g.f
    OBVIOUS
  <2>2. MailIs(r, took, shipped, name, new) /\ shipped \in BOOLEAN /\ Published(g, r, name, new)
    BY <1>0, <1>13, <2>1
  <2>3. count'[r] = count[r] + (IF shipped THEN 1 ELSE 0)
    BY <1>0, <2>1
  <2> HIDE <2>1
  <2> QED BY <1>0, <1>7, <1>8, <1>10, <1>11, <1>12, <1>14, <1>15, <2>2, <2>3, Moves

\* The padded array with the halo just taken.
LEMMA EnterKeeps ==
  ASSUME NEW g \in Segments, Shapes, Shared(g), NEW r \in Ranks, Enter(r)
  PROVE  Shapes' /\ Shared(g)'
<1>0. pc[r] = "enter" /\ Has(mail, Awaited(r)) /\ Receiving(r)
  BY DEF Enter, At, Receiving
<1>1. g.k \in {"start", "leave"} /\ g.f \in Fields /\ count[r] = End(g) - 1 /\ field[r] = g.f /\ End(g) \in Nat
  <2>1. Placed(g, r)
    BY DEF Shared
  <2>2. Entering(g, r)
    BY <1>0, <2>1 DEF Placed, Early, Entering, Sweeping, Voting, Behind, Masking
  <2> QED BY <1>0, <2>2, SegmentIs DEF Entering, Fields
<1> DEFINE V == WithHalo(r, arr[r][g.f])
           N == Converged(g.f, arr[r].dem, arr[r].sd, Padded(r), Owned(r), V)
<1>2. PICK values, new, f : values = V /\ new = N /\ f = g.f
  OBVIOUS
<1>3. /\ arr' = [arr EXCEPT ![r][g.f] = new] /\ mail' = Ship(Receive(mail, Awaited(r)), r, f, new)
      /\ changed' = [changed EXCEPT ![r] = (new # values)]
      /\ Exchanges(r) /\ pc' = [pc EXCEPT ![r] = "edges"] /\ field' = field /\ dem' = dem
  BY <1>1, <1>2 DEF Enter, Round
<1>4. new = Converged(g.f, arr[r]["dem"], arr[r]["sd"], Padded(r), Owned(r), values)
  BY <1>2
<1> HIDE DEF V, N
<1>5. arr[r][g.f] \in [Padded(r) -> Nat]
  BY <1>0, <1>1 DEF Shared, ArraysAre, Fields
<1>6. PICK halo : halo = Halo(r)
  OBVIOUS
<1>7. /\ DOMAIN halo = Padded(r) \ Owned(r)
      /\ \A s \in Beside(r) : \A c \in Facing(s, r) :
           /\ count[r] <= count[s]
           /\ halo[c] \in Nat /\ (count[r] = count[s] \/ ~ changed[s] => halo[c] = arr[s][g.f][c])
  <2>1. IsTaken(g, r, halo)
    BY <1>0, <1>6, HaloTaken
  <2>2. ArrayAt(g, count[r]) = g.f
    <3>1. g.k = "start" => count[r] = 3
      BY <1>1 DEF End
    <3> QED BY <3>1 DEF ArrayAt
  <2> QED BY <1>1, <2>1, <2>2 DEF IsTaken
<1>8. /\ values \in [Padded(r) -> Nat] /\ \A c \in Owned(r) : values[c] = arr[r][g.f][c]
      /\ \A c \in Padded(r) \ Owned(r) : values[c] = halo[c]
  <2>1. values = [c \in Padded(r) |-> IF c \in Owned(r) THEN arr[r][g.f][c] ELSE halo[c]]
    BY <1>2, <1>6 DEF V, WithHalo
  <2>2. \A c \in Padded(r) \ Owned(r) : halo[c] \in Nat
    BY <1>7, PaddedIs
  <2> QED BY <1>5, <2>1, <2>2, PaddedIs
<1>9. ASSUME NEW s \in Beside(r), NEW c \in Facing(s, r), count[s] # End(g) \/ ~ changed[s]
      PROVE  values[c] = arr[s][g.f][c]
  <2>1. c \in Padded(r) \ Owned(r) /\ s \in Ranks /\ r \in Beside(s)
    BY PaddedIs
  <2>2. count[s] \in Nat /\ count[s] <= End(g)
    BY <2>1, Apart
  <2>3. count[r] <= count[s]
    BY <1>7
  <2>4. count[r] = count[s] \/ ~ changed[s]
    BY <1>1, <1>9, <2>2, <2>3
  <2> QED BY <1>7, <1>8, <2>1, <2>4
<1>10. ArrStays(r) /\ ChangedStays(r)
  BY <1>3 DEF ArrStays, ChangedStays, Shapes
<1>11. /\ Shapes' /\ OthersStay(r) /\ VotesAre(g)' /\ MailIs(r, TRUE, TRUE, f, new)
      /\ pc'[r] = "edges" /\ count'[r] = count[r] + 1 /\ Received(r)' = Received(r) + 1
  <2>1. PICK shipped : shipped = TRUE
    OBVIOUS
  <2>2. /\ mail' = IF shipped THEN Ship(Receive(mail, Awaited(r)), r, f, new) ELSE Receive(mail, Awaited(r))
        /\ IF shipped THEN Exchanges(r) ELSE count' = count
        /\ pc' = [pc EXCEPT ![r] = "edges"]
        /\ dem' = dem /\ field' = field /\ ChangedStays(r) /\ shipped \in BOOLEAN
        /\ "edges" \in {"dem", "sd", "enter", "edges", "mask"} <=> shipped
    BY <1>3, <1>10, <2>1
  <2>3. IsExchange(g, r, shipped, f, new, "edges")
    BY <1>0, <1>10, <2>2, Exchanged
  <2> QED BY <2>1, <2>3 DEF IsExchange
<1>12. changed'[r] = (new # values)
  BY <1>3 DEF Shapes
<1> QED
  <2>1. PICK took : took = TRUE
    OBVIOUS
  <2>2. MailIs(r, took, TRUE, g.f, new) /\ Received(r)' = Received(r) + (IF took THEN 1 ELSE 0) /\ took \in BOOLEAN
    BY <1>2, <1>11, <2>1
  <2>3. g.k # "mask" /\ pc[r] \notin {"start", "dem", "sd"}
    BY <1>0, <1>1
  <2>4. RoundBegins(g, r, values)
    BY <1>1, <1>8, <1>9, <2>3 DEF RoundBegins
  <2>5. RoundEnds(g, r, took, values, new)
    BY <1>3, <1>4, <1>11, <1>12, <2>2 DEF RoundEnds
  <2>6. Shared(g)'
    BY <1>11, <2>2, <2>4, <2>5, RoundKeeps
  <2> QED BY <1>11, <2>6

-----------------------------------------------------------------------------
\* Without an exchange begun, what is published stays so.
LEMMA StaysPublished ==
  ASSUME NEW g, NEW r \in Ranks, count'[r] = count[r], changed'[r] = changed[r],
         \A c \in Owned(r) : arr'[r][g.f][c] = arr[r][g.f][c]
  PROVE  StillPublished(g, r)
<1>1. \A s \in Beside(r) : Facing(r, s) \subseteq Owned(r)
  BY PaddedIs
<1> QED BY <1>1 DEF StillPublished

\* The mask has its halo.
LEMMA FinishKeeps ==
  ASSUME NEW g \in Segments, Shapes, Shared(g), NEW r \in Ranks, Finish(r)
  PROVE  Shapes' /\ Shared(g)'
<1>0. pc[r] = "mask" /\ Has(mail, Awaited(r)) /\ Receiving(r)
  BY DEF Finish, At, Receiving
<1>1. g.k = "mask" /\ count[r] = g.b + 1 /\ field[r] = g.f
  <2>1. Placed(g, r)
    BY DEF Shared
  <2>2. Masking(g, r)
    BY <1>0, <2>1 DEF Placed, Early, Entering, Sweeping, Voting, Behind, Masking
  <2> QED BY <2>2 DEF Masking
<1>2. ArrStays(r) /\ ChangedStays(r) /\ arr' = arr /\ changed' = changed /\ field' = field /\ dem' = dem /\ count' = count
  BY DEF Finish, ArrStays, ChangedStays, Shapes
<1>3. PICK name, values : name = "mask" /\ values = <<>>
  OBVIOUS
<1>4. /\ Shapes' /\ OthersStay(r) /\ VotesAre(g)' /\ MailIs(r, TRUE, FALSE, name, values)
      /\ pc'[r] = "done" /\ count'[r] = count[r] /\ Received(r)' = Received(r) + 1
  <2>1. PICK shipped : shipped = FALSE
    OBVIOUS
  <2>2. /\ mail' = IF shipped THEN Ship(Receive(mail, Awaited(r)), r, name, values) ELSE Receive(mail, Awaited(r))
        /\ IF shipped THEN Exchanges(r) ELSE count' = count
        /\ pc' = [pc EXCEPT ![r] = "done"]
        /\ shipped \in BOOLEAN
        /\ "done" \in {"dem", "sd", "enter", "edges", "mask"} <=> shipped
    BY <2>1 DEF Finish
  <2>3. IsExchange(g, r, shipped, name, values, "done")
    BY <1>0, <1>2, <2>2, Exchanged
  <2> QED BY <1>2, <2>1, <2>3 DEF IsExchange
<1>5. Placed(g, r)' /\ ArraysAre(r)' /\ StillIs(g, r)'
  <2>1. Placed(g, r)'
    BY <1>1, <1>2, <1>4 DEF Placed, Masking
  <2>2. ArraysAre(r)'
    BY <1>0, <1>2, <1>4 DEF ArraysAre, Shared
  <2>3. StillIs(g, r)'
    BY <1>4 DEF StillIs, Sweeping, Voting
  <2> QED BY <2>1, <2>2, <2>3
<1>6. ASSUME NEW s \in Beside(r) PROVE HaloIs(g, r, s)' /\ HaloIs(g, s, r)'
  <2>1. HaloIs(g, r, s)'
    BY <1>1 DEF HaloIs, Sweeping, Voting, Behind
  <2>2. HaloIs(g, s, r)'
    BY <1>1 DEF HaloIs, Sweeping, Voting, Behind
  <2> QED BY <2>1, <2>2
<1>7. StillPublished(g, r)
  BY <1>2, StaysPublished
<1>8. \A s \in Beside(r) : ~ Voting(g, s)
  BY <1>1 DEF Voting
<1>9. \A f \in Before(g.f) : \A c \in Owned(r) : arr'[r][f][c] = arr[r][f][c]
  BY <1>2
<1> QED
  <2>1. PICK took, shipped : took = TRUE /\ shipped = FALSE
    OBVIOUS
  <2>2. MailIs(r, took, shipped, name, values) /\ took \in BOOLEAN /\ shipped \in BOOLEAN
        /\ (shipped => Published(g, r, name, values))
    BY <1>4, <2>1
  <2>3. count'[r] = count[r] + (IF shipped THEN 1 ELSE 0) /\ Received(r)' = Received(r) + IF took THEN 1 ELSE 0
    <3>1. count[r] \in Nat
      BY DEF Shapes
    <3> QED BY <1>4, <2>1, <3>1
  <2> HIDE <2>1
  <2>4. Shared(g)'
    BY <1>4, <1>5, <1>6, <1>7, <1>8, <1>9, <2>2, <2>3, Moves
  <2> QED BY <1>4, <2>4

-----------------------------------------------------------------------------
\* The mail when a rank votes.
LEMMA VoteSent ==
  ASSUME NEW g \in Segments, Shapes, VotesAre(g), NEW r \in Ranks, Receiving(r), Has(mail, Awaited(r)), OthersStay(r),
         ~ Voting(g, r), ~ Behind(g, r), Voting(g, r)', changed'[r] = changed[r], ~ Behind(g, r)',
         mail' = Sent(Receive(mail, Awaited(r)), [key \in {<<t, 0, "chg">> : t \in {r} \ {0}} |-> changed[r]])
  PROVE  /\ MailIs(r, TRUE, FALSE, "mask", <<>>) /\ VotesAre(g)'
         /\ IsMail(mail)' /\ DOMAIN mail' \subseteq Keys
<1>0. IsMail(mail) /\ DOMAIN mail \subseteq Keys /\ \A s \in Beside(r) : s \in Ranks /\ s # r /\ r \in Beside(s)
  BY PaddedIs DEF Shapes
<1>1. PICK m, f, x : /\ m = Receive(mail, Awaited(r)) /\ x = changed[r]
                     /\ f = [key \in {<<t, 0, "chg">> : t \in {r} \ {0}} |-> changed[r]]
  OBVIOUS
<1>2. /\ IsMail(m) /\ DOMAIN m \subseteq Keys
      /\ \A s, t \in Ranks :
           Waiting(m, Seam(s, t)) = IF t = r /\ s \in Beside(r) THEN Tail(Columns(s, t)) ELSE Columns(s, t)
      /\ \A s \in Beside(r) : Columns(s, r) # <<>>
      /\ \A t : /\ Waiting(m, <<t, 0, "chg">>) = Waiting(mail, <<t, 0, "chg">>)
                /\ Waiting(m, <<0, t, "cont">>) = Waiting(mail, <<0, t, "cont">>)
  BY <1>0, <1>1, Taking
<1>3. DOMAIN f = {<<t, 0, "chg">> : t \in {r} \ {0}} /\ \A k \in DOMAIN f : f[k] = x
  BY <1>1
<1>4. /\ IsMail(Sent(m, f)) /\ DOMAIN Sent(m, f) = DOMAIN m \cup DOMAIN f
      /\ \A key : Waiting(Sent(m, f), key) = IF key \in DOMAIN f THEN Append(Waiting(m, key), f[key]) ELSE Waiting(m, key)
  <2>1. IsMail(Sent(m, f)) /\ DOMAIN Sent(m, f) = DOMAIN m \cup DOMAIN f
    BY <1>2, SentIs
  <2>2. \A key : Waiting(Sent(m, f), key) = IF key \in DOMAIN f THEN Append(Waiting(m, key), f[key]) ELSE Waiting(m, key)
    <3>1. IsMail(m)
      BY <1>2
    <3> QED BY <3>1, SentIs
  <2> QED BY <2>1, <2>2
<1>5. PICK new : new = Sent(m, f)
  OBVIOUS
<1>6. mail' = new
  BY <1>1, <1>5
<1>7. /\ IsMail(new) /\ DOMAIN new = DOMAIN m \cup DOMAIN f
      /\ \A key : Waiting(new, key) = IF key \in DOMAIN f THEN Append(Waiting(m, key), f[key]) ELSE Waiting(m, key)
  BY <1>4, <1>5
<1>8. \A k : Waiting(mail, k)' = Waiting(new, k)
  BY <1>6 DEF Waiting
<1>9. IsMail(mail)' /\ DOMAIN mail' \subseteq Keys
  <2>1. \A k \in DOMAIN f : k \in Keys
    BY <1>3 DEF Keys, ToZero, Others
  <2>2. IsMail(mail)' <=> IsMail(new)
    BY <1>6 DEF IsMail, IsQueue
  <2> QED BY <1>2, <1>6, <1>7, <2>1, <2>2
<1>10. \A s, t \in Ranks : Columns(s, t)' = IF t = r /\ s \in Beside(r) THEN Tail(Columns(s, t)) ELSE Columns(s, t)
  <2>1. \A s, t \in Ranks : Seam(s, t) \notin DOMAIN f
    BY <1>3, KeysDiffer
  <2> QED BY <1>2, <1>7, <1>8, <2>1 DEF Columns
<1>11. MailIs(r, TRUE, FALSE, "mask", <<>>)
  BY <1>0, <1>2, <1>10 DEF MailIs
<1>12. ASSUME NEW t \in Others
       PROVE  /\ Waiting(mail, <<t, 0, "chg">>)' = IF Voting(g, t)' THEN <<changed'[t]>> ELSE <<>>
              /\ Waiting(mail, <<0, t, "cont">>)' = IF Behind(g, t)' THEN <<g.k = "go">> ELSE <<>>
  <2>1. t \in Ranks /\ t # 0
    BY DEF Others
  <2>2. /\ Waiting(mail, <<t, 0, "chg">>) = IF Voting(g, t) THEN <<changed[t]>> ELSE <<>>
        /\ Waiting(mail, <<0, t, "cont">>) = IF Behind(g, t) THEN <<g.k = "go">> ELSE <<>>
    BY DEF VotesAre
  <2>3. <<0, t, "cont">> \notin DOMAIN f /\ (<<t, 0, "chg">> \in DOMAIN f <=> t = r)
    BY <1>3, <2>1
  <2>4. CASE t = r
    <3>1. Waiting(m, <<t, 0, "chg">>) = <<>> /\ Waiting(m, <<0, t, "cont">>) = <<>>
      BY <1>2, <2>2, <2>4
    <3>2. Waiting(mail, <<t, 0, "chg">>)' = Append(<<>>, x)
      BY <1>3, <1>7, <1>8, <2>3, <2>4, <3>1
    <3>3. Waiting(mail, <<0, t, "cont">>)' = <<>>
      BY <1>7, <1>8, <2>3, <3>1
    <3>4. Append(<<>>, x) = <<x>>
      OBVIOUS
    <3> QED BY <1>1, <2>4, <3>2, <3>3, <3>4
  <2>5. CASE t # r
    <3>1. (Voting(g, t)' <=> Voting(g, t)) /\ (Behind(g, t)' <=> Behind(g, t)) /\ changed'[t] = changed[t]
      BY <2>1, <2>5 DEF OthersStay, Voting, Behind
    <3> QED BY <1>2, <1>7, <1>8, <2>2, <2>3, <2>5, <3>1
  <2> QED BY <2>4, <2>5
<1> QED BY <1>9, <1>11, <1>12 DEF VotesAre

\* The new edges of the neighbours are taken, and the vote is cast.
LEMMA TakeEdgesKeeps ==
  ASSUME NEW g \in Segments, Shapes, Shared(g), NEW r \in Ranks, TakeEdges(r)
  PROVE  Shapes' /\ Shared(g)'
<1>0. pc[r] = "edges" /\ Has(mail, Awaited(r)) /\ Receiving(r)
  BY DEF TakeEdges, At, Receiving
<1>1. Sweeping(g, r) /\ g.k # "mask" /\ g.f \in Fields /\ count[r] = End(g) /\ field[r] = g.f /\ End(g) \in Nat
  <2>1. Placed(g, r)
    BY DEF Shared
  <2>2. Sweeping(g, r)
    BY <1>0, <2>1 DEF Placed, Early, Entering, Sweeping, Voting, Behind, Masking
  <2> QED BY <1>0, <2>2, SegmentIs DEF Sweeping, Fields
<1> DEFINE V == WithHalo(r, arr[r][g.f])
<1>2. PICK values : values = V
  OBVIOUS
<1>3. /\ arr' = [arr EXCEPT ![r][g.f] = values] /\ dem' = dem /\ changed' = changed /\ count' = count /\ field' = field
      /\ pc' = [pc EXCEPT ![r] = IF r = 0 THEN "votes" ELSE "answer"]
  <2>1. arr' = [arr EXCEPT ![r][g.f] = WithHalo(r, arr[r][g.f])]
    BY <1>1 DEF TakeEdges
  <2> QED BY <1>2, <2>1 DEF TakeEdges
<1> HIDE DEF V
<1>4. /\ arr'[r][g.f] = values /\ \A x \in Arrays \ {g.f} : arr'[r][x] = arr[r][x]
      /\ DOMAIN arr' = Ranks /\ \A q \in Ranks : DOMAIN arr'[q] = Arrays
      /\ \A q \in Ranks \ {r} : arr'[q] = arr[q]
  BY <1>1, <1>3 DEF Shapes, Arrays, Fields
<1>5. /\ pc'[r] = (IF r = 0 THEN "votes" ELSE "answer")
      /\ (\A q \in Ranks \ {r} : pc'[q] = pc[q]) /\ pc' = [q \in Ranks |-> pc'[q]]
  <2>1. PICK x : x = IF r = 0 THEN "votes" ELSE "answer"
    OBVIOUS
  <2>2. pc' = [pc EXCEPT ![r] = x]
    BY <1>3, <2>1
  <2>3. pc'[r] = x /\ (\A q \in Ranks \ {r} : pc'[q] = pc[q]) /\ pc' = [q \in Ranks |-> pc'[q]]
    BY <2>2, Advance
  <2> QED BY <2>1, <2>3
<1>6. OthersStay(r)
  BY <1>3, <1>4, <1>5 DEF OthersStay
<1>7. Voting(g, r)' /\ ~ Behind(g, r)' /\ ~ Voting(g, r) /\ ~ Behind(g, r) /\ ~ Sweeping(g, r)'
  <2>1. Voting(g, r)'
    BY <1>1, <1>3, <1>5 DEF Voting
  <2>2. ~ Behind(g, r)' /\ ~ Sweeping(g, r)'
    <3>1. count'[r] = End(g) /\ g.b # End(g)
      <4>1. g.b \in Nat /\ g.b < End(g)
        BY SegmentIs
      <4> QED BY <1>1, <1>3, <4>1
    <3> QED BY <1>5, <3>1 DEF Behind, Sweeping
  <2> QED BY <1>0, <2>1, <2>2 DEF Voting, Behind
<1>8. /\ MailIs(r, TRUE, FALSE, "mask", <<>>) /\ VotesAre(g)'
      /\ IsMail(mail)' /\ DOMAIN mail' \subseteq Keys
  <2>1. VotesAre(g)
    BY DEF Shared
  <2>2. mail' = Sent(Receive(mail, Awaited(r)), [key \in {<<t, 0, "chg">> : t \in {r} \ {0}} |-> changed[r]])
    BY DEF TakeEdges
  <2>3. changed'[r] = changed[r]
    BY <1>3
  <2> QED BY <1>0, <1>6, <1>7, <2>1, <2>2, <2>3, VoteSent
<1>9. Shapes'
  BY <1>3, <1>4, <1>5, <1>8 DEF Shapes
<1>10. PICK halo : halo = Halo(r)
  OBVIOUS
<1>11. /\ \A s \in Beside(r) : \A c \in Facing(s, r) : halo[c] \in Nat /\ halo[c] = arr[s][g.f][c]
  <2>1. IsTaken(g, r, halo)
    BY <1>0, <1>10, HaloTaken
  <2>2. ArrayAt(g, count[r]) = g.f
    <3>1. g.k = "start" => count[r] = 4
      BY <1>1 DEF End
    <3> QED BY <3>1 DEF ArrayAt
  <2>3. ASSUME NEW s \in Beside(r), NEW c \in Facing(s, r) PROVE halo[c] \in Nat /\ halo[c] = arr[s][g.f][c]
    <3>1. s \in Ranks /\ r \in Beside(s)
      BY PaddedIs
    <3>2. count[s] \in Nat /\ count[s] <= End(g)
      BY <3>1, Apart
    <3>3. count[r] <= count[s] /\ halo[c] \in Nat /\ (count[r] = count[s] => halo[c] = arr[s][g.f][c])
      BY <1>1, <2>1, <2>2 DEF IsTaken
    <3> QED BY <1>1, <3>2, <3>3
  <2> QED BY <2>3
<1>12. arr[r][g.f] \in [Padded(r) -> Nat]
  BY <1>0, <1>1 DEF Shared, ArraysAre, Fields
<1>13. /\ values \in [Padded(r) -> Nat] /\ \A c \in Owned(r) : values[c] = arr[r][g.f][c]
       /\ \A c \in Padded(r) \ Owned(r) : values[c] = halo[c]
  <2>1. values = [c \in Padded(r) |-> IF c \in Owned(r) THEN arr[r][g.f][c] ELSE halo[c]]
    BY <1>2, <1>10 DEF V, WithHalo
  <2>2. \A c \in Padded(r) \ Owned(r) : halo[c] \in Nat
    BY <1>11, PaddedIs
  <2> QED BY <1>12, <2>1, <2>2, PaddedIs
<1>14. EdgeKept(g, r)
  BY <1>4, <1>13 DEF EdgeKept
<1>15. Placed(g, r)'
  BY <1>7 DEF Placed
<1>16. ArraysAre(r)'
  <2>1. ArraysAre(r)
    BY DEF Shared
  <2>2. {"dem", "sd", "away", "towards", "height"} \subseteq Arrays /\ g.f \in {"away", "towards", "height"}
    BY <1>1 DEF Arrays, Fields
  <2>3. arr'[r]["dem"] = arr[r]["dem"] /\ arr'[r]["sd"] = arr[r]["sd"]
    BY <1>4, <2>2
  <2>4. /\ arr'[r]["away"] \in [Padded(r) -> Nat] /\ arr'[r]["towards"] \in [Padded(r) -> Nat]
        /\ field[r] \in {"height", "mask"} => arr'[r]["height"] \in [Padded(r) -> Nat]
    <3>1. \A x \in {"away", "towards", "height"} : arr'[r][x] = values \/ arr'[r][x] = arr[r][x]
      BY <1>4, <2>2
    <3> QED BY <1>0, <1>13, <2>1, <3>1 DEF ArraysAre
  <2> QED BY <1>0, <1>3, <2>1, <2>3, <2>4 DEF ArraysAre
<1>17. ASSUME NEW s \in Beside(r) PROVE HaloIs(g, r, s)' /\ HaloIs(g, s, r)'
  <2>1. /\ s \in Ranks /\ s # r /\ Facing(s, r) \subseteq Padded(r) /\ Facing(s, r) \cap Owned(r) = {}
    BY PaddedIs
  <2>2. Sees(g, r, s)'
    BY <1>4, <1>11, <1>13, <2>1 DEF Sees
  <2>3. HaloIs(g, r, s)'
    BY <1>7, <2>2 DEF HaloIs
  <2>4. HaloIs(g, s, r)'
    <3>1. count'[r] = count[r] /\ changed'[r] = changed[r]
      BY <1>3
    <3> QED BY <1>6, <1>14, <3>1, ViewStays DEF EdgeKept
  <2> QED BY <2>3, <2>4
<1>18. StillIs(g, r)'
  <2>1. ASSUME ~ changed[r], \A s \in Beside(r) : ~ changed[s] PROVE Still(g.f, r)'
    <3>1. Still(g.f, r)
      BY <1>1, <2>1 DEF Shared, StillIs
    <3>2. ASSUME NEW s \in Beside(r), NEW c \in Facing(s, r) PROVE halo[c] = arr[r][g.f][c]
      <4>1. HaloIs(g, r, s)
        BY DEF Shared
      <4>2. Sees(g, r, s)
        BY <1>1, <2>1, <4>1 DEF HaloIs
      <4> QED BY <1>11, <4>2 DEF Sees
    <3>3. \A c \in Padded(r) \ Owned(r) : halo[c] = arr[r][g.f][c]
      BY <3>2, PaddedIs
    <3>4. arr'[r][g.f] = arr[r][g.f]
      BY <1>4, <1>12, <1>13, <3>3, PaddedIs
    <3>5. PICK d : d = arr[r][g.f]
      OBVIOUS
    <3>6. \A c \in Owned(r) \cap Worked(g.f) : Level(g.f, d, c)
      BY <3>1, <3>5 DEF Still
    <3>7. Worked(g.f)' = Worked(g.f) /\ \A c : Level(g.f, d, c)' <=> Level(g.f, d, c)
      BY <1>3 DEF Worked, FlatCells, Level
    <3> QED BY <3>4, <3>5, <3>6, <3>7 DEF Still, Level
  <2> QED BY <1>3, <1>7, <2>1 DEF StillIs
<1>19. StillPublished(g, r)
  BY <1>3, <1>14, StaysPublished DEF EdgeKept
<1>20. \A f \in Before(g.f) : \A c \in Owned(r) : arr'[r][f][c] = arr[r][f][c]
  <2>1. Before(g.f) \subseteq Arrays \ {g.f}
    BY <1>1 DEF Before, Arrays, Fields
  <2> QED BY <1>4, <2>1
<1>21. \A s \in Beside(r) : Voting(g, s) /\ ~ changed'[r] => ~ changed[r]
  BY <1>3
<1>22. Received(r)' = Received(r) + 1 /\ count'[r] = count[r] + 0
  <2>1. Received(r)' = count[r]
    BY <1>3, <1>5 DEF Received, Receiving
  <2>2. Received(r) = count[r] - 1
    BY <1>0 DEF Received
  <2> QED BY <1>1, <1>3, <2>1, <2>2
<1> QED
  <2>1. PICK took, shipped, name, v : took = TRUE /\ shipped = FALSE /\ name = "mask" /\ v = <<>>
    OBVIOUS
  <2>2. MailIs(r, took, shipped, name, v) /\ took \in BOOLEAN /\ shipped \in BOOLEAN
        /\ (shipped => Published(g, r, name, v))
    BY <1>8, <2>1
  <2>3. count'[r] = count[r] + (IF shipped THEN 1 ELSE 0) /\ Received(r)' = Received(r) + IF took THEN 1 ELSE 0
    BY <1>22, <2>1
  <2> HIDE <2>1
  <2>4. Shared(g)'
    BY <1>6, <1>8, <1>15, <1>16, <1>17, <1>18, <1>19, <1>20, <1>21, <2>2, <2>3, Moves
  <2> QED BY <1>9, <2>4

-----------------------------------------------------------------------------
\* A rank that takes an answer has waited for it.
FieldStays(r) == field' = [q \in Ranks |-> field'[q]] /\ \A q \in Ranks \ {r} : field'[q] = field[q]

IsAnswered(g, r, name, values, x) ==
  /\ Shapes' /\ OthersStay(r) /\ VotesAre(g)' /\ MailIs(r, FALSE, TRUE, name, values)
  /\ pc'[r] = x /\ count'[r] = count[r] + 1 /\ Received(r)' = Received(r)

\* The answer of rank 0 is the one that opened the segment.
LEMMA AnswerIs ==
  ASSUME NEW g \in Segments, Shapes, Shared(g), NEW r \in Ranks, At(r, "answer")
  PROVE  Behind(g, r) /\ First(mail, <<0, r, "cont">>) = (g.k = "go")
<1>1. r # 0 /\ Awaited(r) = {<<0, r, "cont">>} /\ pc[r] = "answer"
  <2>1. Placed(g, r) /\ pc[r] = "answer"
    BY DEF Shared, At
  <2> QED BY <2>1 DEF Placed, Early, Entering, Sweeping, Voting, Behind, Masking, Awaited
<1>2. <<0, r, "cont">> \in DOMAIN mail /\ IsMail(mail)
  BY <1>1 DEF At, Has, Shapes
<1>3. Waiting(mail, <<0, r, "cont">>) # <<>> /\ First(mail, <<0, r, "cont">>) = Waiting(mail, <<0, r, "cont">>)[1]
  BY <1>2, WaitingIs
<1>4. Waiting(mail, <<0, r, "cont">>) = IF Behind(g, r) THEN <<g.k = "go">> ELSE <<>>
  BY <1>1 DEF Shared, VotesAre, Others
<1> QED BY <1>3, <1>4

\* A rank takes the answer and publishes what follows it.
LEMMA Answered ==
  ASSUME NEW g \in Segments, Shapes, Shared(g), NEW r \in Ranks, NEW name, NEW values,
         NEW x, At(r, "answer"),
         mail' = Ship(Receive(mail, Awaited(r)), r, name, values),
         pc' = [pc EXCEPT ![r] = x], Exchanges(r),
         dem' = dem, FieldStays(r), ArrStays(r), ChangedStays(r), x \in {"enter", "edges", "mask"}
  PROVE  IsAnswered(g, r, name, values, x)
<1>0. /\ r # 0 /\ Awaited(r) = {<<0, r, "cont">>} /\ pc[r] = "answer" /\ Behind(g, r) /\ Has(mail, Awaited(r))
      /\ IsMail(mail) /\ DOMAIN mail \subseteq Keys
  BY AnswerIs DEF Behind, At, Awaited, Shapes
<1>1. pc'[r] = x /\ (\A q \in Ranks \ {r} : pc'[q] = pc[q]) /\ pc' = [q \in Ranks |-> pc'[q]]
  BY Advance
<1>2. /\ count'[r] = count[r] + 1 /\ (\A q \in Ranks \ {r} : count'[q] = count[q])
      /\ count' \in [Ranks -> Nat] /\ count[r] \in Nat
  BY Counted
<1>3. OthersStay(r)
  BY <1>1, <1>2 DEF OthersStay, ArrStays, ChangedStays, FieldStays
<1>4. PICK m, new : m = Receive(mail, Awaited(r)) /\ new = Ship(m, r, name, values)
  OBVIOUS
<1>5. /\ IsMail(m) /\ DOMAIN m \subseteq DOMAIN mail
      /\ \A key : Waiting(m, key) = IF key \in Awaited(r) THEN Tail(Waiting(mail, key)) ELSE Waiting(mail, key)
  BY <1>0, <1>4, ReceiveIs
<1>6. IsShipped(m, new, r, name, values)
  <2>1. DOMAIN m \subseteq Keys
    BY <1>0, <1>5
  <2> QED BY <1>4, <1>5, <2>1, Shipping
<1>7. \A s, t \in Ranks : Waiting(m, Seam(s, t)) = Columns(s, t)
  BY <1>0, <1>5, KeysDiffer DEF Columns
<1>8. \A k : Waiting(mail, k)' = Waiting(new, k)
  BY <1>4 DEF Waiting
<1>9. IsMail(mail)' /\ DOMAIN mail' \subseteq Keys
  <2>1. mail' = new
    BY <1>4
  <2>2. IsMail(mail)' <=> IsMail(new)
    BY <2>1 DEF IsMail, IsQueue
  <2> QED BY <1>6, <2>1, <2>2 DEF IsShipped
<1>10. MailIs(r, FALSE, TRUE, name, values)
  <2>1. \A s, t \in Ranks :
          Columns(s, t)' =
                IF s = r /\ t \in Beside(r)
                THEN Append(Columns(s, t),
                            [array |-> name, number |-> count[r] + 1, column |-> Restrict(values, Facing(r, t))])
                ELSE Columns(s, t)
    <3>1. ASSUME NEW s \in Ranks, NEW t \in Ranks
          PROVE Columns(s, t)' =
                IF s = r /\ t \in Beside(r)
                THEN Append(Columns(s, t),
                            [array |-> name, number |-> count[r] + 1, column |-> Restrict(values, Facing(r, t))])
                ELSE Columns(s, t)
      <4>1. Columns(s, t)' = Waiting(new, Seam(s, t)) /\ Waiting(m, Seam(s, t)) = Columns(s, t)
        BY <1>7, <1>8 DEF Columns
      <4> QED BY <1>6, <4>1 DEF IsShipped
    <3> QED BY <3>1
  <2>2. \A s \in Beside(r) : s \in Ranks /\ s # r
    BY PaddedIs
  <2> QED BY <2>1, <2>2 DEF MailIs
<1>11. ASSUME NEW t \in Others
       PROVE  /\ Waiting(mail, <<t, 0, "chg">>)' = IF Voting(g, t)' THEN <<changed'[t]>> ELSE <<>>
              /\ Waiting(mail, <<0, t, "cont">>)' = IF Behind(g, t)' THEN <<g.k = "go">> ELSE <<>>
  <2>1. t \in Ranks /\ t # 0
    BY DEF Others
  <2>2. /\ Waiting(mail, <<t, 0, "chg">>) = IF Voting(g, t) THEN <<changed[t]>> ELSE <<>>
        /\ Waiting(mail, <<0, t, "cont">>) = IF Behind(g, t) THEN <<g.k = "go">> ELSE <<>>
    BY DEF Shared, VotesAre
  <2>3. <<t, 0, "chg">> \notin Awaited(r) /\ (<<0, t, "cont">> \in Awaited(r) <=> t = r)
    BY <1>0, <2>1
  <2>4. Waiting(mail, <<t, 0, "chg">>)' = Waiting(mail, <<t, 0, "chg">>)
    BY <1>5, <1>6, <1>8, <2>3 DEF IsShipped
  <2>5. Waiting(mail, <<0, t, "cont">>)' = IF t = r THEN Tail(Waiting(mail, <<0, t, "cont">>)) ELSE Waiting(mail, <<0, t, "cont">>)
    BY <1>5, <1>6, <1>8, <2>3 DEF IsShipped
  <2>6. CASE t = r
    <3>1. ~ Voting(g, r) /\ ~ Voting(g, r)' /\ ~ Behind(g, r)'
      <4>1. ~ Voting(g, r)
        <5>1. g.b \in Nat /\ g.b < End(g) /\ count[r] = g.b
          BY <1>0, SegmentIs DEF Behind
        <5> QED BY <5>1 DEF Voting
      <4> QED BY <1>0, <1>1, <4>1 DEF Voting, Behind
    <3>2. PICK v : v = (g.k = "go")
      OBVIOUS
    <3>3. Waiting(mail, <<0, t, "cont">>) = <<v>>
      BY <1>0, <2>2, <2>6, <3>2
    <3>4. Tail(<<v>>) = <<>>
      OBVIOUS
    <3> QED BY <2>2, <2>4, <2>5, <2>6, <3>1, <3>3, <3>4
  <2>7. CASE t # r
    <3>1. (Voting(g, t)' <=> Voting(g, t)) /\ (Behind(g, t)' <=> Behind(g, t)) /\ changed'[t] = changed[t]
      BY <1>3, <2>1, <2>7 DEF OthersStay, Voting, Behind
    <3> QED BY <2>2, <2>4, <2>5, <2>7, <3>1
  <2> QED BY <2>6, <2>7
<1>12. Shapes'
  <2>1. ASSUME NEW q \in Ranks PROVE DOMAIN arr'[q] = Arrays
    BY DEF ArrStays, Shapes
  <2>2. dem' \in Inputs
    BY DEF Shapes
  <2> QED BY <1>1, <1>2, <1>9, <2>1, <2>2 DEF Shapes, ArrStays, ChangedStays, FieldStays
<1>13. Received(r)' = Received(r)
  BY <1>0, <1>1, <1>2 DEF Received, Receiving
<1> QED BY <1>1, <1>2, <1>3, <1>10, <1>11, <1>12, <1>13 DEF IsAnswered, VotesAre

-----------------------------------------------------------------------------
\* Another round.
LEMMA AnotherRound ==
  ASSUME NEW g \in Segments, Shapes, Shared(g), NEW r \in Ranks, At(r, "answer"), g.k = "go",
         Round(r, Receive(mail, Awaited(r)), arr[r][field[r]]), dem' = dem
  PROVE  Shapes' /\ Shared(g)'
<1>0. Behind(g, r) /\ pc[r] = "answer" /\ r # 0
  BY AnswerIs DEF Behind
<1>1. g.f \in Fields /\ count[r] = End(g) - 1 /\ field[r] = g.f /\ End(g) \in Nat
  BY <1>0, SegmentIs DEF Behind, End
<1> DEFINE V == arr[r][g.f]
           N == Converged(g.f, arr[r].dem, arr[r].sd, Padded(r), Owned(r), V)
<1>2. PICK values, new, f : values = V /\ new = N /\ f = g.f
  OBVIOUS
<1>3. /\ arr' = [arr EXCEPT ![r][g.f] = new] /\ mail' = Ship(Receive(mail, Awaited(r)), r, f, new)
      /\ changed' = [changed EXCEPT ![r] = (new # values)]
      /\ Exchanges(r) /\ pc' = [pc EXCEPT ![r] = "edges"] /\ field' = field
  BY <1>1, <1>2 DEF Round
<1>4. new = Converged(g.f, arr[r]["dem"], arr[r]["sd"], Padded(r), Owned(r), values)
  BY <1>2
<1> HIDE DEF V, N
<1>5. values = arr[r][g.f]
  BY <1>2 DEF V
<1>6. values \in [Padded(r) -> Nat]
  BY <1>0, <1>1, <1>5 DEF Shared, ArraysAre, Fields
<1>7. ArrStays(r) /\ ChangedStays(r) /\ FieldStays(r)
  BY <1>3 DEF ArrStays, ChangedStays, FieldStays, Shapes
<1>8. /\ Shapes' /\ OthersStay(r) /\ VotesAre(g)' /\ MailIs(r, FALSE, TRUE, f, new)
      /\ pc'[r] = "edges" /\ count'[r] = count[r] + 1 /\ Received(r)' = Received(r)
  <2>1. IsAnswered(g, r, f, new, "edges")
    BY <1>3, <1>7, Answered
  <2> QED BY <2>1 DEF IsAnswered
<1>9. changed'[r] = (new # values)
  BY <1>3 DEF Shapes
<1>10. RoundBegins(g, r, values)
  <2>1. ASSUME NEW s \in Beside(r), NEW c \in Facing(s, r), count[s] # End(g) \/ ~ changed[s]
        PROVE  values[c] = arr[s][g.f][c]
    <3>1. HaloIs(g, r, s)
      BY DEF Shared
    <3>2. Sees(g, r, s)
      BY <1>0, <2>1, <3>1 DEF HaloIs
    <3> QED BY <1>5, <3>2 DEF Sees
  <2> QED BY <1>0, <1>1, <1>5, <1>6, <2>1 DEF RoundBegins
<1> QED
  <2>1. PICK took : took = FALSE
    OBVIOUS
  <2>2. MailIs(r, took, TRUE, g.f, new) /\ Received(r)' = Received(r) + (IF took THEN 1 ELSE 0) /\ took \in BOOLEAN
    <3>1. Received(r) = count[r] /\ count[r] \in Nat
      BY <1>0 DEF Received, Receiving, Shapes
    <3>2. Received(r)' = Received(r) + 0
      BY <1>8, <3>1
    <3>3. MailIs(r, took, TRUE, g.f, new)
      BY <1>2, <1>8, <2>1
    <3> QED BY <2>1, <3>2, <3>3
  <2>3. RoundEnds(g, r, took, values, new)
    BY <1>3, <1>4, <1>8, <1>9, <2>2 DEF RoundEnds
  <2>4. Shared(g)'
    BY <1>8, <1>10, <2>2, <2>3, RoundKeeps
  <2> QED BY <1>8, <2>4

-----------------------------------------------------------------------------
\* A rank leaves a field for the next one.
LEMMA LeaveIs ==
  ASSUME Shapes, NEW r \in Ranks, ArraysAre(r), pc[r] \notin {"start", "dem", "sd"}, field[r] \in Fields, NEW m, Leave(r, m)
  PROVE  \E next \in {"towards", "height", "mask"} : \E values :
           /\ field[r] = Prev(next)
           /\ next # "mask" => values \in [Padded(r) -> Nat]
           /\ arr' = [arr EXCEPT ![r][next] = values] /\ mail' = Ship(m, r, next, values) /\ Exchanges(r)
           /\ field' = [field EXCEPT ![r] = next] /\ changed' = changed
           /\ pc' = [pc EXCEPT ![r] = IF next = "mask" THEN "mask" ELSE "enter"]
<1>1. CASE field[r] = "away"
  <2>1. PICK values : values = arr[r].towards
    OBVIOUS
  <2>2. values \in [Padded(r) -> Nat]
    BY <2>1 DEF ArraysAre
  <2>3. /\ arr' = [arr EXCEPT ![r]["towards"] = values] /\ mail' = Ship(m, r, "towards", values) /\ Exchanges(r)
        /\ field' = [field EXCEPT ![r] = "towards"] /\ changed' = changed
        /\ pc' = [pc EXCEPT ![r] = IF "towards" = "mask" THEN "mask" ELSE "enter"]
    BY <1>1, <2>1 DEF Leave
  <2> QED BY <1>1, <2>2, <2>3 DEF Prev
<1>2. CASE field[r] = "towards"
  <2> DEFINE V == HeightSeeds(arr[r].dem, arr[r].sd, Padded(r), Owned(r), arr[r].away)
  <2>1. PICK values : values = V
    OBVIOUS
  <2>2. values \in [Padded(r) -> Nat]
    <3>1. arr[r]["away"] \in [Padded(r) -> Nat]
      BY DEF ArraysAre
    <3>2. Owned(r) \subseteq Padded(r)
      BY PaddedIs
    <3> QED BY <2>1, <3>1, <3>2 DEF HeightSeeds
  <2>3. /\ arr' = [arr EXCEPT ![r]["height"] = V] /\ mail' = Ship(m, r, "height", V) /\ Exchanges(r)
        /\ field' = [field EXCEPT ![r] = "height"] /\ changed' = changed
        /\ pc' = [pc EXCEPT ![r] = IF "height" = "mask" THEN "mask" ELSE "enter"]
    BY <1>2 DEF Leave
  <2> QED BY <1>2, <2>1, <2>2, <2>3 DEF Prev
<1>3. CASE field[r] = "height"
  <2> DEFINE V == Mask(arr[r].dem, arr[r].sd, Padded(r), Owned(r), arr[r].away, arr[r].towards, arr[r].height)
  <2>3. /\ arr' = [arr EXCEPT ![r]["mask"] = V] /\ mail' = Ship(m, r, "mask", V) /\ Exchanges(r)
        /\ field' = [field EXCEPT ![r] = "mask"] /\ changed' = changed
        /\ pc' = [pc EXCEPT ![r] = IF "mask" = "mask" THEN "mask" ELSE "enter"]
    BY <1>3 DEF Leave
  <2> HIDE DEF V
  <2>4. "mask" \in {"towards", "height", "mask"} /\ field[r] = Prev("mask")
    BY <1>3 DEF Prev
  <2> QED BY <2>3, <2>4
<1> QED BY <1>1, <1>2, <1>3 DEF Fields

\* The arrays of a rank that has entered the next field.
HasEntered(r, next, values) ==
  ArraysAre(r)' /\ arr'[r][next] = values /\ \A x \in Arrays \ {next} : arr'[r][x] = arr[r][x]

\* The arrays of a rank that begins the next field.
LEMMA ArraysEntered ==
  ASSUME Shapes, NEW r \in Ranks, ArraysAre(r), pc[r] \notin {"start", "dem", "sd"}, field[r] \in Fields,
         NEW next \in {"towards", "height", "mask"}, NEW values, field[r] = Prev(next),
         next # "mask" => values \in [Padded(r) -> Nat],
         arr' = [arr EXCEPT ![r][next] = values], dem' = dem, field'[r] = next
  PROVE  HasEntered(r, next, values)
<1>1. arr'[r][next] = values /\ \A x \in Arrays \ {next} : arr'[r][x] = arr[r][x]
  BY DEF Shapes, Arrays
<1>2. {"dem", "sd", "away", "towards", "height"} \subseteq Arrays /\ next \notin {"dem", "sd"}
  BY DEF Arrays
<1>3. arr'[r]["dem"] = arr[r]["dem"] /\ arr'[r]["sd"] = arr[r]["sd"]
  BY <1>1, <1>2
<1>4. /\ arr'[r]["away"] \in [Padded(r) -> Nat] /\ arr'[r]["towards"] \in [Padded(r) -> Nat]
  BY <1>1, <1>2 DEF ArraysAre
<1>5. next = "mask" => arr'[r]["height"] \in [Padded(r) -> Nat]
  BY <1>1, <1>2 DEF ArraysAre, Prev
<1>6. next = "height" => arr'[r]["height"] \in [Padded(r) -> Nat]
  BY <1>1
<1> QED BY <1>1, <1>3, <1>4, <1>5, <1>6 DEF ArraysAre, HasEntered

\* A rank is told that the field is done.
LEMMA NextField ==
  ASSUME Shapes, NEW g \in Segments, Shared(g), NEW r \in Ranks, At(r, "answer"), g.k # "go",
         Leave(r, Receive(mail, Awaited(r))), dem' = dem
  PROVE  Shapes' /\ Shared(g)'
<1>0. Behind(g, r) /\ pc[r] = "answer" /\ r # 0 /\ g.k \in {"leave", "mask"} /\ count[r] = g.b /\ field[r] = Prev(g.f)
  BY AnswerIs, SegmentIs DEF Behind
<1>1. /\ g.f \in {"towards", "height", "mask"} /\ field[r] \in Fields /\ g.b \in Nat /\ ArraysAre(r)
      /\ g.k = "mask" <=> g.f = "mask"
  BY <1>0, SegmentIs DEF Prev, Fields, Shared
<1>2. PICK next \in {"towards", "height", "mask"} : \E values :
           /\ field[r] = Prev(next)
           /\ next # "mask" => values \in [Padded(r) -> Nat]
           /\ arr' = [arr EXCEPT ![r][next] = values] /\ mail' = Ship(Receive(mail, Awaited(r)), r, next, values) /\ Exchanges(r)
           /\ field' = [field EXCEPT ![r] = next] /\ changed' = changed
           /\ pc' = [pc EXCEPT ![r] = IF next = "mask" THEN "mask" ELSE "enter"]
  <2>1. PICK m : m = Receive(mail, Awaited(r))
    OBVIOUS
  <2>2. Leave(r, m) /\ pc[r] \notin {"start", "dem", "sd"}
    BY <1>0, <2>1
  <2>3. \E next \in {"towards", "height", "mask"} : \E values :
           /\ field[r] = Prev(next)
           /\ next # "mask" => values \in [Padded(r) -> Nat]
           /\ arr' = [arr EXCEPT ![r][next] = values] /\ mail' = Ship(m, r, next, values) /\ Exchanges(r)
           /\ field' = [field EXCEPT ![r] = next] /\ changed' = changed
           /\ pc' = [pc EXCEPT ![r] = IF next = "mask" THEN "mask" ELSE "enter"]
    BY <1>1, <2>2, LeaveIs
  <2> QED BY <2>1, <2>3
<1>3. PICK values :
           /\ field[r] = Prev(next)
           /\ next # "mask" => values \in [Padded(r) -> Nat]
           /\ arr' = [arr EXCEPT ![r][next] = values] /\ mail' = Ship(Receive(mail, Awaited(r)), r, next, values) /\ Exchanges(r)
           /\ field' = [field EXCEPT ![r] = next] /\ changed' = changed
           /\ pc' = [pc EXCEPT ![r] = IF next = "mask" THEN "mask" ELSE "enter"]
  BY <1>2
<1>4. next = g.f
  BY <1>0, <1>1, <1>3 DEF Prev
<1>5. ArrStays(r) /\ ChangedStays(r) /\ FieldStays(r) /\ field'[r] = next
  <2>1. ArrStays(r)
    BY <1>3 DEF ArrStays, Shapes, Arrays
  <2>2. FieldStays(r) /\ field'[r] = next
    <3>1. field = [q \in Ranks |-> field[q]]
      BY DEF Shapes
    <3> QED BY <1>3, <3>1 DEF FieldStays
  <2> QED BY <1>3, <2>1, <2>2 DEF ChangedStays, Shapes
<1>6. PICK x : x = IF next = "mask" THEN "mask" ELSE "enter"
  OBVIOUS
<1>7. /\ Shapes' /\ OthersStay(r) /\ VotesAre(g)' /\ MailIs(r, FALSE, TRUE, next, values)
      /\ pc'[r] = x /\ count'[r] = count[r] + 1 /\ Received(r)' = Received(r)
  <2>1. IsAnswered(g, r, next, values, x)
    <3>1. x \in {"enter", "edges", "mask"} /\ pc' = [pc EXCEPT ![r] = x]
      BY <1>3, <1>6
    <3> QED BY <1>3, <1>5, <3>1, Answered
  <2> QED BY <2>1 DEF IsAnswered
<1>8. ArraysAre(r)' /\ arr'[r][next] = values /\ \A y \in Arrays \ {next} : arr'[r][y] = arr[r][y]
  <2>1. pc[r] \notin {"start", "dem", "sd"}
    BY <1>0
  <2>2. arr' = [arr EXCEPT ![r][next] = values] /\ (next # "mask" => values \in [Padded(r) -> Nat]) /\ field[r] = Prev(next)
    BY <1>3
  <2>3. HasEntered(r, next, values)
    BY <1>1, <1>5, <2>1, <2>2, ArraysEntered
  <2> QED BY <2>3 DEF HasEntered
<1>9. Placed(g, r)' /\ StillIs(g, r)'
  <2>1. Placed(g, r)'
    <3>1. CASE g.k = "leave"
      <4>1. pc'[r] = "enter" /\ field'[r] = g.f /\ count'[r] = End(g) - 1
        BY <1>0, <1>1, <1>4, <1>5, <1>6, <1>7, <3>1 DEF End
      <4> QED BY <3>1, <4>1 DEF Placed, Entering
    <3>2. CASE g.k = "mask"
      <4>1. pc'[r] = "mask" /\ field'[r] = g.f /\ count'[r] = g.b + 1
        BY <1>0, <1>1, <1>4, <1>5, <1>6, <1>7, <3>2
      <4> QED BY <3>2, <4>1 DEF Placed, Masking
    <3> QED BY <1>0, <3>1, <3>2
  <2>2. StillIs(g, r)'
    BY <1>6, <1>7 DEF StillIs, Sweeping, Voting
  <2> QED BY <2>1, <2>2
<1>10. ASSUME NEW s \in Beside(r) PROVE HaloIs(g, r, s)' /\ HaloIs(g, s, r)'
  <2>1. HaloIs(g, r, s)'
    BY <1>0, <1>6, <1>7 DEF HaloIs, Sweeping, Voting, Behind
  <2>2. HaloIs(g, s, r)'
    <3>1. CASE g.k = "mask"
      BY <3>1 DEF HaloIs, Sweeping, Voting, Behind
    <3>2. CASE g.k = "leave"
      <4>1. count[r] < End(g) - 1
        BY <1>0, <1>1, <3>2 DEF End
      <4>2. g.k # "go"
        BY <3>2
      <4> QED BY <1>7, <4>1, <4>2, NoView
    <3> QED BY <1>0, <3>1, <3>2
  <2> QED BY <2>1, <2>2
<1>11. \A s \in Beside(r) : ~ Voting(g, s)
  <2>1. count[r] < End(g)
    BY <1>0, SegmentIs
  <2> QED BY <2>1, VotersKnow
<1>12. Published(g, r, next, values)
  <2>1. next = ArrayAt(g, count[r] + 1)
    BY <1>0, <1>4 DEF ArrayAt
  <2>2. \A s \in Beside(r) : Facing(r, s) \subseteq Padded(r)
    BY PaddedIs
  <2>3. next # "dem"
    OBVIOUS
  <2>4. next \in Fields => values \in [Padded(r) -> Nat]
    BY <1>3 DEF Fields
  <2> QED BY <1>4, <1>8, <2>1, <2>2, <2>3, <2>4 DEF Published
<1>13. StillPublished(g, r)
  <2>1. ASSUME NEW s \in Beside(r), NEW n \in Int, n > Received(s), n <= count[r] PROVE FALSE
    <3>1. PICK k, b : k = Received(s) /\ b = g.b
      OBVIOUS
    <3>2. k \in Int /\ k >= b /\ b \in Nat /\ n > k /\ n <= b
      BY <1>0, <1>1, <2>1, <3>1, Apart
    <3> QED BY <3>2
  <2> QED BY <2>1 DEF StillPublished
<1>14. \A f \in Before(g.f) : \A c \in Owned(r) : arr'[r][f][c] = arr[r][f][c]
  <2>1. Before(g.f) \subseteq Arrays \ {next}
    BY <1>1, <1>4 DEF Before, Arrays, Fields
  <2> QED BY <1>8, <2>1
<1> QED
  <2>1. PICK took, shipped : took = FALSE /\ shipped = TRUE
    OBVIOUS
  <2>2. MailIs(r, took, shipped, next, values) /\ took \in BOOLEAN /\ shipped \in BOOLEAN
    BY <1>7, <2>1
  <2>3. Received(r)' = Received(r) + 0
    <3>1. Received(r) = count[r] /\ count[r] \in Nat
      BY <1>0 DEF Received, Receiving, Shapes
    <3> QED BY <1>7, <3>1
  <2>4. count'[r] = count[r] + (IF shipped THEN 1 ELSE 0) /\ Received(r)' = Received(r) + IF took THEN 1 ELSE 0
    BY <1>7, <2>1, <2>3
  <2> HIDE <2>1
  <2>5. Shared(g)'
    BY <1>7, <1>8, <1>9, <1>10, <1>11, <1>12, <1>13, <1>14, <2>2, <2>4, Moves
  <2> QED BY <1>7, <2>5

\* A rank takes the answer of rank 0, whichever it is.
LEMMA TakeAnswerKeeps ==
  ASSUME NEW g \in Segments, Shapes, Shared(g), NEW r \in Ranks, TakeAnswer(r)
  PROVE  Shapes' /\ Shared(g)'
<1>1. At(r, "answer") /\ dem' = dem
  BY DEF TakeAnswer
<1>2. First(mail, <<0, r, "cont">>) = (g.k = "go")
  BY <1>1, AnswerIs
<1>3. CASE g.k = "go"
  <2>1. Round(r, Receive(mail, Awaited(r)), arr[r][field[r]])
    BY <1>2, <1>3 DEF TakeAnswer, Proceed
  <2> QED BY <1>1, <1>3, <2>1, AnotherRound
<1>4. CASE g.k # "go"
  <2>1. Leave(r, Receive(mail, Awaited(r)))
    BY <1>2, <1>4 DEF TakeAnswer, Proceed
  <2> QED BY <1>1, <1>4, <2>1, NextField
<1> QED BY <1>3, <1>4

-----------------------------------------------------------------------------
\* When rank 0 has all votes, all ranks have voted and taken what was under way.
AllVoted(g) ==
  /\ \A r \in Ranks : Voting(g, r) /\ \A s \in Beside(r) : Columns(s, r) = <<>> /\ Sees(g, r, s)
  /\ \A t \in Others : /\ Waiting(mail, <<t, 0, "chg">>) = <<changed[t]>> /\ Waiting(mail, <<0, t, "cont">>) = <<>>
                       /\ <<t, 0, "chg">> \in DOMAIN mail /\ First(mail, <<t, 0, "chg">>) = changed[t]

\* Rank 0 has every vote only when every rank has voted.
LEMMA VotesIn ==
  ASSUME NEW g \in Segments, Shapes, Shared(g), At(0, "votes")
  PROVE  AllVoted(g) /\ 0 \in Ranks
<1>1. 0 \in Ranks
  BY BoundsAre DEF Ranks
<1>2. pc[0] = "votes" /\ Awaited(0) = ToZero({"chg"}) /\ ToZero({"chg"}) \subseteq DOMAIN mail
  BY DEF At, Awaited, Has
<1>3. Voting(g, 0)
  <2>1. Placed(g, 0)
    BY <1>1 DEF Shared
  <2> QED BY <1>2, <2>1 DEF Placed, Early, Entering, Sweeping, Voting, Behind, Masking
<1>4. ASSUME NEW t \in Others
      PROVE  /\ Voting(g, t) /\ Waiting(mail, <<t, 0, "chg">>) = <<changed[t]>> /\ Waiting(mail, <<0, t, "cont">>) = <<>>
             /\ <<t, 0, "chg">> \in DOMAIN mail /\ First(mail, <<t, 0, "chg">>) = changed[t]
  <2>1. /\ Waiting(mail, <<t, 0, "chg">>) = IF Voting(g, t) THEN <<changed[t]>> ELSE <<>>
        /\ Waiting(mail, <<0, t, "cont">>) = IF Behind(g, t) THEN <<g.k = "go">> ELSE <<>>
    BY DEF Shared, VotesAre
  <2>2. <<t, 0, "chg">> \in DOMAIN mail
    BY <1>2 DEF ToZero
  <2>3. Waiting(mail, <<t, 0, "chg">>) # <<>> /\ First(mail, <<t, 0, "chg">>) = Waiting(mail, <<t, 0, "chg">>)[1]
    BY <2>2, WaitingIs DEF Shapes
  <2>4. Voting(g, t)
    BY <2>1, <2>3
  <2>5. ~ Behind(g, t)
    <3>1. g.b \in Nat /\ g.b < End(g)
      BY SegmentIs
    <3> QED BY <2>4, <3>1 DEF Voting, Behind
  <2> QED BY <2>1, <2>2, <2>3, <2>4, <2>5
<1>5. \A r \in Ranks : Voting(g, r)
  BY <1>3, <1>4 DEF Others
<1>6. ASSUME NEW r \in Ranks, NEW s \in Beside(r) PROVE Columns(s, r) = <<>> /\ Sees(g, r, s)
  <2>1. s \in Ranks
    BY PaddedIs
  <2>2. ColumnsAre(g, s, r) /\ HaloIs(g, r, s)
    BY DEF Shared
  <2>3. Received(r) = End(g) /\ count[s] = End(g) /\ End(g) \in Nat
    BY <1>5, <2>1, SegmentIs DEF Voting, Received, Receiving
  <2>4. Len(Columns(s, r)) = 0
    BY <2>2, <2>3 DEF ColumnsAre
  <2>5. Columns(s, r) = <<>>
    BY <2>4, WaitingIs, QueueIs DEF Columns, Shapes
  <2> QED BY <1>5, <2>2, <2>5 DEF HaloIs
<1> QED BY <1>1, <1>4, <1>5, <1>6 DEF AllVoted

\* No vote for another round means that the field is final.
LEMMA FieldDone ==
  ASSUME NEW g \in Segments, Shapes, Shared(g), AllVoted(g), \A r \in Ranks : ~ changed[r], g.f \in Fields
  PROVE  Final(g.f)
<1>1. ASSUME NEW c \in Worked(g.f), c \in Cells PROVE Level(g.f, Joint(g.f), c)
  <2>1. PICK r, f : r = TileOf(c) /\ f = g.f
    OBVIOUS
  <2>2. r \in Ranks /\ c \in Owned(r)
    BY <1>1, <2>1, TileIs
  <2>3. Still(f, r)
    <3>1. StillIs(g, r) /\ Voting(g, r) /\ \A s \in Beside(r) : s \in Ranks
      BY <2>2, PaddedIs DEF Shared, AllVoted
    <3> QED BY <2>1, <2>2, <3>1 DEF StillIs
  <2>4. Level(f, arr[r][f], c)
    BY <2>1, <2>2, <2>3 DEF Still
  <2>5. ASSUME NEW n \in Around(c), n \in Cells PROVE Joint(f)[n] = arr[r][f][n]
    <3>1. n \in Padded(r)
      BY <2>2, PaddedIs
    <3>2. CASE n \in Owned(r)
      BY <2>2, <2>5, <3>2, TileIs DEF Joint
    <3>3. CASE n \notin Owned(r)
      <4>1. PICK s : s = TileOf(n)
        OBVIOUS
      <4>2. s \in Beside(r) /\ n \in Facing(s, r)
        BY <2>2, <3>1, <3>3, <4>1, PaddedIs
      <4>3. Sees(g, r, s)
        BY <2>2, <4>2 DEF AllVoted
      <4> QED BY <2>1, <2>5, <4>1, <4>2, <4>3 DEF Sees, Joint
    <3> QED BY <3>2, <3>3
  <2>6. Joint(f)[c] = arr[r][f][c]
    BY <1>1, <2>1 DEF Joint
  <2>7. LevelNear(dem, Cells, c) \subseteq Around(c) \cap Cells
    BY DEF LevelNear, Near, Elevated
  <2>8. Level(f, Joint(f), c)
    BY <2>4, <2>5, <2>6, <2>7 DEF Level
  <2> QED BY <2>1, <2>8
<1>2. Worked(g.f) \subseteq Cells
  BY DEF Worked, FlatCells, Flats, WholeSd, Undrained, Elevated
<1> QED BY <1>1, <1>2 DEF Final

\* What is waiting when rank 0 has answered and sent its first edge.
IsAnnounced(go, name, values) ==
  /\ IsMail(mail)' /\ DOMAIN mail' \subseteq Keys
  /\ \A t \in Others : Waiting(mail, <<t, 0, "chg">>)' = <<>> /\ Waiting(mail, <<0, t, "cont">>)' = <<go>>
  /\ \A t \in Ranks : \A s \in Beside(t) :
       Columns(s, t)' = IF s = 0 THEN <<[array |-> name, number |-> count[0] + 1,
                                         column |-> Restrict(values, Facing(0, t))]>>
                        ELSE <<>>

\* What rank 0 answers and publishes at once.
LEMMA Announced ==
  ASSUME NEW g \in Segments, Shapes, AllVoted(g), At(0, "votes"), NEW go, NEW name, NEW values, 0 \in Ranks,
         mail' = Ship(Sent(Receive(mail, Awaited(0)), [k \in FromZero("cont") |-> go]), 0, name, values)
  PROVE  IsAnnounced(go, name, values)
<1>0. IsMail(mail) /\ DOMAIN mail \subseteq Keys /\ Awaited(0) = ToZero({"chg"}) /\ Has(mail, Awaited(0))
  BY DEF Shapes, At, Awaited
<1>1. PICK m, f, l, new : /\ m = Receive(mail, Awaited(0)) /\ f = [k \in FromZero("cont") |-> go]
                          /\ l = Sent(m, f) /\ new = Ship(l, 0, name, values)
  OBVIOUS
<1>2. /\ IsMail(m) /\ DOMAIN m \subseteq DOMAIN mail
      /\ \A key : Waiting(m, key) = IF key \in Awaited(0) THEN Tail(Waiting(mail, key)) ELSE Waiting(mail, key)
  BY <1>0, <1>1, ReceiveIs
<1>3. DOMAIN f = FromZero("cont") /\ \A k \in DOMAIN f : f[k] = go
  BY <1>1
<1>4. /\ IsMail(l) /\ DOMAIN l = DOMAIN m \cup DOMAIN f
      /\ \A key : Waiting(l, key) = IF key \in DOMAIN f THEN Append(Waiting(m, key), f[key]) ELSE Waiting(m, key)
  <2>1. IsMail(Sent(m, f)) /\ DOMAIN Sent(m, f) = DOMAIN m \cup DOMAIN f
    BY <1>2, SentIs
  <2>2. \A key : Waiting(Sent(m, f), key) = IF key \in DOMAIN f THEN Append(Waiting(m, key), f[key]) ELSE Waiting(m, key)
    <3>1. IsMail(m)
      BY <1>2
    <3> QED BY <3>1, SentIs
  <2> QED BY <1>1, <2>1, <2>2
<1>5. IsShipped(l, new, 0, name, values)
  <2>1. DOMAIN l \subseteq Keys
    BY <1>0, <1>2, <1>3, <1>4 DEF Keys
  <2> QED BY <1>1, <1>4, <2>1, Shipping
<1>6. mail' = new /\ (\A k : Waiting(mail, k)' = Waiting(new, k)) /\ (IsMail(mail)' <=> IsMail(new))
  BY <1>1 DEF Waiting, IsMail, IsQueue
<1>7. ASSUME NEW t \in Others
      PROVE  Waiting(mail, <<t, 0, "chg">>)' = <<>> /\ Waiting(mail, <<0, t, "cont">>)' = <<go>>
  <2>1. /\ <<t, 0, "chg">> \in Awaited(0) /\ <<t, 0, "chg">> \notin DOMAIN f
        /\ <<0, t, "cont">> \notin Awaited(0) /\ <<0, t, "cont">> \in DOMAIN f
    BY <1>0, <1>3 DEF ToZero, FromZero
  <2>2. PICK v : v = changed[t]
    OBVIOUS
  <2>3. Waiting(mail, <<t, 0, "chg">>) = <<v>> /\ Waiting(mail, <<0, t, "cont">>) = <<>>
    BY <2>2 DEF AllVoted
  <2>4. Tail(<<v>>) = <<>> /\ Append(<<>>, go) = <<go>>
    OBVIOUS
  <2>5. Waiting(l, <<t, 0, "chg">>) = <<>>
    BY <1>2, <1>4, <2>1, <2>3, <2>4
  <2>6. Waiting(l, <<0, t, "cont">>) = <<go>>
    BY <1>2, <1>3, <1>4, <2>1, <2>3, <2>4
  <2> QED BY <1>5, <1>6, <2>5, <2>6 DEF IsShipped
<1>8. ASSUME NEW t \in Ranks, NEW s \in Beside(t)
      PROVE  Columns(s, t)' = IF s = 0 THEN <<[array |-> name, number |-> count[0] + 1,
                                               column |-> Restrict(values, Facing(0, t))]>>
                              ELSE <<>>
  <2>1. s \in Ranks /\ t \in Beside(s)
    BY PaddedIs
  <2>2. Seam(s, t) \notin Awaited(0) /\ Seam(s, t) \notin DOMAIN f
    BY <1>0, <1>3, <2>1, KeysDiffer DEF ToZero, FromZero
  <2>3. Waiting(l, Seam(s, t)) = <<>>
    <3>1. Columns(s, t) = <<>>
      BY DEF AllVoted
    <3> QED BY <1>2, <1>4, <2>2, <3>1 DEF Columns
  <2>4. PICK msg : msg = [array |-> name, number |-> count[0] + 1, column |-> Restrict(values, Facing(0, t))]
    OBVIOUS
  <2>5. Append(<<>>, msg) = <<msg>>
    OBVIOUS
  <2>6. Waiting(new, Seam(s, t)) = IF s = 0 THEN Append(<<>>, msg) ELSE <<>>
    <3>1. s = 0 => t \in Beside(0)
      BY <2>1
    <3> QED BY <1>5, <2>1, <2>3, <2>4, <3>1 DEF IsShipped
  <2> QED BY <1>6, <2>4, <2>5, <2>6 DEF Columns
<1>9. IsMail(mail)' /\ DOMAIN mail' \subseteq Keys
  BY <1>5, <1>6 DEF IsShipped
<1> QED BY <1>7, <1>8, <1>9 DEF IsAnnounced

-----------------------------------------------------------------------------
\* The segment that rank 0 opens: what its own step makes true.
Opens(g, h, values) ==
  /\ h.b = End(g) /\ h.k # "start" /\ g.f = IF h.k = "go" THEN h.f ELSE Prev(h.f)
  /\ OthersStay(0) /\ count'[0] = End(g) + 1 /\ pc'[0] \in {"edges", "enter", "mask"}
  /\ IsAnnounced(h.k = "go", h.f, values)
  /\ h.f \in Fields => values \in [Padded(0) -> Nat] /\ arr'[0][h.f] = values
  /\ Placed(h, 0)' /\ ArraysAre(0)' /\ StillIs(h, 0)'
  /\ \A s \in Beside(0) : HaloIs(h, 0, s)' /\ HaloIs(h, s, 0)'
  /\ \A f \in Before(h.f) : Final(f) /\ \A c \in Owned(0) : arr'[0][f][c] = arr[0][f][c]

\* The answer of rank 0 opens the next segment, which every other rank is behind.
LEMMA Opening ==
  ASSUME NEW g \in Segments, Shapes, Shared(g), AllVoted(g), NEW h \in Segments, NEW values, Opens(g, h, values), 0 \in Ranks
  PROVE  Shared(h)'
<1>0. /\ h.b = End(g) /\ h.k # "start" /\ g.f = (IF h.k = "go" THEN h.f ELSE Prev(h.f))
      /\ OthersStay(0) /\ count'[0] = End(g) + 1 /\ pc'[0] \in {"edges", "enter", "mask"}
      /\ h.f \in Fields => values \in [Padded(0) -> Nat] /\ arr'[0][h.f] = values
      /\ Placed(h, 0)' /\ ArraysAre(0)' /\ StillIs(h, 0)'
      /\ dem' = dem /\ End(g) \in Nat /\ h.b < End(h)
  BY SegmentIs DEF Opens, OthersStay
<1>1. ASSUME NEW t \in Others
      PROVE  /\ t \in Ranks /\ t # 0 /\ Behind(h, t)' /\ ~ Voting(h, t)' /\ ~ Sweeping(h, t)'
             /\ count'[t] = End(g) /\ pc'[t] = "answer" /\ arr'[t] = arr[t] /\ field'[t] = field[t]
  <2>1. t \in Ranks /\ t # 0 /\ Voting(g, t)
    BY DEF Others, AllVoted
  <2>2. pc'[t] = pc[t] /\ count'[t] = count[t] /\ field'[t] = field[t] /\ arr'[t] = arr[t]
    BY <1>0, <2>1 DEF OthersStay
  <2>3. pc'[t] = "answer" /\ count'[t] = End(g) /\ field'[t] = g.f
    BY <2>1, <2>2 DEF Voting
  <2>4. Behind(h, t)'
    BY <1>0, <2>1, <2>3 DEF Behind
  <2>5. ~ Voting(h, t)' /\ ~ Sweeping(h, t)'
    <3>1. count'[t] = h.b /\ h.b # End(h)
      BY <1>0, <2>3
    <3> QED BY <3>1 DEF Voting, Sweeping
  <2> QED BY <2>1, <2>2, <2>3, <2>4, <2>5
<1>2. ASSUME NEW r \in Ranks PROVE Placed(h, r)' /\ ArraysAre(r)' /\ StillIs(h, r)'
  <2>1. CASE r = 0
    BY <1>0, <2>1
  <2>2. CASE r # 0
    <3>1. r \in Others
      BY <2>2 DEF Others
    <3>2. Placed(h, r)' /\ StillIs(h, r)'
      BY <1>1, <3>1 DEF Placed, StillIs
    <3>3. ArraysAre(r)'
      <4>1. ArraysAre(r) /\ pc[r] = pc'[r]
        BY <1>0, <2>2 DEF Shared, OthersStay
      <4> QED BY <1>0, <1>1, <3>1, <4>1 DEF ArraysAre
    <3> QED BY <3>2, <3>3
  <2> QED BY <2>1, <2>2
<1>3. \A t \in Ranks : Received(t)' = End(g)
  <2>1. Received(0)' = End(g)
    BY <1>0 DEF Received, Receiving
  <2>2. \A t \in Others : Received(t)' = End(g)
    BY <1>1 DEF Received, Receiving
  <2> QED BY <2>1, <2>2 DEF Others
<1>4. ASSUME NEW r \in Ranks, NEW s \in Beside(r) PROVE ColumnsAre(h, s, r)'
  <2>1. s \in Ranks /\ s # r /\ r \in Beside(s)
    BY PaddedIs
  <2>2. Columns(s, r)' = IF s = 0 THEN <<[array |-> h.f, number |-> count[0] + 1,
                                         column |-> Restrict(values, Facing(0, r))]>>
                        ELSE <<>>
    BY DEF Opens, IsAnnounced
  <2>3. CASE s # 0
    <3>1. Columns(s, r)' = <<>> /\ Received(r)' = End(g) /\ count'[s] = End(g)
      BY <1>1, <1>3, <2>1, <2>2, <2>3 DEF Others
    <3>2. Len(<<>>) = 0 /\ DOMAIN <<>> = {}
      OBVIOUS
    <3> QED BY <1>0, <3>1, <3>2 DEF ColumnsAre
  <2>4. CASE s = 0
    <3>1. PICK msg, no, cs : /\ msg = [array |-> h.f, number |-> count[0] + 1, column |-> Restrict(values, Facing(0, r))]
                             /\ no = count[0] + 1 /\ cs = <<msg>>
      OBVIOUS
    <3>2. Columns(s, r)' = cs
      BY <2>2, <2>4, <3>1
    <3>3. no = End(g) + 1 /\ count'[s] = End(g) + 1 /\ Received(r)' = End(g)
      BY <1>0, <1>3, <2>4, <3>1 DEF AllVoted, Voting
    <3>4. ColumnIs(h, s, r, msg, no)'
      <4>1. msg.array = ArrayAt(h, no)
        BY <1>0, <3>1 DEF ArrayAt
      <4>2. \A c \in Facing(0, r) : msg.column[c] = values[c]
        BY <3>1 DEF Restrict
      <4>3. Facing(0, r) \subseteq Padded(0)
        BY <2>1, <2>4, PaddedIs
      <4>4. msg.array = h.f /\ msg.number = no /\ h.f # "dem"
        BY <3>1, SegmentIs DEF Fields
      <4>5. ASSUME NEW c \in Facing(s, r), msg.array \in Fields
            PROVE  msg.column[c] \in Nat /\ msg.column[c] = arr'[s][h.f][c]
        BY <1>0, <2>4, <4>2, <4>3, <4>4, <4>5
      <4> QED BY <4>1, <4>4, <4>5 DEF ColumnIs
    <3>5. Len(cs) = 1 /\ DOMAIN cs = {1} /\ cs[1] = msg
      BY <3>1
    <3>6. ASSUME NEW i \in DOMAIN cs PROVE ColumnIs(h, s, r, cs[i], no)' /\ no = End(g) + i
      BY <3>3, <3>4, <3>5
    <3>7. PICK e : e = End(g)
      OBVIOUS
    <3>8. \A i \in DOMAIN cs : ColumnIs(h, s, r, cs[i], e + i)'
      <4>1. ASSUME NEW i \in DOMAIN cs PROVE ColumnIs(h, s, r, cs[i], e + i)'
        <5>1. PICK n : n = e + i
          OBVIOUS
        <5>2. n = no
          BY <3>3, <3>5, <3>7, <5>1
        <5>3. ColumnIs(h, s, r, cs[i], n)'
          BY <3>6, <5>2
        <5> QED BY <5>1, <5>3
      <4> QED BY <4>1
    <3>9. Received(r)' = e /\ Len(cs) = count'[s] - e
      BY <1>0, <3>3, <3>5, <3>7
    <3> QED BY <3>2, <3>8, <3>9 DEF ColumnsAre
  <2> QED BY <2>3, <2>4
<1>5. ASSUME NEW r \in Ranks, NEW s \in Beside(r) PROVE HaloIs(h, r, s)'
  <2>1. s \in Ranks /\ s # r /\ r \in Beside(s)
    BY PaddedIs
  <2>2. CASE r = 0 \/ s = 0
    BY <2>1, <2>2 DEF Opens
  <2>3. CASE r # 0 /\ s # 0
    <3>1. ~ Voting(h, r)' /\ ~ Sweeping(h, r)' /\ arr'[r] = arr[r] /\ arr'[s] = arr[s]
      BY <1>1, <2>1, <2>3 DEF Others
    <3>2. h.k = "go" => Sees(h, r, s)'
      <4>1. Sees(g, r, s)
        BY DEF AllVoted
      <4> QED BY <1>0, <3>1, <4>1 DEF Sees
    <3> QED BY <3>1, <3>2 DEF HaloIs
  <2> QED BY <2>2, <2>3
<1>6. VotesAre(h)'
  <2>1. ASSUME NEW t \in Others
        PROVE  /\ Waiting(mail, <<t, 0, "chg">>)' = IF Voting(h, t)' THEN <<changed'[t]>> ELSE <<>>
               /\ Waiting(mail, <<0, t, "cont">>)' = IF Behind(h, t)' THEN <<h.k = "go">> ELSE <<>>
    <3>1. Waiting(mail, <<t, 0, "chg">>)' = <<>> /\ Waiting(mail, <<0, t, "cont">>)' = <<h.k = "go">>
      BY DEF Opens, IsAnnounced
    <3> QED BY <1>1, <3>1
  <2> QED BY <2>1 DEF VotesAre
<1>7. ASSUME NEW f \in Before(h.f) PROVE Final(f)'
  <2>1. Final(f) /\ \A c \in Owned(0) : arr'[0][f][c] = arr[0][f][c]
    BY DEF Opens
  <2>2. Joint(f)' = Joint(f)
    <3>1. ASSUME NEW c \in Cells PROVE arr'[TileOf(c)][f][c] = arr[TileOf(c)][f][c]
      <4>1. TileOf(c) \in Ranks /\ c \in Owned(TileOf(c))
        BY TileIs
      <4>2. CASE TileOf(c) = 0
        BY <2>1, <4>1, <4>2
      <4>3. CASE TileOf(c) # 0
        BY <1>0, <4>1, <4>3 DEF OthersStay
      <4> QED BY <4>2, <4>3
    <3> QED BY <3>1 DEF Joint
  <2> QED BY <1>0, <2>1, <2>2 DEF Final, Worked, Level, FlatCells
<1> QED BY <1>2, <1>4, <1>5, <1>6, <1>7 DEF Shared

-----------------------------------------------------------------------------
\* What rank 0 decides.
LEMMA Decision ==
  ASSUME NEW g \in Segments, Shapes, AllVoted(g), At(0, "votes"), 0 \in Ranks
  PROVE  AnyChanged({changed[0]} \cup {First(mail, k) : k \in Awaited(0)}) <=> \E r \in Ranks : changed[r]
<1>1. Awaited(0) = {<<t, 0, "chg">> : t \in Others}
  BY DEF At, Awaited, ToZero
<1>2. \A t \in Others : First(mail, <<t, 0, "chg">>) = changed[t]
  BY DEF AllVoted
<1>3. {changed[0]} \cup {First(mail, k) : k \in Awaited(0)} = {changed[r] : r \in Ranks}
  BY <1>1, <1>2 DEF Others
<1>4. \A r \in Ranks : changed[r] \in BOOLEAN
  BY DEF Shapes
<1> QED BY <1>3, <1>4 DEF AnyChanged

-----------------------------------------------------------------------------
\* Rank 0 calls for another round.
LEMMA CountVotesGo ==
  ASSUME NEW g \in Segments, Shapes, Shared(g), CountVotes, \E r \in Ranks : changed[r]
  PROVE  Shapes' /\ \E h \in Segments : Shared(h)'
<1>0. /\ AllVoted(g) /\ 0 \in Ranks /\ At(0, "votes") /\ dem' = dem /\ Voting(g, 0) /\ pc[0] = "votes"
      /\ g.f \in Fields /\ field[0] = g.f /\ count[0] = End(g) /\ End(g) \in Nat
  <2>1. AllVoted(g) /\ 0 \in Ranks /\ At(0, "votes")
    BY VotesIn DEF CountVotes
  <2> QED BY <2>1, SegmentIs DEF AllVoted, Voting, At, CountVotes, Fields
<1> DEFINE V == arr[0][g.f]
           N == Converged(g.f, arr[0].dem, arr[0].sd, Padded(0), Owned(0), V)
<1>1. PICK values, new, f, go : values = V /\ new = N /\ f = g.f /\ go = TRUE
  OBVIOUS
<1>2. AnyChanged({changed[0]} \cup {First(mail, k) : k \in Awaited(0)}) = TRUE
  <2>1. AnyChanged({changed[0]} \cup {First(mail, k) : k \in Awaited(0)})
    BY <1>0, Decision
  <2> QED BY <2>1 DEF AnyChanged
<1>3. Round(0, Sent(Receive(mail, Awaited(0)), [k \in FromZero("cont") |-> go]), arr[0][field[0]])
  BY <1>1, <1>2 DEF CountVotes, Proceed
<1>4. /\ arr' = [arr EXCEPT ![0][f] = new]
      /\ mail' = Ship(Sent(Receive(mail, Awaited(0)), [k \in FromZero("cont") |-> go]), 0, f, new)
      /\ changed' = [changed EXCEPT ![0] = (new # values)]
      /\ Exchanges(0) /\ pc' = [pc EXCEPT ![0] = "edges"] /\ field' = field
  BY <1>0, <1>1, <1>3 DEF Round
<1>5. new = Converged(f, arr[0]["dem"], arr[0]["sd"], Padded(0), Owned(0), values)
  BY <1>1
<1> HIDE DEF V, N
<1>6. values = arr[0][f]
  BY <1>1 DEF V
<1>7. values \in [Padded(0) -> Nat] /\ ArraysAre(0)
  BY <1>0, <1>1, <1>6 DEF Shared, ArraysAre, Fields
<1>8. IsAnnounced(go, f, new)
  BY <1>0, <1>4, Announced
<1>9. HasRelaxed(0, f, values, new)
  BY <1>0, <1>1, <1>4, <1>5, <1>7, RelaxedIs
<1>10. pc'[0] = "edges" /\ (\A q \in Ranks \ {0} : pc'[q] = pc[q]) /\ pc' = [q \in Ranks |-> pc'[q]]
  BY <1>0, <1>4, Advance
<1>11. /\ count'[0] = count[0] + 1 /\ (\A q \in Ranks \ {0} : count'[q] = count[q]) /\ count' \in [Ranks -> Nat]
  BY <1>0, <1>4, Counted
<1>12. /\ DOMAIN arr' = Ranks /\ (\A q \in Ranks : DOMAIN arr'[q] = Arrays) /\ (\A q \in Ranks \ {0} : arr'[q] = arr[q])
       /\ changed' \in [Ranks -> BOOLEAN] /\ (\A q \in Ranks \ {0} : changed'[q] = changed[q])
       /\ changed'[0] = (new # values)
  BY <1>0, <1>4 DEF Shapes
<1>13. OthersStay(0)
  BY <1>0, <1>4, <1>10, <1>11, <1>12 DEF OthersStay
<1>14. Shapes'
  BY <1>0, <1>4, <1>8, <1>10, <1>11, <1>12 DEF Shapes, IsAnnounced
<1>15. PICK h : h = [b |-> End(g), k |-> "go", f |-> g.f]
  OBVIOUS
<1>16. h \in Segments /\ h.b = End(g) /\ h.k = "go" /\ h.f = f /\ h.f = g.f /\ End(h) = End(g) + 1
  <2>1. h.b = End(g) /\ h.k = "go" /\ h.f = f /\ h.f = g.f
    BY <1>1, <1>15
  <2> QED BY <1>0, <1>15, <2>1 DEF Segments, End
<1>17. Sweeping(h, 0)' /\ ~ Voting(h, 0)' /\ ~ Behind(h, 0)'
  BY <1>0, <1>4, <1>10, <1>11, <1>16 DEF Sweeping, Voting, Behind
<1>18. Placed(h, 0)' /\ ArraysAre(0)' /\ StillIs(h, 0)'
  <2>1. Placed(h, 0)'
    BY <1>17 DEF Placed
  <2>2. ~ changed'[0] => Still(h.f, 0)'
    BY <1>9, <1>12, <1>16 DEF HasRelaxed
  <2> QED BY <1>9, <2>1, <2>2 DEF HasRelaxed, StillIs
<1>19. ASSUME NEW s \in Beside(0) PROVE HaloIs(h, 0, s)' /\ HaloIs(h, s, 0)'
  <2>1. /\ s \in Ranks /\ s # 0 /\ 0 \in Beside(s) /\ Facing(s, 0) \subseteq Padded(0) /\ Facing(s, 0) \cap Owned(0) = {}
    BY <1>0, PaddedIs
  <2>2. Sees(g, 0, s) /\ Sees(g, s, 0) /\ arr'[s] = arr[s] /\ Voting(g, s)
    BY <1>0, <1>12, <2>1 DEF AllVoted
  <2>3. Sees(h, 0, s)'
    <3>1. \A c \in Facing(s, 0) : new[c] = values[c]
      BY <1>9, <2>1 DEF HasRelaxed
    <3>2. arr'[0][f] = new
      BY <1>9 DEF HasRelaxed
    <3> QED BY <1>6, <1>16, <2>2, <3>1, <3>2 DEF Sees
  <2>4. HaloIs(h, 0, s)'
    BY <2>3 DEF HaloIs
  <2>5. HaloIs(h, s, 0)'
    <3>1. ~ changed'[0] => Sees(h, s, 0)'
      <4>1. arr'[0][f] = new
        BY <1>9 DEF HasRelaxed
      <4> QED BY <1>6, <1>12, <1>16, <2>2, <4>1 DEF Sees
    <3>2. ~ Voting(h, s)'
      <4>1. count'[s] = End(g)
        BY <1>11, <2>1, <2>2 DEF Voting
      <4> QED BY <1>0, <1>16, <4>1 DEF Voting
    <3>3. count'[0] = End(h)
      BY <1>0, <1>11, <1>16
    <3> QED BY <3>1, <3>2, <3>3 DEF HaloIs
  <2> QED BY <2>4, <2>5
<1>20. ASSUME NEW x \in Before(h.f) PROVE Final(x) /\ \A c \in Owned(0) : arr'[0][x][c] = arr[0][x][c]
  <2>1. Final(x)
    BY <1>16 DEF Shared
  <2>2. x \in Arrays \ {f}
    BY <1>0, <1>16 DEF Before, Arrays, Fields
  <2> QED BY <1>9, <2>1, <2>2 DEF HasRelaxed
<1>21. Opens(g, h, new)
  <2>1. IsAnnounced(h.k = "go", h.f, new)
    <3>1. (h.k = "go") = go
      BY <1>1, <1>16
    <3> QED BY <1>8, <1>16, <3>1
  <2>2. h.f \in Fields => new \in [Padded(0) -> Nat] /\ arr'[0][h.f] = new
    BY <1>9, <1>16 DEF HasRelaxed
  <2> QED BY <1>0, <1>10, <1>11, <1>13, <1>16, <1>18, <1>19, <1>20, <2>1, <2>2 DEF Opens
<1>22. Shared(h)'
  BY <1>0, <1>16, <1>21, Opening
<1> QED BY <1>14, <1>16, <1>22

\* The value of a membership that does not hold.
LEMMA NotIn ==
  ASSUME NEW V, ~ (TRUE \in V)
  PROVE  (TRUE \in V) = FALSE
<1>1. PICK go \in BOOLEAN : go <=> (TRUE \in V)
  OBVIOUS
<1>2. go = FALSE
  BY <1>1
<1>3. go = (TRUE \in V)
  BY <1>1
<1> QED BY <1>2, <1>3

\* Rank 0 tells the ranks that the field is done.
LEMMA CountVotesLeave ==
  ASSUME NEW g \in Segments, Shapes, Shared(g), CountVotes, \A r \in Ranks : ~ changed[r]
  PROVE  Shapes' /\ \E h \in Segments : Shared(h)'
<1>0. /\ AllVoted(g) /\ 0 \in Ranks /\ At(0, "votes") /\ dem' = dem /\ Voting(g, 0) /\ pc[0] = "votes"
      /\ g.f \in Fields /\ field[0] = g.f /\ count[0] = End(g) /\ End(g) \in Nat
  <2>1. AllVoted(g) /\ 0 \in Ranks /\ At(0, "votes")
    BY VotesIn DEF CountVotes
  <2> QED BY <2>1, SegmentIs DEF AllVoted, Voting, At, CountVotes, Fields
<1>1. PICK go, m : go = FALSE /\ m = Sent(Receive(mail, Awaited(0)), [k \in FromZero("cont") |-> go])
  OBVIOUS
<1>2. AnyChanged({changed[0]} \cup {First(mail, k) : k \in Awaited(0)}) = FALSE
  <2>1. ~ AnyChanged({changed[0]} \cup {First(mail, k) : k \in Awaited(0)})
    BY <1>0, Decision
  <2>2. PICK V : V = {changed[0]} \cup {First(mail, k) : k \in Awaited(0)}
    OBVIOUS
  <2>3. ~ (TRUE \in V)
    BY <2>1, <2>2 DEF AnyChanged
  <2>4. (TRUE \in V) = FALSE
    BY <2>3, NotIn
  <2> QED BY <2>2, <2>4 DEF AnyChanged
<1>3. Leave(0, m)
  BY <1>1, <1>2 DEF CountVotes, Proceed
<1>4. \E next \in {"towards", "height", "mask"} : \E values :
           /\ field[0] = Prev(next)
           /\ next # "mask" => values \in [Padded(0) -> Nat]
           /\ arr' = [arr EXCEPT ![0][next] = values] /\ mail' = Ship(m, 0, next, values) /\ Exchanges(0)
           /\ field' = [field EXCEPT ![0] = next] /\ changed' = changed
           /\ pc' = [pc EXCEPT ![0] = IF next = "mask" THEN "mask" ELSE "enter"]
  <2>1. ArraysAre(0) /\ pc[0] \notin {"start", "dem", "sd"} /\ field[0] \in Fields
    BY <1>0 DEF Shared
  <2>2. PICK r : r = 0
    OBVIOUS
  <2>3. r \in Ranks /\ ArraysAre(r) /\ pc[r] \notin {"start", "dem", "sd"} /\ field[r] \in Fields /\ Leave(r, m)
    BY <1>0, <1>3, <2>1, <2>2
  <2>4. \E next \in {"towards", "height", "mask"} : \E values :
           /\ field[r] = Prev(next)
           /\ next # "mask" => values \in [Padded(r) -> Nat]
           /\ arr' = [arr EXCEPT ![r][next] = values] /\ mail' = Ship(m, r, next, values) /\ Exchanges(r)
           /\ field' = [field EXCEPT ![r] = next] /\ changed' = changed
           /\ pc' = [pc EXCEPT ![r] = IF next = "mask" THEN "mask" ELSE "enter"]
    BY <2>3, LeaveIs
  <2> QED BY <2>2, <2>4
<1>5. PICK next \in {"towards", "height", "mask"} : \E values :
           /\ field[0] = Prev(next)
           /\ next # "mask" => values \in [Padded(0) -> Nat]
           /\ arr' = [arr EXCEPT ![0][next] = values] /\ mail' = Ship(m, 0, next, values) /\ Exchanges(0)
           /\ field' = [field EXCEPT ![0] = next] /\ changed' = changed
           /\ pc' = [pc EXCEPT ![0] = IF next = "mask" THEN "mask" ELSE "enter"]
  BY <1>4
<1>6. PICK values :
           /\ field[0] = Prev(next)
           /\ next # "mask" => values \in [Padded(0) -> Nat]
           /\ arr' = [arr EXCEPT ![0][next] = values] /\ mail' = Ship(m, 0, next, values) /\ Exchanges(0)
           /\ field' = [field EXCEPT ![0] = next] /\ changed' = changed
           /\ pc' = [pc EXCEPT ![0] = IF next = "mask" THEN "mask" ELSE "enter"]
  BY <1>5
<1>7. PICK x : x = IF next = "mask" THEN "mask" ELSE "enter"
  OBVIOUS
<1>8. field'[0] = next /\ (\A q \in Ranks \ {0} : field'[q] = field[q]) /\ field' = [q \in Ranks |-> field'[q]]
  <2>1. field = [q \in Ranks |-> field[q]]
    BY DEF Shapes
  <2> QED BY <1>0, <1>6, <2>1
<1>9. HasEntered(0, next, values)
  <2>1. ArraysAre(0) /\ pc[0] \notin {"start", "dem", "sd"} /\ field[0] \in Fields
    BY <1>0 DEF Shared
  <2>2. arr' = [arr EXCEPT ![0][next] = values] /\ (next # "mask" => values \in [Padded(0) -> Nat]) /\ field[0] = Prev(next)
    BY <1>6
  <2>3. PICK r : r = 0
    OBVIOUS
  <2>4. /\ r \in Ranks /\ ArraysAre(r) /\ pc[r] \notin {"start", "dem", "sd"} /\ field[r] \in Fields /\ field'[r] = next
        /\ arr' = [arr EXCEPT ![r][next] = values] /\ (next # "mask" => values \in [Padded(r) -> Nat]) /\ field[r] = Prev(next)
    BY <1>0, <1>8, <2>1, <2>2, <2>3
  <2>5. HasEntered(r, next, values)
    BY <1>0, <2>4, ArraysEntered
  <2> QED BY <2>3, <2>5
<1>10. pc'[0] = x /\ (\A q \in Ranks \ {0} : pc'[q] = pc[q]) /\ pc' = [q \in Ranks |-> pc'[q]]
  <2>1. pc' = [pc EXCEPT ![0] = x]
    BY <1>6, <1>7
  <2> QED BY <1>0, <2>1, Advance
<1>11. /\ count'[0] = count[0] + 1 /\ (\A q \in Ranks \ {0} : count'[q] = count[q]) /\ count' \in [Ranks -> Nat]
  BY <1>0, <1>6, Counted
<1>12. /\ DOMAIN arr' = Ranks /\ (\A q \in Ranks : DOMAIN arr'[q] = Arrays) /\ (\A q \in Ranks \ {0} : arr'[q] = arr[q])
       /\ changed' = changed
  BY <1>0, <1>6 DEF Shapes, Arrays
<1>13. OthersStay(0)
  BY <1>0, <1>8, <1>10, <1>11, <1>12 DEF OthersStay
<1>14. IsAnnounced(go, next, values)
  <2>1. mail' = Ship(Sent(Receive(mail, Awaited(0)), [k \in FromZero("cont") |-> go]), 0, next, values)
    BY <1>1, <1>6
  <2> QED BY <1>0, <2>1, Announced
<1>15. Shapes'
  BY <1>0, <1>8, <1>10, <1>11, <1>12, <1>14 DEF Shapes, IsAnnounced
<1>16. PICK h : h = [b |-> End(g), k |-> IF next = "mask" THEN "mask" ELSE "leave", f |-> next]
  OBVIOUS
<1>17. h \in Segments /\ h.b = End(g) /\ h.k # "go" /\ h.k # "start" /\ h.f = next /\ g.f = Prev(h.f)
       /\ (h.k = "mask" <=> next = "mask") /\ (h.k = "leave" <=> next # "mask")
  <2>1. h.b = End(g) /\ h.f = next /\ h.k = (IF next = "mask" THEN "mask" ELSE "leave")
    BY <1>16
  <2>2. h \in Segments
    BY <1>0, <1>16 DEF Segments
  <2> QED BY <1>0, <1>6, <2>1, <2>2
<1>18. ~ Sweeping(h, 0)' /\ ~ Voting(h, 0)' /\ ~ Behind(h, 0)'
  BY <1>7, <1>10 DEF Sweeping, Voting, Behind
<1>19. Placed(h, 0)' /\ ArraysAre(0)' /\ StillIs(h, 0)'
  <2>1. Placed(h, 0)'
    <3>1. CASE next = "mask"
      <4>1. h.k = "mask" /\ pc'[0] = "mask" /\ field'[0] = h.f /\ count'[0] = h.b + 1
        BY <1>0, <1>7, <1>8, <1>10, <1>11, <1>17, <3>1
      <4> QED BY <4>1 DEF Placed, Masking
    <3>2. CASE next # "mask"
      <4>1. h.k = "leave" /\ pc'[0] = "enter" /\ field'[0] = h.f /\ count'[0] = End(h) - 1
        BY <1>0, <1>7, <1>8, <1>10, <1>11, <1>17, <3>2 DEF End
      <4> QED BY <4>1 DEF Placed, Entering
    <3> QED BY <3>1, <3>2
  <2> QED BY <1>9, <1>18, <2>1 DEF HasEntered, StillIs
<1>20. ASSUME NEW s \in Beside(0) PROVE HaloIs(h, 0, s)' /\ HaloIs(h, s, 0)'
  <2>1. s \in Ranks /\ s # 0
    BY <1>0, PaddedIs
  <2>2. HaloIs(h, 0, s)'
    BY <1>18 DEF HaloIs
  <2>3. ~ Sweeping(h, s)' /\ ~ Voting(h, s)'
    <3>1. pc'[s] = "answer" /\ count'[s] = End(g)
      BY <1>0, <1>10, <1>11, <2>1 DEF AllVoted, Voting
    <3>2. h.b # End(h)
      <4>1. h.b \in Nat /\ h.b < End(h)
        BY <1>17, SegmentIs
      <4> QED BY <4>1
    <3> QED BY <1>17, <3>1, <3>2 DEF Sweeping, Voting
  <2>4. HaloIs(h, s, 0)'
    BY <1>17, <2>3 DEF HaloIs
  <2> QED BY <2>2, <2>4
<1>21. ASSUME NEW y \in Before(h.f) PROVE Final(y) /\ \A c \in Owned(0) : arr'[0][y][c] = arr[0][y][c]
  <2>1. y \in Before(g.f) \/ y = g.f
    BY <1>17 DEF Before, Prev, Fields
  <2>2. Final(g.f)
    BY <1>0, FieldDone
  <2>3. Final(y)
    BY <2>1, <2>2 DEF Shared
  <2>4. y \in Arrays \ {next}
    BY <1>17 DEF Before, Arrays, Fields
  <2> QED BY <1>9, <2>3, <2>4 DEF HasEntered
<1>22. Opens(g, h, values)
  <2>1. IsAnnounced(h.k = "go", h.f, values)
    <3>1. (h.k = "go") = go
      BY <1>1, <1>17
    <3> QED BY <1>14, <1>17, <3>1
  <2>2. h.f \in Fields => values \in [Padded(0) -> Nat] /\ arr'[0][h.f] = values
    BY <1>6, <1>9, <1>17 DEF HasEntered, Fields
  <2>3. g.f = IF h.k = "go" THEN h.f ELSE Prev(h.f)
    BY <1>17
  <2> QED BY <1>0, <1>7, <1>10, <1>11, <1>13, <1>17, <1>19, <1>20, <1>21, <2>1, <2>2, <2>3 DEF Opens
<1>23. Shared(h)'
  BY <1>0, <1>17, <1>22, Opening
<1> QED BY <1>15, <1>17, <1>23

-----------------------------------------------------------------------------
\* The invariant holds at the start.
LEMMA Begun == Init => IInv
<1> SUFFICES ASSUME Init PROVE IInv
  OBVIOUS
<1> DEFINE G == [b |-> 0, k |-> "start", f |-> "away"]
<1>1. PICK g : g = G
  OBVIOUS
<1>2. g \in Segments /\ g.b = 0 /\ g.k = "start" /\ g.f = "away"
  BY <1>1 DEF Segments
<1>3. /\ \A r \in Ranks : pc[r] = "start" /\ count[r] = 0 /\ field[r] = "away" /\ ~ changed[r]
      /\ mail = NoMail
  BY DEF Init
<1>4. \A key : Waiting(mail, key) = <<>>
  <2>1. DOMAIN mail = {}
    BY <1>3 DEF NoMail
  <2> QED BY <2>1 DEF Waiting
<1>5. Shapes
  <2>1. IsMail(mail) /\ DOMAIN mail \subseteq Keys
    <3>1. DOMAIN mail = {} /\ mail = [k \in {} |-> mail[k]]
      BY <1>3 DEF NoMail
    <3> QED BY <3>1 DEF IsMail
  <2> QED BY <2>1 DEF Init, Shapes
<1>6. ASSUME NEW r \in Ranks PROVE Placed(g, r) /\ ArraysAre(r) /\ StillIs(g, r)
  <2>1. Placed(g, r)
    BY <1>2, <1>3 DEF Placed, Early
  <2>2. ArraysAre(r)
    BY <1>3 DEF ArraysAre
  <2>3. StillIs(g, r)
    BY <1>3 DEF StillIs, Sweeping, Voting
  <2> QED BY <2>1, <2>2, <2>3
<1>7. ASSUME NEW r \in Ranks, NEW s \in Beside(r) PROVE ColumnsAre(g, s, r) /\ HaloIs(g, r, s)
  <2>1. s \in Ranks
    BY PaddedIs
  <2>2. Columns(s, r) = <<>> /\ Received(r) = 0 /\ count[s] = 0
    BY <1>3, <1>4, <2>1 DEF Columns, Received, Receiving
  <2>3. ColumnsAre(g, s, r)
    BY <2>2 DEF ColumnsAre
  <2>4. HaloIs(g, r, s)
    BY <1>3 DEF HaloIs, Sweeping, Voting, Behind
  <2> QED BY <2>3, <2>4
<1>8. VotesAre(g)
  BY <1>3, <1>4 DEF VotesAre, Voting, Behind, Others
<1>9. Before(g.f) = {}
  BY <1>2 DEF Before
<1> QED BY <1>2, <1>5, <1>6, <1>7, <1>8, <1>9 DEF IInv, Shared

\* Nothing happens.
LEMMA StutterKeeps ==
  ASSUME NEW g \in Segments, Shapes, Shared(g), UNCHANGED vars
  PROVE  Shared(g)'
<1>1. /\ dem' = dem /\ pc' = pc /\ field' = field /\ arr' = arr /\ changed' = changed /\ count' = count
      /\ mail' = mail
  BY DEF vars
<1>2. ASSUME NEW r \in Ranks
      PROVE  /\ Placed(g, r)' <=> Placed(g, r)
             /\ Sweeping(g, r)' <=> Sweeping(g, r)
             /\ Voting(g, r)' <=> Voting(g, r)
             /\ Behind(g, r)' <=> Behind(g, r)
             /\ Received(r)' = Received(r)
  <2>1. (Placed(g, r)' <=> Placed(g, r)) /\ (Sweeping(g, r)' <=> Sweeping(g, r))
    BY <1>1 DEF Placed, Early, Entering, Sweeping, Voting, Behind, Masking
  <2>2. (Voting(g, r)' <=> Voting(g, r)) /\ (Behind(g, r)' <=> Behind(g, r))
    BY <1>1 DEF Voting, Behind
  <2>3. Received(r)' = Received(r)
    BY <1>1 DEF Received, Receiving
  <2> QED BY <2>1, <2>2, <2>3
<1>3. ASSUME NEW f, NEW r \in Ranks PROVE Still(f, r)' <=> Still(f, r)
  BY <1>1 DEF Still, Level, Worked, FlatCells
<1>4. ASSUME NEW f PROVE Final(f)' <=> Final(f)
  BY <1>1 DEF Final, Level, Worked, FlatCells, Joint
<1>5. ASSUME NEW r \in Ranks PROVE Placed(g, r)' /\ ArraysAre(r)' /\ StillIs(g, r)'
  <2>1. Placed(g, r)' /\ ArraysAre(r)'
    BY <1>1, <1>2 DEF Shared, ArraysAre
  <2>2. StillIs(g, r)'
    <3>1. StillIs(g, r) /\ (Still(g.f, r)' <=> Still(g.f, r))
      BY <1>3 DEF Shared
    <3> QED BY <1>1, <1>2, <3>1 DEF StillIs
  <2> QED BY <2>1, <2>2
<1>6. ASSUME NEW r \in Ranks, NEW s \in Beside(r) PROVE ColumnsAre(g, s, r)' /\ HaloIs(g, r, s)'
  <2>1. s \in Ranks /\ ColumnsAre(g, s, r) /\ HaloIs(g, r, s)
    BY PaddedIs DEF Shared
  <2>2. Columns(s, r)' = Columns(s, r)
    BY <1>1 DEF Columns, Waiting
  <2>3. ColumnsAre(g, s, r)'
    <3>1. \A m, n : ColumnIs(g, s, r, m, n)' <=> ColumnIs(g, s, r, m, n)
      BY <1>1 DEF ColumnIs
    <3>2. PICK k, cs : k = Received(r) /\ cs = Columns(s, r)
      OBVIOUS
    <3>3. Len(cs) = count[s] - k /\ \A i \in DOMAIN cs : ColumnIs(g, s, r, cs[i], k + i)
      BY <2>1, <3>2 DEF ColumnsAre
    <3>4. Len(cs) = count'[s] - k /\ \A i \in DOMAIN cs : ColumnIs(g, s, r, cs[i], k + i)'
      BY <1>1, <3>1, <3>3
    <3>5. Received(r)' = k /\ Columns(s, r)' = cs
      BY <1>2, <2>2, <3>2
    <3> QED BY <3>4, <3>5 DEF ColumnsAre
  <2>4. HaloIs(g, r, s)'
    BY <1>1, <1>2, <2>1 DEF HaloIs, Sees
  <2> QED BY <2>3, <2>4
<1>7. VotesAre(g)'
  <2>1. \A key : Waiting(mail, key)' = Waiting(mail, key)
    BY <1>1 DEF Waiting
  <2>2. \A t \in Others : t \in Ranks
    BY DEF Others
  <2> QED BY <1>1, <1>2, <2>1, <2>2 DEF VotesAre, Shared
<1>8. \A f \in Before(g.f) : Final(f)'
  BY <1>4 DEF Shared
<1> QED BY <1>5, <1>6, <1>7, <1>8 DEF Shared

\* Every step keeps the invariant.
LEMMA Kept == IInv /\ [Next]_vars => IInv'
<1> SUFFICES ASSUME IInv, [Next]_vars PROVE IInv'
  OBVIOUS
<1>1. PICK g \in Segments : Shapes /\ Shared(g)
  BY DEF IInv
<1>2. CASE CountVotes
  <2>1. CASE \E r \in Ranks : changed[r]
    BY <1>1, <1>2, <2>1, CountVotesGo DEF IInv
  <2>2. CASE ~ \E r \in Ranks : changed[r]
    BY <1>1, <1>2, <2>2, CountVotesLeave DEF IInv
  <2> QED BY <2>1, <2>2
<1>3. ASSUME NEW r \in Ranks,
             Start(r) \/ TakeDem(r) \/ TakeSd(r) \/ Enter(r) \/ TakeEdges(r) \/ TakeAnswer(r) \/ Finish(r)
      PROVE  IInv'
  <2>1. Shapes' /\ Shared(g)'
    BY <1>1, <1>3, StartKeeps, TakeDemKeeps, TakeSdKeeps, EnterKeeps, TakeEdgesKeeps, TakeAnswerKeeps, FinishKeeps
  <2> QED BY <2>1 DEF IInv
<1>4. CASE UNCHANGED vars
  <2>1. Shared(g)'
    BY <1>1, <1>4, StutterKeeps
  <2>2. Shapes'
    BY <1>1, <1>4 DEF vars, Shapes, IsMail, IsQueue
  <2> QED BY <2>1, <2>2 DEF IInv
<1> QED BY <1>2, <1>3, <1>4 DEF Next

\* The invariant of the rounds holds of every behaviour.
LEMMA Always == Spec => []IInv
BY Begun, Kept, PTL DEF Spec

-----------------------------------------------------------------------------
\* The column a rank takes next is of the exchange it waits for.
LEMMA ColumnsMatch ==
  ASSUME NEW g \in Segments, Shapes, Shared(g), NEW r \in Ranks, NEW key \in Awaited(r) \cap DOMAIN mail,
         key[3] \in {"left", "right"}
  PROVE  /\ First(mail, key).number = count[r]
         /\ First(mail, key).array = IF pc[r] \in {"enter", "edges"} THEN field[r] ELSE pc[r]
<1>1. Receiving(r) /\ \E s \in Beside(r) : key = Seam(s, r)
  BY DEF Awaited, Receiving, ToZero
<1>2. PICK s \in Beside(r) : key = Seam(s, r)
  BY <1>1
<1>3. s \in Ranks /\ IsMail(mail) /\ count[r] \in Nat
  BY PaddedIs DEF Shapes
<1>4. PICK cs, k : cs = Columns(s, r) /\ k = Received(r)
  OBVIOUS
<1>5. IsQueue(cs) /\ cs # <<>> /\ First(mail, key) = cs[1]
  BY <1>2, <1>3, <1>4, WaitingIs DEF Columns
<1>6. 1 \in DOMAIN cs
  BY <1>5, QueueIs
<1>7. ColumnsAre(g, s, r) /\ Placed(g, r)
  BY <1>3 DEF Shared
<1>8. ColumnIs(g, s, r, cs[1], k + 1)
  BY <1>4, <1>6, <1>7 DEF ColumnsAre
<1>9. k + 1 = count[r]
  BY <1>1, <1>3, <1>4 DEF Received
<1>10. cs[1].number = count[r] /\ cs[1].array = ArrayAt(g, count[r])
  BY <1>8, <1>9 DEF ColumnIs
<1>11. ArrayAt(g, count[r]) = IF pc[r] \in {"enter", "edges"} THEN field[r] ELSE pc[r]
  BY <1>1, <1>3, <1>7, SegmentIs
     DEF Placed, Early, Entering, Sweeping, Voting, Behind, Masking, Receiving, ArrayAt, End
<1> QED BY <1>5, <1>10, <1>11

\* A rank has left only fields that are final.
LEMMA LeftOnlyFinal ==
  ASSUME NEW g \in Segments, Shapes, Shared(g)
  PROVE  LeftWhenFinal
<1>1. ASSUME NEW f \in Fields, Past(f) # {} PROVE Final(f)
  <2>1. PICK r \in Ranks : r \in Past(f)
    BY <1>1 DEF Past
  <2>2. Placed(g, r)
    BY DEF Shared
  <2>3. f \in Before(field[r])
    BY <2>1 DEF Past, Before, Fields
  <2>4. field[r] = g.f \/ (g.k # "start" /\ g.k # "go" /\ field[r] = Prev(g.f))
    BY <2>2 DEF Placed, Early, Entering, Sweeping, Voting, Behind, Masking
  <2>5. g.k = "leave" \/ g.k = "mask" => g.f \in {"towards", "height", "mask"}
    BY SegmentIs
  <2>6. f \in Before(g.f)
    BY <2>3, <2>4, <2>5, SegmentIs DEF Before, Prev, Fields
  <2> QED BY <2>6 DEF Shared
<1>2. ASSUME NEW f \in Fields, Past(f) # {}
      PROVE  LET d == Joint(f)
             IN  IF f = "height"
                   THEN \A c \in Elevated(dem, Cells) : \A n \in LevelNear(dem, Cells, c) : d[n] <= d[c]
                   ELSE \A c \in FlatCells : \A n \in LevelNear(dem, Cells, c) : d[c] <= d[n] + 1
  BY <1>1, <1>2 DEF Final, Level, Worked
<1> QED BY <1>2 DEF LeftWhenFinal, Fields

\* Someone is to go on.
LEMMA SomeoneGoesOn ==
  ASSUME NEW g \in Segments, Shapes, Shared(g), ~ Done
  PROVE  \E r \in Ranks : pc[r] # "done" /\ Has(mail, Awaited(r))
<1>1. /\ 0 \in Ranks /\ IsMail(mail) /\ count \in [Ranks -> Nat]
      /\ \A r \in Ranks : Placed(g, r)
  BY BoundsAre DEF Ranks, Shapes, Shared
<1>2. CASE \E r \in Ranks : pc[r] = "start"
  BY <1>2 DEF Awaited, Has
<1>3. CASE \E r \in Ranks : Behind(g, r)
  <2>1. PICK r \in Ranks : Behind(g, r)
    BY <1>3
  <2>2. pc[r] = "answer" /\ r \in Others
    BY <2>1 DEF Behind, Others
  <2>3. Waiting(mail, <<0, r, "cont">>) = <<g.k = "go">>
    BY <2>1, <2>2 DEF Shared, VotesAre
  <2>4. <<0, r, "cont">> \in DOMAIN mail
    BY <1>1, <2>3, WaitingIs, OneMessage
  <2> QED BY <2>2, <2>4 DEF Awaited, Has
<1>4. CASE (\E r \in Ranks : Receiving(r)) /\ (\A r \in Ranks : pc[r] # "start" /\ ~ Behind(g, r))
  <2>1. PICK W : W = {r \in Ranks : Receiving(r)}
    OBVIOUS
  <2>2. PICK N : N = {count[r] : r \in W}
    OBVIOUS
  <2>3. N \subseteq Nat
    BY <1>1, <2>1, <2>2
  <2>4. N # {}
    BY <1>4, <2>1, <2>2
  <2>5. PICK n \in N : \A m \in N : n <= m
    BY <2>3, <2>4, Least
  <2>6. PICK r \in W : n = count[r]
    BY <2>2
  <2>7. r \in Ranks /\ Receiving(r)
    BY <2>1
  <2>8. ASSUME NEW s \in Beside(r) PROVE Seam(s, r) \in DOMAIN mail
    <3>1. s \in Ranks
      BY <2>7, PaddedIs
    <3>2. count[s] >= count[r]
      <4>1. CASE Receiving(s)
        BY <2>1, <2>2, <2>5, <2>6, <3>1, <4>1
      <4>2. CASE ~ Receiving(s)
        <5>1. Voting(g, s) \/ (Masking(g, s) /\ pc[s] = "done")
          BY <1>1, <1>4, <3>1, <4>2 DEF Placed, Early, Entering, Sweeping, Masking, Receiving
        <5>2. count[s] = End(g)
          BY <5>1 DEF Voting, Masking, End
        <5>3. count[r] <= End(g)
          BY <1>1, <2>7, SegmentIs DEF Placed, Early, Entering, Sweeping, Voting, Behind, Masking, End
        <5> QED BY <1>1, <3>1, <2>7, <5>2, <5>3
      <4> QED BY <4>1, <4>2
    <3>3. ColumnsAre(g, s, r)
      BY <2>7 DEF Shared
    <3>4. Len(Columns(s, r)) = count[s] - (count[r] - 1)
      BY <2>7, <3>3 DEF ColumnsAre, Received
    <3>5. Len(Columns(s, r)) >= 1
      BY <1>1, <2>7, <3>1, <3>2, <3>4
    <3>6. IsQueue(Columns(s, r)) /\ (Seam(s, r) \in DOMAIN mail <=> Columns(s, r) # <<>>)
      BY <1>1, WaitingIs DEF Columns
    <3> QED BY <3>5, <3>6, QueueIs
  <2>9. Awaited(r) = {Seam(s, r) : s \in Beside(r)} /\ pc[r] # "done"
    BY <2>7 DEF Awaited, Receiving
  <2> QED BY <2>7, <2>8, <2>9 DEF Has
<1>5. CASE \A r \in Ranks : pc[r] # "start" /\ ~ Behind(g, r) /\ ~ Receiving(r)
  <2>1. PICK r \in Ranks : pc[r] # "done"
    BY DEF Done
  <2>2. \A s \in Ranks : Voting(g, s) \/ (g.k = "mask" /\ pc[s] = "done")
    BY <1>1, <1>5 DEF Placed, Early, Entering, Sweeping, Masking, Receiving
  <2>3. \A s \in Ranks : Voting(g, s)
    BY <2>1, <2>2 DEF Voting
  <2>4. pc[0] = "votes" /\ Awaited(0) = {<<t, 0, "chg">> : t \in Others}
    BY <1>1, <2>3 DEF Voting, Awaited, ToZero
  <2>5. ASSUME NEW t \in Others PROVE <<t, 0, "chg">> \in DOMAIN mail
    <3>1. Waiting(mail, <<t, 0, "chg">>) = <<changed[t]>>
      BY <2>3 DEF Shared, VotesAre, Others
    <3> QED BY <1>1, <3>1, WaitingIs, OneMessage
  <2> QED BY <1>1, <2>4, <2>5 DEF Has
<1> QED BY <1>2, <1>3, <1>4, <1>5

\* At the end nothing is left under way.
LEMMA NothingLeft ==
  ASSUME NEW g \in Segments, Shapes, Shared(g), Done
  PROVE  mail = NoMail
<1>1. /\ 0 \in Ranks /\ IsMail(mail) /\ DOMAIN mail \subseteq Keys /\ count \in [Ranks -> Nat]
      /\ \A r \in Ranks : pc[r] = "done" /\ Placed(g, r)
  BY BoundsAre DEF Ranks, Shapes, Shared, Done
<1>2. \A r \in Ranks : ~ Voting(g, r) /\ ~ Behind(g, r) /\ count[r] = g.b + 1 /\ Received(r) = g.b + 1
  BY <1>1 DEF Placed, Early, Entering, Sweeping, Voting, Behind, Masking, Received, Receiving
<1>4. ASSUME NEW key \in DOMAIN mail PROVE FALSE
  <2>1. Waiting(mail, key) # <<>>
    BY <1>1, WaitingIs
  <2>2. CASE \E t \in Others : key = <<t, 0, "chg">> \/ key = <<0, t, "cont">>
    <3>1. PICK t \in Others : key = <<t, 0, "chg">> \/ key = <<0, t, "cont">>
      BY <2>2
    <3> QED BY <1>2, <2>1, <3>1 DEF Shared, VotesAre, Others
  <2>3. CASE \E s \in Ranks : \E r \in Beside(s) : key = Seam(s, r)
    <3>0. PICK s \in Ranks : \E r \in Beside(s) : key = Seam(s, r)
      BY <2>3
    <3>1. PICK r \in Beside(s) : key = Seam(s, r)
      BY <3>0
    <3>2. ColumnsAre(g, s, r) /\ r \in Ranks
      BY PaddedIs DEF Shared
    <3>3. Len(Columns(s, r)) = 0
      BY <1>1, <1>2, <3>2, SegmentIs DEF ColumnsAre
    <3>4. IsQueue(Columns(s, r))
      BY <1>1, WaitingIs DEF Columns
    <3> QED BY <2>1, <3>1, <3>3, <3>4, QueueIs DEF Columns
  <2> QED BY <1>1, <2>2, <2>3 DEF Keys, ToZero, FromZero
<1>5. DOMAIN mail = {} /\ mail = [k \in DOMAIN mail |-> mail[k]]
  BY <1>1, <1>4 DEF IsMail
<1>6. mail = [k \in {} |-> mail[k]]
  BY <1>5
<1> QED BY <1>6 DEF NoMail

\* The invariant says what RoundsAreShared says.
LEMMA RoundsShared == IInv => RoundsAreShared
<1> SUFFICES ASSUME NEW g \in Segments, Shapes, Shared(g) PROVE RoundsAreShared
  BY DEF IInv
<1> QED BY ColumnsMatch, LeftOnlyFinal, SomeoneGoesOn, NothingLeft DEF RoundsAreShared

\* The lock-step of resolve_flats_streaming (RoundsAreShared), for every raster, every
\* split into tiles and every order of the messages: no rank leaves a field that is not
\* final, no column is taken for that of another array or round, until all are done a
\* rank can go on, and then no message is left.
THEOREM RoundsAreSharedAlways == Spec => []RoundsAreShared
BY Always, RoundsShared, PTL
=============================================================================
