-------------------------------- MODULE Tiles --------------------------------
(***************************************************************************)
(* The raster cut into tiles by columns, one tile per rank.                *)
(***************************************************************************)
EXTENDS Grid

CONSTANT Bounds  \* the first column of each tile, and Width at the end

ASSUME BoundsAssumption ==
  /\ Bounds \in Seq(Nat) /\ Len(Bounds) >= 2 /\ Bounds[1] = 0 /\ Last(Bounds) = Width
  /\ \A i \in 1 .. Len(Bounds) - 1 : Bounds[i] < Bounds[i + 1]

ntiles == Len(Bounds) - 1
Ranks == 0 .. ntiles - 1

X0(r) == Bounds[r + 1]
X1(r) == Bounds[r + 2]

Column(x) == {c \in Cells : XOf(c) = x}
Between(lo, hi) == {c \in Cells : XOf(c) \in lo .. hi - 1}

TileOf(c) == CHOOSE r \in Ranks : XOf(c) \in X0(r) .. X1(r) - 1
Owned(r) == Between(X0(r), X1(r))

LeftEdge(r) == Column(X0(r))
RightEdge(r) == Column(X1(r) - 1)

\* The edge columns of a tile that face another tile.
SeamCells(r) == (IF r > 0 THEN LeftEdge(r) ELSE {}) \cup (IF r < ntiles - 1 THEN RightEdge(r) ELSE {})

\* The other ranks, those beside a rank, and the messages to and from rank 0.
Others == Ranks \ {0}
Beside(r) == {r - 1, r + 1} \cap Ranks
ToZero(tags) == {<<t, 0, tag>> : t \in Others, tag \in tags}
FromZero(tag) == {<<0, t, tag>> : t \in Others}
=============================================================================
