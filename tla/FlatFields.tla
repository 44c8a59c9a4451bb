------------------------------ MODULE FlatFields ------------------------------
(***************************************************************************)
(* The arithmetic of flat resolution without labels: three fields that are *)
(* relaxed over level neighbours until nothing changes (the distance from  *)
(* higher terrain, the distance towards a way out, the height of the flat  *)
(* in the first of the two), a mask made of them, and the descent of the   *)
(* mask.  Everything is written for a window of the raster, of which only  *)
(* the cells in `own` are worked on: the whole raster, one tile of it, or  *)
(* the padded array of a rank.                                             *)
(***************************************************************************)
EXTENDS Tiles, FiniteSetsExt, Functions, TLC

CONSTANTS
  INF,      \* larger than any distance
  NO_FLOW   \* no flow direction

ASSUME DistanceAssumption == INF \in Nat

\* The terrain: for each cell [elev, data], data being FALSE for NoData.
Elevated(dem, w) == {c \in w : dem[c].data}

\* d8_flow_directions: a cell on the edge of the array drains off the map, and
\* so does a cell with a lower neighbour drain; the others get NO_FLOW.
Undrained(dem, w) ==
  LET columns == {XOf(c) : c \in w}
      inner == {c \in w : XOf(c) \notin {Min(columns), Max(columns)} /\ YOf(c) \notin {0, Height - 1}}
  IN  {c \in inner : \A n \in Around(c) : dem[n].elev >= dem[c].elev}

\* FlatAt, with the cells that d8_flow_directions left undrained.
Flats(dem, sd) == {c \in sd : dem[c].data}

Near(dem, w, c) == Around(c) \cap Elevated(dem, w)
LevelNear(dem, w, c) == {n \in Near(dem, w, c) : dem[n].elev = dem[c].elev}

\* FlatSeed: the flat cells that touch higher terrain, and the cells next to a
\* flat from which the water gets out.
AwaySeeds(dem, sd, w, own) ==
  [c \in w |-> IF c \in own \cap Flats(dem, sd) /\ \E n \in Near(dem, w, c) : dem[n].elev > dem[c].elev
               THEN 1 ELSE INF]
TowardsSeeds(dem, sd, w, own) ==
  [c \in w |-> IF /\ c \in own \cap Elevated(dem, w) /\ c \notin sd
                  /\ LevelNear(dem, w, c) \cap Flats(dem, sd) # {}
               THEN 1 ELSE INF]
HeightSeeds(dem, sd, w, own, away) ==
  [c \in w |-> IF c \in own \cap Flats(dem, sd) /\ away[c] < INF THEN away[c] ELSE 0]

\* One sweep of a relaxation over these cells, from a value one less in a level
\* neighbour or from a greater one; the values of other cells stay.
Nearer(dem, w, cells, d) ==
  [c \in w |-> IF c \in cells THEN Min({d[c]} \cup {d[n] + 1 : n \in LevelNear(dem, w, c)}) ELSE d[c]]
Higher(dem, w, cells, d) ==
  [c \in w |-> IF c \in cells THEN Max({d[c]} \cup {d[n] : n \in LevelNear(dem, w, c)}) ELSE d[c]]

\* Local convergence.  Values only fall or only rise, so in whatever order the
\* cells are taken the end is the same; a value crosses a window in fewer steps
\* than it has cells.
Swept(kind, dem, sd, w, own, d) ==
  IF kind = "height" THEN Higher(dem, w, own \cap Elevated(dem, w), d)
                     ELSE Nearer(dem, w, own \cap Flats(dem, sd), d)
Converged(kind, dem, sd, w, own, d) ==
  FoldLeft(LAMBDA e, i : LET new == Swept(kind, dem, sd, w, own, e) IN IF new = e THEN e ELSE new,
           d, [i \in 1 .. Cardinality(own) |-> i])

\* FlatFinish: the mask of a flat cell falls towards the way out, and among cells
\* at one distance from it towards the middle of the flat.
Mask(dem, sd, w, own, away, tw, fh) ==
  [c \in w |->
     IF c \notin own \cap Elevated(dem, w) \/ tw[c] >= INF THEN INF
     ELSE IF c \in sd /\ away[c] < INF THEN fh[c] - away[c] + 2 * tw[c]
     ELSE 2 * tw[c]]

\* A neighbour takes over from the best one so far if its mask is lower; at the
\* same mask a straight direction takes over from a diagonal one.
Steeper(mask, best, n, i) ==
  \/ mask[n] < mask[best.cell]
  \/ mask[n] = mask[best.cell] /\ best.dir > 0 /\ best.dir % 2 = 0 /\ i % 2 = 1

\* The masked descent over the interior of the window: where a flat cell
\* drains, NO_FLOW if it has no way out.
Descent(dem, w, c, mask) ==
  LET around == Neighbours[c]
      best == FoldLeft(LAMBDA b, i :
                         IF around[i] \in w /\ dem[around[i]].elev = dem[c].elev /\ mask[around[i]] < INF
                            /\ Steeper(mask, b, around[i], i)
                         THEN [cell |-> around[i], dir |-> i] ELSE b,
                       [cell |-> c, dir |-> 0], [i \in DOMAIN around |-> i])
  IN  IF mask[c] >= INF \/ best.dir = 0 THEN NO_FLOW ELSE best.cell

Resolved(dem, sd, w, own, mask) == [c \in own \cap Flats(dem, sd) |-> Descent(dem, w, c, mask)]

-----------------------------------------------------------------------------
\* ResolveFlatFlowdirsRelaxed: the whole raster as one window.
WholeSd(dem) == Undrained(dem, Cells)
WholeAway(dem) ==
  Converged("away", dem, WholeSd(dem), Cells, Cells, AwaySeeds(dem, WholeSd(dem), Cells, Cells))
WholeTowards(dem) ==
  Converged("towards", dem, WholeSd(dem), Cells, Cells, TowardsSeeds(dem, WholeSd(dem), Cells, Cells))
WholeHeight(dem, away) ==
  Converged("height", dem, WholeSd(dem), Cells, Cells, HeightSeeds(dem, WholeSd(dem), Cells, Cells, away))
FlowsOfWhole(dem, away, tw, fh) ==
  Resolved(dem, WholeSd(dem), Cells, Cells, Mask(dem, WholeSd(dem), Cells, Cells, away, tw, fh))

ResolveFlatFlowdirsRelaxed(dem) ==
  LET away == WholeAway(dem) IN FlowsOfWhole(dem, away, WholeTowards(dem), WholeHeight(dem, away))

\* ResolveFlatFlowdirsRelaxedTiled: in a round every tile converges on its own,
\* and reads what lies beyond its seams as it was before the round.
TiledRound(kind, dem, d) ==
  FoldSet(LAMBDA r, e : Restrict(Converged(kind, dem, WholeSd(dem), Cells, Owned(r), d), Owned(r)) @@ e,
          <<>>, Ranks)

Tiled(kind, dem, seeds) ==
  FoldLeft(LAMBDA s, i : IF ~ s.go THEN s
                         ELSE LET new == TiledRound(kind, dem, s.d) IN [d |-> new, go |-> new # s.d],
           [d |-> seeds, go |-> TRUE], [i \in 1 .. Cardinality(Cells) |-> i]).d

ResolveFlatFlowdirsRelaxedTiled(dem) ==
  LET away == Tiled("away", dem, AwaySeeds(dem, WholeSd(dem), Cells, Cells))
      tw == Tiled("towards", dem, TowardsSeeds(dem, WholeSd(dem), Cells, Cells))
      fh == Tiled("height", dem, HeightSeeds(dem, WholeSd(dem), Cells, Cells, away))
  IN  FlowsOfWhole(dem, away, tw, fh)
=============================================================================
