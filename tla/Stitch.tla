-------------------------------- MODULE Stitch --------------------------------
(***************************************************************************)
(* The in-process prototype of the distributed driver: one program that    *)
(* holds the whole raster, floods the tiles one after the other and        *)
(* stitches the results together.  Its stages are functions of the raster, *)
(* and what the ranks compute together is compared with them.              *)
(***************************************************************************)
EXTENDS TileFlood, Tiles

ElevOf(t) == [c \in Cells |-> t[c].elev]
OceanOf(t) == {c \in Cells : t[c].ocean}

\* ocean_labels, on a tile or on the whole raster.
OceanLabels(t, window) == [c \in window |-> IF t[c].ocean THEN OCEAN ELSE NO_DEP]

\* drain: a cell runs over to the neighbour n, or there is no such n.
DrainsTo(t, c, n) ==
  /\ n \in Around(c) \ OceanOf(t) /\ t[n].elev < t[c].elev
  /\ \A m \in Around(c) \ OceanOf(t) :
       t[m].elev < t[n].elev \/ (t[m].elev = t[n].elev /\ m > n) => m = n
ToSea(t, c) == Around(c) \cap OceanOf(t) # {}

\* The cells of a seam column that drain across the seam and not to the ocean.
CrossesSeam(t, k) ==
  {c \in SeamCells(k) \ OceanOf(t) :
     ~ ToSea(t, c) /\ \E n \in Around(c) : DrainsTo(t, c, n) /\ TileOf(n) # k}

\* build_tiles.
BuiltTiles(t) ==
  [k \in Ranks |->
     Flooded(Owned(k), ElevOf(t), [c \in CrossesSeam(t, k) |-> BOUNDARY] @@ OceanLabels(t, Owned(k)))]

\* tile.offset, and st.n_global as the offset after the last tile.
OffsetBefore(tiles, k) == 1 + MapThenSumSet(LAMBDA j : Len(tiles[j].pits), 0 .. k - 1)
Globals(tiles) == OffsetBefore(tiles, ntiles)

\* Tile::g.
ToGlobal(tiles, k, label) ==
  IF label \in Exterior THEN label ELSE OffsetBefore(tiles, k) + label - 1

\* assemble_globals: the pit cells of the leaves of G, and gLabel.
LeafPits(tiles) ==
  [l \in 1 .. Globals(tiles) - 1 |->
     LET k == CHOOSE j \in Ranks : l \in OffsetBefore(tiles, j) .. OffsetBefore(tiles, j + 1) - 1
     IN  tiles[k].pits[l - OffsetBefore(tiles, k) + 1]]

GLabels(tiles) == [c \in Cells |-> ToGlobal(tiles, TileOf(c), tiles[TileOf(c)].label[c])]

-----------------------------------------------------------------------------
\* resolve_conduits.  The cells a BOUNDARY cell comes to: along the flow
\* directions of its tile, and where these end over the seam.
NextCell(t, tiles, c) ==
  LET down == tiles[TileOf(c)].flow[c]
  IN  IF tiles[TileOf(c)].label[c] # BOUNDARY THEN {}
      ELSE IF down # NO_FLOW THEN {down}
      ELSE IF ToSea(t, c) THEN {}
      ELSE {n \in Around(c) : DrainsTo(t, c, n)}

\* The last cell that is come to; both guards bound the walk by the number
\* of cells there are.
EndOf(t, tiles, c) ==
  FoldLeft(LAMBDA x, i : IF NextCell(t, tiles, x) = {} THEN x
                         ELSE CHOOSE n \in NextCell(t, tiles, x) : TRUE,
           c, [i \in 1 .. Width * Height |-> i])

ResolvedLabels(t, tiles) ==
  LET g == GLabels(tiles)
  IN  [c \in Cells |->
         IF g[c] # BOUNDARY THEN g[c]
         ELSE IF g[EndOf(t, tiles, c)] = BOUNDARY THEN OCEAN ELSE g[EndOf(t, tiles, c)]]

-----------------------------------------------------------------------------
\* fix_flowdirs, up to the flats.  Where a pit of its tile leads over the seam:
\* to the lowest cell there, of equals the last one.
LeadsTo(t, tiles, c, n) ==
  LET over(m) == m \in Around(c) /\ TileOf(m) # TileOf(c) /\ ~ t[m].nodata /\ t[m].elev <= t[c].elev
  IN  /\ over(n) /\ (t[n].elev < t[c].elev \/ n > c)
      /\ \A m \in Around(c) : over(m) => t[m].elev > t[n].elev \/ (t[m].elev = t[n].elev /\ m <= n)

\* The last ocean cell beside c, if that is over the seam.
LastSea(t, c) == {o \in Around(c) \cap OceanOf(t) : TileOf(o) # TileOf(c) /\ \A x \in Around(c) \cap OceanOf(t) : x <= o}

FlowsOf(t, tiles) ==
  [c \in Cells |->
     LET k == TileOf(c)
         to == IF t[c].nodata THEN {}
               ELSE IF tiles[k].label[c] = OCEAN THEN LastSea(t, c)
               ELSE IF tiles[k].flow[c] = NO_FLOW THEN {n \in Around(c) : LeadsTo(t, tiles, c, n)} ELSE {}
     IN  IF to = {} THEN tiles[k].flow[c] ELSE CHOOSE n \in to : TRUE]

-----------------------------------------------------------------------------
\* reconcile_flats.  The flood of the whole raster once more, seeded with every
\* ocean cell and every land cell without a lower neighbour.
WholeReplay(t) ==
  FloodedFrom(Cells, ElevOf(t), OceanLabels(t, Cells),
              OceanOf(t) \cup {c \in Cells \ OceanOf(t) : \A n \in Around(c) : t[n].elev >= t[c].elev})

\* rb2leaf: the leaves of G whose pit lies in basin rb; the lowest survives.
LeavesIn(replay, pits, rb) == {l \in DOMAIN pits : replay.label[pits[l]] = rb}
Survives(replay, pits) ==
  [rb \in {b \in DOMAIN replay.pits : LeavesIn(replay, pits, b) # {}} |-> Min(LeavesIn(replay, pits, rb))]

\* The labels in use get numbers without gaps; the ocean keeps 0.
Densified(labels) == [l \in labels \cup {OCEAN} |-> Cardinality({k \in labels \cup {OCEAN} : k < l})]

\* A basin in which no leaf has its pit leaves its cells as they were.
LabelsOver(t, replay, survivor, before) ==
  [c \in Cells |-> IF t[c].ocean \/ replay.label[c] = OCEAN THEN OCEAN
                   ELSE IF replay.label[c] \in DOMAIN survivor THEN survivor[replay.label[c]]
                   ELSE before[c]]

\* A surviving leaf takes the pit of its basin.
PitsOver(replay, survivor, pits) ==
  [l \in DOMAIN pits |->
     IF l \in Range(survivor) THEN replay.pits[CHOOSE rb \in DOMAIN survivor : survivor[rb] = l]
     ELSE pits[l]]

Renumbered(labels, pits, dense) ==
  [label |-> [c \in Cells |-> dense[labels[c]]],
   pits |-> [k \in {dense[l] : l \in DOMAIN dense} \ {OCEAN} |->
               pits[CHOOSE l \in DOMAIN dense : dense[l] = k]]]

\* gLabel and the pits of G afterwards.
Relabelled(t, replay, survivor, before, pits) ==
  LET labels == LabelsOver(t, replay, survivor, before)
  IN  Renumbered(labels, PitsOver(replay, survivor, pits), Densified(Range(labels)))

ReconciledBy(t, replay, tiles) ==
  Relabelled(t, replay, Survives(replay, LeafPits(tiles)), ResolvedLabels(t, tiles), LeafPits(tiles))

Reconciled(t, tiles) == ReconciledBy(t, WholeReplay(t), tiles)
=============================================================================
