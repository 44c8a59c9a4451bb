----------------------------- MODULE SeamConduits -----------------------------
(***************************************************************************)
(* Stages 1 to 5 of the distributed driver.  Every rank holds the columns  *)
(* of its own tile and one column of each neighbour, received as a         *)
(* message.  Seam cells that drain across the seam are labelled BOUNDARY   *)
(* and the tile is flooded; rank 0 gives the tiles consecutive ranges of   *)
(* global labels; and the BOUNDARY cells are resolved to what they drain   *)
(* into, by a walk within the tile and a chase from tile to tile on rank 0.*)
(* A rank's step runs from the receives it needs to the sends it makes.    *)
(***************************************************************************)
EXTENDS RankState

VARIABLES
  glab,      \* per rank: the global label of its cells
  walked     \* rank 0: the LWRec of each BOUNDARY cell

conduitVars == <<glab, walked>>

InitConduits ==
  /\ glab = [r \in Ranks |-> <<>>]
  /\ walked = <<>>

\* What rank r can see: its own cells and the halo columns.
Seen(r) == Over(Restrict(terrain, Owned(r)), halo[r])

-----------------------------------------------------------------------------
\* drain_local: the strictly lower land cells beside c; of these the lowest, of
\* equals the one with the highest index; and whether c touches the ocean.
Lower(c, seen) == {n \in Around(c) : ~ seen[n].ocean /\ seen[n].elev < seen[c].elev}
\* Fault: of equals the first one found.
DrainToFirst(c, seen) ==
  CHOOSE n \in Lower(c, seen) :
    \A m \in Lower(c, seen) \ {n} :
      seen[n].elev < seen[m].elev \/ (seen[n].elev = seen[m].elev /\ n < m)

DrainOf(c, seen) ==
  CHOOSE n \in Lower(c, seen) :
    \A m \in Lower(c, seen) \ {n} :
      seen[n].elev < seen[m].elev \/ (seen[n].elev = seen[m].elev /\ m < n)
ToOcean(c, seen) == \E n \in Around(c) : seen[n].ocean

\* Fault: a cell that touches the ocean is marked as well.
MarkedAtSea(r, seen) ==
  {c \in SeamCells(r) : ~ seen[c].ocean /\ Lower(c, seen) # {} /\ TileOf(DrainOf(c, seen)) # r}

\* The seam cells labelled BOUNDARY before the flood.
Marked(r, seen) ==
  {c \in SeamCells(r) :
     /\ ~ seen[c].ocean
     /\ Lower(c, seen) # {} /\ ~ ToOcean(c, seen)
     /\ TileOf(DrainOf(c, seen)) # r}

\* Fault: only the strip to the right is sent.
StripToTheRight(r) ==
  [key \in {<<r, s, "strip">> : s \in {r + 1} \cap Ranks} |-> Restrict(terrain, RightEdge(r))]

\* The edge columns a rank sends to its neighbours.
Strips(r) ==
  [key \in {<<r, s, "strip">> : s \in Beside(r)} |->
     Restrict(terrain, IF key[2] = r + 1 THEN RightEdge(r) ELSE LeftEdge(r))]

\* setup_tile up to the receives.
SendStrips(r) ==
  /\ At(r, "start")
  /\ pc' = [pc EXCEPT ![r] = "halo"]
  /\ mail' = Sent(mail, Strips(r))
  /\ UNCHANGED <<floodVars, glab, walked, glab_pc>>

\* The rest of setup_tile, flood_tile, and the count sent to rank 0.
FloodTile(r) ==
  /\ At(r, "halo")
  /\ LET columns == FoldSet(LAMBDA k, h : Over(First(mail, k), h), <<>>, Awaited(r))
         seen == Over(Restrict(terrain, Owned(r)), columns)
         given == [c \in Owned(r) |-> IF seen[c].ocean THEN OCEAN
                                      ELSE IF c \in Marked(r, seen) THEN BOUNDARY ELSE NO_DEP]
         flooded == Flooded(Owned(r), [c \in Owned(r) |-> seen[c].elev], given)
     IN  /\ halo' = [halo EXCEPT ![r] = columns]
         /\ tile' = [tile EXCEPT ![r] = flooded]
         /\ mail' = Sent(Receive(mail, Awaited(r)), Report(r, "count", Len(flooded.pits)))
  /\ pc' = [pc EXCEPT ![r] = IF r = 0 THEN "counts" ELSE "offset"]
  /\ UNCHANGED <<startVars, myoffset, n_global, glab, walked, glab_pc>>

-----------------------------------------------------------------------------
\* remap_namespace on rank 0: the prefix sum over the tiles; the last entry
\* is n_global.
Offsets0(counts) ==
  [t \in 0 .. ntiles |-> 1 + MapThenSumSet(LAMBDA s : counts[s], {s \in Ranks : s < t})]

LabelOffsets ==
  Offsets0([t \in Ranks |-> IF t = 0 THEN Len(tile[0].pits) ELSE First(mail, <<t, 0, "count">>)])

NumberTiles ==
  /\ At(0, "counts")
  /\ n_global' = LabelOffsets[ntiles]
  /\ mail' = Sent(Receive(mail, Awaited(0)), [key \in FromZero("offset") |-> LabelOffsets[key[2]]])
  /\ pc' = [pc EXCEPT ![0] = "walk"]
  /\ UNCHANGED <<startVars, halo, tile, myoffset, glab, walked, glab_pc>>

\* A rank learns its offset.
TakeOffset(r) ==
  /\ At(r, "offset")
  /\ myoffset' = [myoffset EXCEPT ![r] = First(mail, <<0, r, "offset">>)]
  /\ mail' = Receive(mail, Awaited(r))
  /\ pc' = [pc EXCEPT ![r] = "walk"]
  /\ UNCHANGED <<startVars, halo, tile, n_global, glab, walked, glab_pc>>

gmap(local, offset) == IF local \in Exterior THEN local ELSE offset + local - 1

-----------------------------------------------------------------------------
\* Where the walk along the flow directions of the tile ends: at a cell that
\* is not BOUNDARY, or at one without flow direction.  The guard of the loop
\* allows one step more than the tile has cells.
WalkEnd(r, c) ==
  FoldLeft(LAMBDA x, i : IF tile[r].label[x] # BOUNDARY \/ tile[r].flow[x] = NO_FLOW THEN x
                         ELSE tile[r].flow[x],
           c, [i \in 1 .. Cardinality(Owned(r)) + 1 |-> i])

Terminal(l) == [terminal |-> TRUE, label |-> l, exit |-> 0]

\* localwalk.
LocalWalk(r, c) ==
  LET e == WalkEnd(r, c)
      seen == Seen(r)
  IN  IF tile[r].label[e] # BOUNDARY THEN Terminal(gmap(tile[r].label[e], myoffset[r]))
      ELSE IF Lower(e, seen) = {} \/ ToOcean(e, seen) THEN Terminal(OCEAN)
      ELSE [terminal |-> FALSE, label |-> 0, exit |-> DrainOf(e, seen)]

Walks(r) == [c \in {x \in Owned(r) : tile[r].label[x] = BOUNDARY} |-> LocalWalk(r, c)]

\* build_global_labels and the first phase of resolve_conduits.
Walk(r) ==
  /\ At(r, "walk")
  /\ glab' = [glab EXCEPT ![r] = [c \in Owned(r) |-> gmap(tile[r].label[c], myoffset[r])]]
  /\ mail' = Sent(Sent(mail, Report(r, "lw", Walks(r))),
                  Report(r, "edge", Restrict(glab'[r], SeamCells(r))))
  /\ walked' = IF r = 0 THEN Walks(0) ELSE walked
  /\ pc' = [pc EXCEPT ![r] = IF r = 0 THEN "gather" ELSE "resolved"]
  /\ UNCHANGED <<floodVars, glab_pc>>

\* One round of the chase: a cell to look up next, or a label.
Step(lw, edge, s) ==
  IF s.label # BOUNDARY THEN s
  ELSE LET q == lw[s.cell]
       IN  IF q.terminal THEN [cell |-> s.cell, label |-> q.label]
           ELSE [cell |-> q.exit, label |-> IF q.exit \in DOMAIN edge THEN edge[q.exit] ELSE OCEAN]

\* Fault: the chase stops after the first seam.
ChaseOnce(lw, edge, c) == Step(lw, edge, [cell |-> c, label |-> BOUNDARY]).label

\* The chase; when the guard runs out it answers OCEAN.
Chased(lw, edge, c) ==
  LET s == FoldLeft(LAMBDA t, i : Step(lw, edge, t), [cell |-> c, label |-> BOUNDARY],
                    [i \in 1 .. Cardinality(DOMAIN lw) + 2 |-> i])
  IN  s.label

ChaseOrOcean(lw, edge, c) == IF Chased(lw, edge, c) = BOUNDARY THEN OCEAN ELSE Chased(lw, edge, c)

\* The stage that follows.
AfterConduits == IF flat_replay THEN "round" ELSE "settled"

\* The second phase on rank 0: the walks and the edge labels of all tiles, and the
\* labels of the BOUNDARY cells of one.
AllWalks == Gathered(walked, "lw")
AllEdges == Gathered(Restrict(glab[0], SeamCells(0)), "edge")
ResolvedOf(t) ==
  [c \in {x \in DOMAIN AllWalks : TileOf(x) = t} |-> ChaseOrOcean(AllWalks, AllEdges, c)]

Resolve ==
  /\ At(0, "gather")
  /\ walked' = AllWalks
  /\ mail' = Sent(Receive(mail, Awaited(0)), [key \in FromZero("resolved") |-> ResolvedOf(key[2])])
  /\ glab_pc' = [glab_pc EXCEPT ![0] = Over(ResolvedOf(0), glab[0])]
  /\ pc' = [pc EXCEPT ![0] = AfterConduits]
  /\ UNCHANGED <<floodVars, glab>>

\* Fault: cells that were never BOUNDARY are left out.
OverlayOnly(r) ==
  /\ At(r, "resolved")
  /\ glab_pc' = [glab_pc EXCEPT ![r] = First(mail, <<0, r, "resolved">>)]
  /\ mail' = Receive(mail, Awaited(r))
  /\ pc' = [pc EXCEPT ![r] = AfterConduits]
  /\ UNCHANGED <<floodVars, glab, walked>>

\* A rank lays the resolved labels over its own.
Overlay(r) ==
  /\ At(r, "resolved")
  /\ glab_pc' = [glab_pc EXCEPT ![r] = Over(First(mail, <<0, r, "resolved">>), glab[r])]
  /\ mail' = Receive(mail, Awaited(r))
  /\ pc' = [pc EXCEPT ![r] = AfterConduits]
  /\ UNCHANGED <<floodVars, glab, walked>>

ConduitStep ==
  \/ \E r \in Ranks : SendStrips(r) \/ FloodTile(r) \/ TakeOffset(r) \/ Walk(r) \/ Overlay(r)
  \/ NumberTiles \/ Resolve
=============================================================================
