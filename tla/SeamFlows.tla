------------------------------ MODULE SeamFlows ------------------------------
(***************************************************************************)
(* Stage 10 of the distributed driver, up to the relaxation of the flats   *)
(* (FlatRelax.tla): a tile's flood cannot point a cell out of its tile, so *)
(* each rank points its pits and the cells of its ocean across the seam    *)
(* where that is where they drain.                                         *)
(***************************************************************************)
EXTENDS RankState

VARIABLE gfix  \* per rank: the flow directions of its cells, by the cell they lead to

InitFlows == gfix = [r \in Ranks |-> <<>>]

Foreign(r, c) == Around(c) \ Owned(r)

\* The neighbour with the lowest elevation, of equals the one with the highest index.
LowestOf(cells) ==
  CHOOSE n \in cells : \A m \in cells \ {n} :
    terrain[n].elev < terrain[m].elev \/ (terrain[n].elev = terrain[m].elev /\ m < n)

\* Fault: of two level pits either side of a seam, each leads to the other.
OutOfPitEitherWay(r, c) ==
  LET low == {n \in Foreign(r, c) : ~ terrain[n].nodata /\ terrain[n].elev <= terrain[c].elev}
  IN  IF low # {} THEN LowestOf(low) ELSE NO_FLOW

\* Where a pit of the tile leads: to the lowest cell across the seam that is
\* not above it; of two level ones only to the one with the higher index.
OutOfPit(r, c) ==
  LET low == {n \in Foreign(r, c) : ~ terrain[n].nodata /\ terrain[n].elev <= terrain[c].elev}
      best == LowestOf(low)
  IN  IF low # {} /\ (terrain[best].elev < terrain[c].elev \/ best > c) THEN best ELSE NO_FLOW

\* A cell of the ocean leads to the highest ocean cell beside it if that is
\* across the seam.
OutToSea(r, c) ==
  LET wet == {n \in Around(c) : terrain[n].ocean}
  IN  IF wet # {} /\ Max(wet) \notin Owned(r) THEN Max(wet) ELSE tile[r].flow[c]

FixedFlow(r, c) ==
  IF terrain[c].nodata THEN tile[r].flow[c]
  ELSE IF tile[r].label[c] = OCEAN THEN OutToSea(r, c)
  ELSE IF tile[r].flow[c] = NO_FLOW THEN OutOfPit(r, c)
  ELSE tile[r].flow[c]

FixFlows(r) ==
  /\ At(r, "flows")
  /\ gfix' = [gfix EXCEPT ![r] = [c \in Owned(r) |-> FixedFlow(r, c)]]
  /\ pc' = [pc EXCEPT ![r] = "shipped"]
  /\ UNCHANGED <<floodVars, mail, glab_pc>>
=============================================================================
