-------------------------------- MODULE Driver --------------------------------
(***************************************************************************)
(* The distributed driver: every rank runs the stages in order, and the    *)
(* ranks meet at three barriers.  What they do in between hangs on nothing *)
(* but the messages they name, so each stage is a module of its own and a  *)
(* step of the driver is a step of one rank in its stage, or all ranks     *)
(* leaving a barrier together (CommBarrier.tla shows how that comes about).*)
(***************************************************************************)
EXTENDS SeamConduits, HaloGrowth, TileOutlets, TreeVolumes, SeamFlows, Collapse, Canonical

vars == <<rankVars, conduitVars, haloVars, outletVars, treeVars, gfix>>

Init == InitRanks /\ InitConduits /\ InitHalo /\ InitOutlets /\ InitTree /\ InitFlows

Conduits == ConduitStep /\ UNCHANGED <<haloVars, outletVars, treeVars, gfix>>
FlatLabels == HaloStep /\ UNCHANGED <<conduitVars, outletVars, treeVars, gfix>>
FindOutlets == OutletStep /\ UNCHANGED <<conduitVars, haloVars, treeVars, gfix>>

TreeStep ==
  \/ Place(fl_relabel, surv) \/ Assemble(outlet_db_dist) \/ Total
  \/ \E r \in Ranks : ShipRecords(r) \/ Tally(r)
BuildTree == TreeStep /\ UNCHANGED <<conduitVars, haloVars, outletVars, gfix>>

PointAcross ==
  /\ \E r \in Ranks : FixFlows(r)
  /\ UNCHANGED <<conduitVars, haloVars, outletVars, treeVars>>

\* The barriers: where the ranks meet, and where rank 0 and the others go on.
Barriers ==
  {[at |-> "settled", zero |-> "scan",   others |-> "scan"],
   [at |-> "placed",  zero |-> "sweep",  others |-> "tree"],
   [at |-> "shipped", zero |-> "verify", others |-> "done"]}

Meet(b) ==
  /\ \A r \in Ranks : pc[r] = b.at
  /\ pc' = [r \in Ranks |-> IF r = 0 THEN b.zero ELSE b.others]

LeaveBarrier ==
  /\ \E b \in Barriers : Meet(b)
  /\ UNCHANGED <<floodVars, mail, glab_pc, conduitVars, haloVars, outletVars, treeVars, gfix>>

\* Rank 0 contracts the seam artefacts unless the replay has seen to the flats.
Verify ==
  /\ pc[0] = "verify"
  /\ Gdist' = IF flat_replay THEN Gdist ELSE CollapseSeamArtifacts(terrain, Gdist)
  /\ pc' = [pc EXCEPT ![0] = "done"]
  /\ UNCHANGED <<floodVars, mail, glab_pc, conduitVars, haloVars, outletVars, tally, gfix>>

Next == Conduits \/ FlatLabels \/ FindOutlets \/ BuildTree \/ PointAcross \/ LeaveBarrier \/ Verify

Spec == Init /\ [][Next]_vars

-----------------------------------------------------------------------------
(***************************************************************************)
(* What the results are compared with: the prototype that holds the whole  *)
(* raster (Stitch.tla), and one flood of the whole raster with the         *)
(* hierarchy assembled from it, as the serial program does it.             *)
(***************************************************************************)
\* build_outlets of the prototype: one database for all tiles and all seams.
StitchOutlets ==
  Reduced(EntriesOf(Known(Cells),
                    UNION {Touching(Owned(k)) : k \in Ranks}
                    \cup UNION {Straddling(RightEdge(k), LeftEdge(k + 1)) : k \in 0 .. ntiles - 2}))

Serial == Flooded(Cells, elev, OceanLabels(terrain, Cells))
SerialPit(serial, c) == IF serial.label[c] = OCEAN THEN {} ELSE {serial.pits[serial.label[c]]}

SerialLeaves(serial) ==
  OCEAN :> OceanLeaf @@ [k \in DOMAIN serial.pits |-> LeafWith(serial.pits[k], elev[serial.pits[k]])]

\* A crossing is as high as its higher cell; a level one belongs to both.
HeightOf(p) == Max({elev[p[1]], elev[p[2]]})
Lowest(pairs) == Min({HeightOf(p) : p \in pairs})
SpillCells(pairs) ==
  {c \in UNION {{p[1], p[2]} : p \in {q \in pairs : HeightOf(q) = Lowest(pairs)}} : elev[c] = Lowest(pairs)}

\* The pairs of touching cells with labels in this set of two.
Crossings(label, key) == {p \in Touching(Cells) : {label[p[1]], label[p[2]]} = key}

SerialOutlets(label) ==
  {[depa |-> Min(key), depb |-> Max(key), out_elev |-> Lowest(Crossings(label, key)),
    out_cell |-> Min(SpillCells(Crossings(label, key)))] :
     key \in {{label[p[1]], label[p[2]]} : p \in {q \in Touching(Cells) : label[q[1]] # label[q[2]]}}}

SerialTree(serial) ==
  LET deps == Assembled(SerialLeaves(serial), SerialOutlets(serial.label))
  IN  Totalled(deps, Marginal(LightTree(deps), serial.label, Cells))

-----------------------------------------------------------------------------
(***************************************************************************)
(* Properties.                                                             *)
(***************************************************************************)
Done == \A r \in Ranks : pc[r] = "done"
Settled == \A r \in Ranks : pc[r] = "settled"

Stages ==
  {"start", "halo", "counts", "offset", "walk", "gather", "resolved", "round", "bands", "votes", "answer",
   "leaves", "surv", "used", "dense", "settled", "scan", "seam", "merge", "ship", "records", "placed",
   "sweep", "tree", "totals", "flows", "shipped", "verify", "done"}

\* Each rank only fills in what has come so far, no channel ever holds two
\* messages, and no message is left over when the ranks have met.
TypeOK ==
  /\ pc \in [Ranks -> Stages]
  /\ \A key \in DOMAIN mail : key[1] # key[2] /\ {key[1], key[2]} \subseteq Ranks /\ Len(mail[key]) = 1
  /\ \A r \in Ranks :
       /\ DOMAIN tile[r].label \in {{}, Owned(r)} /\ ToSet(tile[r].pits) \subseteq Owned(r)
       /\ DOMAIN owned[r] \in {{}, Owned(r)} /\ DOMAIN gc_owned[r] \in {{}, Owned(r)}
       /\ \A k \in DOMAIN found[r].intra : k[1] < k[2] /\ found[r].intra[k].ocell \in Owned(r)
  /\ Settled => mail = NoMail /\ \A r \in Ranks : DOMAIN glab_pc[r] = Owned(r)
  /\ Done => mail = NoMail

\* The ranks never wait for each other all at once: until all are done, one has
\* every message it waits for, or all have come to the same barrier.  As
\* every step takes a rank forward, all get through all stages.
SomeRankCanGoOn ==
  ~ Done =>
    \/ \E r \in Ranks : pc[r] \notin {b.at : b \in Barriers} \cup {"done"} /\ Has(mail, Awaited(r))
    \/ \E b \in Barriers : \A r \in Ranks : pc[r] = b.at

\* The safety nets of both phases of resolve_conduits are never reached: a walk
\* that cannot go on within its tile ends at a cell that drains over the seam,
\* to a cell whose label the neighbour has published and that lies lower than
\* any cell the walk has passed, so the chase goes down at every seam and never
\* runs in a circle of tiles until its guard answers OCEAN.
ChaseGoesDown ==
  Settled =>
    \A c \in DOMAIN walked :
      /\ ~ walked[c].terminal =>
           LET x == walked[c].exit
           IN  /\ TileOf(x) # TileOf(c) /\ x \in SeamCells(TileOf(x))
               /\ elev[x] < elev[c]
               /\ glab[TileOf(x)][x] = BOUNDARY => x \in DOMAIN walked
      /\ walked[c].terminal => walked[c].label # OCEAN \/ \E o \in Oceans : TileOf(o) = TileOf(c)

\* The label of every cell, once all ranks have one.
FinalLabel == [c \in Cells |-> glab_pc[TileOf(c)][c]]

\* The pit of the leaf with label l: under the replay the pit of the basin that
\* place() stamps on it, if there is one.
FinalPit(l) ==
  IF flat_replay
    THEN LET g == CHOOSE k \in DOMAIN fl_relabel : fl_relabel[k] = l
         IN  IF g \in Range(surv) THEN CHOOSE rb \in DOMAIN surv : surv[rb] = g ELSE LeafPits(tile)[g]
    ELSE LeafPits(tile)[l]

\* "The real depression (or ocean) it drains into", and of the replay "so nothing
\* is lost": once every rank has its labels, no cell is BOUNDARY; a cell of a
\* depression can reach its pit, also several tiles away and whatever part of the
\* raster the windows have shown, without going up, and a cell of the ocean can
\* reach the ocean.
LabelsRunDownhill ==
  Settled =>
    \A c \in Cells :
      IF FinalLabel[c] = OCEAN THEN Downhill(c) \cap Oceans # {}
      ELSE FinalLabel[c] \in 1 .. n_global - 1 /\ FinalPit(FinalLabel[c]) \in Downhill(c)

\* No two land cells that touch are level, and the ocean lies below all land:
\* what the drainage of the whole raster is then does not hang on the order in
\* which a flat is visited.
FlatFree ==
  /\ \A c \in Cells \ Oceans : \A n \in Around(c) : elev[n] # elev[c]
  /\ \A o \in Oceans : \A c \in Cells \ Oceans : elev[o] < elev[c]

\* A shore cell whose ocean lies in another tile: the flood of its own tile does
\* not see the ocean, and drain_local leaves it to that flood.
HiddenShore(c) == \E o \in Around(c) \cap Oceans : TileOf(o) # TileOf(c)

\* "drain() must pick the same side or the cross-seam case is mislabelled": on a
\* terrain without flats, however many cells tie, every cell ends in the
\* depression of the same pit as in one flood of the whole raster.  The one
\* exception is water that reaches the ocean at a seam: it is kept in its tile,
\* by a depression there.
SameSinksAsSerial ==
  Settled /\ ~ flat_replay /\ FlatFree =>
    LET serial == Serial
    IN  \A c \in Cells :
          LET pit == IF FinalLabel[c] = OCEAN THEN {} ELSE {FinalPit(FinalLabel[c])}
          IN  \/ pit = SerialPit(serial, c)
              \/ SerialPit(serial, c) = {} /\ \E x \in Downhill(c) : HiddenShore(x)

\* "A converged rank keeps relaying for others": after k rounds a rank holds the
\* columns of all tiles within k of its own, as far as the cap allows, and
\* nothing else, so the window has no gap (colO.at never throws); no rank is more
\* than one round ahead of another.
BandsArriveInOrder ==
  /\ \A r \in Ranks :
       held[r] = (X0(r) .. X1(r) - 1) \cup
              {x \in UNION {X0(s) .. X1(s) - 1 : s \in {t \in Ranks : t - r < round[r] /\ r - t < round[r]}} :
                 x >= X0(r) - cap /\ x < X1(r) + cap}
  /\ \A r, s \in Ranks : round[r] <= round[s] + 1

\* Every rank has seen the whole raster; with more tiles a rank may stop before
\* the window has got there (see ExactPartition).
SeesAll == halo_cap >= Width /\ ntiles <= 3

\* What the prototype makes of its tiles.
LabelsAs(labels, pits) ==
  FinalLabel = labels /\ \A l \in DOMAIN pits : FinalPit(l) = pits[l]

ReconciledAs(reconciled) == LabelsAs(reconciled.label, reconciled.pits)

SettledAs(tiles) ==
  /\ n_global = Globals(tiles)
  /\ IF flat_replay THEN ReconciledAs(Reconciled(terrain, tiles))
     ELSE LabelsAs(ResolvedLabels(terrain, tiles), LeafPits(tiles))

FlowsAs(tiles) ==
  LET flows == FlowsOf(terrain, tiles)
  IN  \A c \in Cells : gfix[TileOf(c)][c] = flows[c]

\* "A separate oracle": what the ranks have found together, none of them having
\* seen more than a column of its neighbours and the bands it was sent, is what
\* the prototype finds that holds the whole raster: labels, pits, outlets and
\* flow directions.
SameAsStitch ==
  /\ Settled /\ (~ flat_replay \/ SeesAll) => SettledAs(BuiltTiles(terrain))
  /\ Done => outlet_db_dist = StitchOutlets /\ FlowsAs(BuiltTiles(terrain))

\* The depressions as sets of cells, each with its pit.
Basins == {[pit |-> FinalPit(l), cells |-> {c \in Cells : FinalLabel[c] = l}] : l \in Range(FinalLabel) \ {OCEAN}}

\* "Reproduce serial's EXACT flat-label partition": the cells of each depression
\* are those of a depression of one replay of the whole raster.
ExactPartition ==
  Settled /\ flat_replay /\ halo_cap >= Width =>
    LET replay == WholeReplay(terrain)
    IN  Basins = {[pit |-> replay.pits[l], cells |-> {c \in Cells : replay.label[c] = l}] : l \in DOMAIN replay.pits}

\* Cutting the raster loses no pass: the merged database has an entry for two
\* labels exactly if they touch somewhere, ocean without data included, and
\* where two basins touch within several tiles and across several seams the
\* entry holds the lowest crossing of all, at a cell of such a crossing.
CutsLoseNoPass ==
  Done =>
    LET between(key) == Crossings(FinalLabel, {key[1], key[2]})
        apart == {q \in Touching(Cells) : FinalLabel[q[1]] # FinalLabel[q[2]]}
    IN  /\ DOMAIN outlet_db_dist = {<<Min(l), Max(l)>> : l \in {{FinalLabel[p[1]], FinalLabel[p[2]]} : p \in apart}}
        /\ \A key \in DOMAIN outlet_db_dist :
             /\ outlet_db_dist[key].oelev = Lowest(between(key))
             /\ outlet_db_dist[key].ocell \in SpillCells(between(key))

\* "Break an elevation tie by the LOWER out_cell (order-independent, so
\* intra-then-seam visitation order can't change the result)".
TieGoesToLowerCell ==
  \A key \in DOMAIN outlet_db_dist :
    outlet_db_dist[key].ocell = Min(SpillCells(Crossings(FinalLabel, {key[1], key[2]})))

\* "With the correct partition [they] build serial's tree": under the replay, when
\* every rank has seen the whole raster and no tie at a seam has gone to the
\* higher cell, the assembled hierarchy is, node for node, with cells and volumes,
\* the one of the serial program, although the leaves have other labels, come
\* with the ranks' records and were charged rank by rank.
SameTreeAsSerial ==
  Done /\ flat_replay /\ SeesAll /\ TieGoesToLowerCell =>
    IsForest(Gdist) /\ canonicalize(Gdist) = canonicalize(SerialTree(Serial))

\* Children name their parents and siblings, and a depression is linked to the
\* ocean through the one whose set of links it is in.
LinksAgree(deps) ==
  \A d \in DOMAIN deps :
    /\ \A k \in BinaryKids(deps[d]) : deps[k].parent = d /\ deps[k].odep \in BinaryKids(deps[d]) \ {k}
    /\ \A k \in deps[d].ocean_linked : deps[k].ocean_parent /\ deps[k].parent = d /\ deps[k].geolink = d
    /\ d # OCEAN => deps[d].parent \in DOMAIN deps /\ d \in KidsOf(deps[deps[d].parent])

\* "The acceptance bar": with or without the replay, the hierarchy that is left is
\* a forest that holds as much water as the serial one, so the cells were charged
\* once between the ranks; and no contraction has left a link behind that leads
\* to a depression that is gone or to the wrong one.
HoldsSerialWater ==
  Done =>
    /\ IsForest(Gdist) /\ LinksAgree(Gdist)
    /\ TotalVolume(Gdist) = TotalVolume(SerialTree(Serial))

\* Following the flow directions across the seams never comes back to a cell,
\* unless two ocean cells touch across a seam: each of those is pointed at
\* the other.
FlowNeverCircles ==
  LET next == [c \in Cells |-> IF gfix[TileOf(c)][c] = NO_FLOW THEN c ELSE gfix[TileOf(c)][c]]
      end(c) == FoldLeft(LAMBDA x, i : next[x], c, [i \in 1 .. Width * Height |-> i])
  IN  Done /\ (\A c \in Oceans : ~ terrain[c].nodata => ~ HiddenShore(c)) =>
        \A c \in Cells : next[end(c)] = end(c)
=============================================================================
