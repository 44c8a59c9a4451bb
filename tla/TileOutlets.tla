----------------------------- MODULE TileOutlets -----------------------------
(***************************************************************************)
(* Stage 7 of the distributed driver.  Every rank looks for the outlets    *)
(* between the depressions that touch within its tile, and for those       *)
(* across the seam on its right, for which the neighbour sends its left    *)
(* column; rank 0 merges what they found.  The labels are those that the   *)
(* earlier stages leave behind (SeamConduits).                             *)
(***************************************************************************)
EXTENDS RankState

VARIABLES
  found,           \* per rank: its two databases, intra and edge
  outlet_db_dist   \* rank 0: the merged database

outletVars == <<found, outlet_db_dist>>

InitOutlets ==
  /\ found = [r \in Ranks |-> [intra |-> <<>>, edge |-> <<>>]]
  /\ outlet_db_dist = <<>>

\* What a rank knows of a cell, and sends of an edge column as a ResStrip.
CellOf(c) == [label |-> glab_pc[TileOf(c)][c], elev |-> terrain[c].elev, nodata |-> terrain[c].nodata]
Known(S) == [c \in S |-> CellOf(c)]

-----------------------------------------------------------------------------
\* Fault: cells without data are skipped even where they are ocean.
SkipNoData(cell) == cell.nodata

OutletSkip(cell) == cell.nodata /\ cell.label # OCEAN

\* The higher cell of a pair; of a level pair the one the scan stands on.
OutletCell(known, a, b) == IF known[a].elev >= known[b].elev THEN a ELSE b

\* A set of entries, one per pair of labels: the lowest, and of equally low ones
\* that with the lower cell.
Below(o, p) == o.oelev < p.oelev \/ (o.oelev = p.oelev /\ o.ocell < p.ocell)
Reduced(entries) ==
  [key \in {e.key : e \in entries} |->
     LET here == {e \in entries : e.key = key}
         best == CHOOSE e \in here : \A f \in here \ {e} : Below(e, f)
     IN  [oelev |-> best.oelev, ocell |-> best.ocell]]

KeyOf(la, lb) == IF la < lb THEN <<la, lb>> ELSE <<lb, la>>

\* reduce of the pairs of touching cells <<focal, neighbour>>.
EntriesOf(known, pairs) ==
  {LET cell == OutletCell(known, p[1], p[2])
   IN  [key |-> KeyOf(known[p[1]].label, known[p[2]].label), oelev |-> known[cell].elev, ocell |-> cell] :
     p \in {q \in pairs : /\ known[q[1]].label # known[q[2]].label
                          /\ ~ OutletSkip(known[q[1]]) /\ ~ OutletSkip(known[q[2]])}}

\* OutletScanIntra: every pair is seen from both of its cells.
Touching(S) == {p \in S \X S : p[2] \in Around(p[1])}

\* OutletScanSeam: a pair is seen from the left column only.
Straddling(left, right) == {p \in left \X right : p[2] \in Around(p[1])}

-----------------------------------------------------------------------------
\* The ResStrip for the neighbour on the left.
LeftStrip(r) == [key \in {<<r, s, "left">> : s \in {r - 1} \cap Ranks} |-> Known(LeftEdge(r))]

\* The scan of the tile, and the left column sent to the left.
ScanTile(r) ==
  /\ At(r, "scan")
  /\ found' = [found EXCEPT ![r].intra = Reduced(EntriesOf(Known(Owned(r)), Touching(Owned(r))))]
  /\ mail' = Sent(mail, LeftStrip(r))
  /\ pc' = [pc EXCEPT ![r] = "seam"]
  /\ UNCHANGED <<floodVars, glab_pc, outlet_db_dist>>

\* The scan of the seam on the right, and both databases sent to rank 0.
ScanSeam(r) ==
  /\ At(r, "seam")
  /\ LET right == UNION {DOMAIN First(mail, k) : k \in Awaited(r)}
         known == Over(Known(RightEdge(r)), [c \in right |-> First(mail, <<r + 1, r, "left">>)[c]])
         edge == Reduced(EntriesOf(known, Straddling(RightEdge(r), right)))
     IN  /\ found' = [found EXCEPT ![r].edge = edge]
         /\ mail' = Sent(Sent(Receive(mail, Awaited(r)), Report(r, "intra", found[r].intra)),
                         Report(r, "odbedge", edge))
  /\ pc' = [pc EXCEPT ![r] = IF r = 0 THEN "merge" ELSE "ship"]
  /\ UNCHANGED <<floodVars, glab_pc, outlet_db_dist>>

AsEntries(db) == {[key |-> k, oelev |-> db[k].oelev, ocell |-> db[k].ocell] : k \in DOMAIN db}

\* mrg, over the databases in the order in which they are taken.
Merged(dbs) == Reduced(UNION {AsEntries(dbs[i]) : i \in DOMAIN dbs})

Merge ==
  /\ At(0, "merge")
  /\ LET from(tag) == [t \in 1 .. ntiles - 1 |-> First(mail, <<t, 0, tag>>)]
     IN  outlet_db_dist' = Merged(<<found[0].intra>> \o from("intra") \o <<found[0].edge>> \o from("odbedge"))
  /\ mail' = Receive(mail, Awaited(0))
  /\ pc' = [pc EXCEPT ![0] = "records"]
  /\ UNCHANGED <<floodVars, glab_pc, found>>

OutletStep == Merge \/ \E r \in Ranks : ScanTile(r) \/ ScanSeam(r)
=============================================================================
