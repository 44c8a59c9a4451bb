----------------------------- MODULE TreeVolumes -----------------------------
(***************************************************************************)
(* Stages 8 and 9 of the distributed driver.  The ranks ship the records   *)
(* of their leaves to rank 0, which assembles the hierarchy from them and  *)
(* from the merged outlets and sends the tree to the other ranks; each     *)
(* rank charges its own cells to depressions of the tree, and rank 0 adds  *)
(* the parts up.                                                           *)
(***************************************************************************)
EXTENDS RankState, Sweep

VARIABLES
  Gdist,   \* rank 0: the hierarchy, by label
  tally    \* per rank: cell_count and total_elevation that its own cells add

treeVars == <<Gdist, tally>>

InitTree ==
  /\ Gdist = <<>>
  /\ tally = [r \in Ranks |-> <<>>]

\* The records a rank ships: the pit of each leaf by its global label.
Records(r) == [l \in myoffset[r] .. myoffset[r] + Len(tile[r].pits) - 1 |-> tile[r].pits[l - myoffset[r] + 1]]

ShipRecords(r) ==
  /\ At(r, "ship")
  /\ mail' = Sent(mail, Report(r, "deprec", Records(r)))
  /\ pc' = [pc EXCEPT ![r] = "placed"]
  /\ UNCHANGED <<floodVars, glab_pc, treeVars>>

\* Fault: the surviving leaf keeps the pit it had in its tile.
PitAsShipped(pits, relabel, surv, l) == pits[l]

\* The pit of a leaf: under the replay that of its basin.
PitOf(pits, relabel, surv, l) ==
  IF flat_replay /\ l \in Range(surv) THEN CHOOSE rb \in DOMAIN surv : surv[rb] = l ELSE pits[l]

\* place: the leaves of Gdist.  Under the replay they have their dense labels
\* and those without cells are dropped.
Placed(pits, relabel, surv) ==
  LET kept == IF flat_replay THEN DOMAIN pits \cap DOMAIN relabel ELSE DOMAIN pits
      slots == IF flat_replay THEN Range(relabel) ELSE 0 .. n_global - 1
      leaf(l) == LET p == PitOf(pits, relabel, surv, l) IN LeafWith(p, terrain[p].elev)
      named == [k \in slots |-> IF flat_replay THEN {l \in kept : relabel[l] = k} ELSE kept \cap {k}]
  IN  [k \in slots |-> IF k = OCEAN THEN OceanLeaf
                       ELSE IF named[k] = {} THEN Blank
                       ELSE leaf(CHOOSE l \in named[k] : TRUE)]

Place(relabel, surv) ==
  /\ At(0, "records")
  /\ Gdist' = Placed(FoldSet(LAMBDA k, f : First(mail, k) @@ f, Records(0), Awaited(0)), relabel, surv)
  /\ mail' = Receive(mail, Awaited(0))
  /\ pc' = [pc EXCEPT ![0] = "placed"]
  /\ UNCHANGED <<floodVars, glab_pc, tally>>

-----------------------------------------------------------------------------
\* Fault: a cell is charged to the depression it was labelled with.
ChargeOwnLabel(tree, l, h) == l

\* The depression a cell of elevation h and label l is charged to.
Charged(tree, l, h) ==
  FoldLeft(LAMBDA d, i : IF d # OCEAN /\ h > tree[d].out_elev THEN tree[d].parent ELSE d,
           l, [i \in 1 .. Cardinality(DOMAIN tree) |-> i])

\* The part of the marginal volumes that lies in a set of cells labelled so.
Marginal(tree, label, cells) ==
  LET owner == [c \in {x \in cells : ~ terrain[x].nodata} |-> Charged(tree, label[c], terrain[c].elev)]
      of(d) == {c \in DOMAIN owner : d # OCEAN /\ owner[c] = d}
  IN  [d \in DOMAIN tree |-> [cell_count |-> Cardinality(of(d)),
                              total_elevation |-> MapThenSumSet(LAMBDA c : terrain[c].elev, of(d))]]

\* The part of the tree that is sent to every rank.
LightTree(deps) == [d \in DOMAIN deps |-> [out_elev |-> deps[d].out_elev, parent |-> deps[d].parent]]

OutletsOf(db) ==
  {[depa |-> k[1], depb |-> k[2], out_cell |-> db[k].ocell, out_elev |-> db[k].oelev] : k \in DOMAIN db}

\* Rank 0 assembles the hierarchy, sends the tree and charges its own cells.
Assemble(db) ==
  /\ At(0, "sweep")
  /\ Gdist' = Assembled(Gdist, OutletsOf(db))
  /\ mail' = Sent(mail, [key \in FromZero("tree") |-> LightTree(Gdist')])
  /\ tally' = [tally EXCEPT ![0] = Marginal(LightTree(Gdist'), glab_pc[0], Owned(0))]
  /\ pc' = [pc EXCEPT ![0] = "totals"]
  /\ UNCHANGED <<floodVars, glab_pc>>

\* The other ranks charge theirs.
Tally(r) ==
  /\ At(r, "tree")
  /\ LET part == Marginal(First(mail, <<0, r, "tree">>), glab_pc[r], Owned(r))
     IN  /\ tally' = [tally EXCEPT ![r] = part]
         /\ mail' = Sent(Receive(mail, Awaited(r)), Report(r, "marg", part))
  /\ pc' = [pc EXCEPT ![r] = "flows"]
  /\ UNCHANGED <<floodVars, glab_pc, Gdist>>

AddParts(p, q) ==
  [d \in DOMAIN p |-> [cell_count |-> p[d].cell_count + q[d].cell_count,
                       total_elevation |-> p[d].total_elevation + q[d].total_elevation]]

\* Rank 0 adds the parts up and computes the volumes.
Total ==
  /\ At(0, "totals")
  /\ Gdist' = Totalled(Gdist, FoldSet(LAMBDA k, sum : AddParts(sum, First(mail, k)), tally[0], Awaited(0)))
  /\ mail' = Receive(mail, Awaited(0))
  /\ pc' = [pc EXCEPT ![0] = "flows"]
  /\ UNCHANGED <<floodVars, glab_pc, tally>>
=============================================================================
