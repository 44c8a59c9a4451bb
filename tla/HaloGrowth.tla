------------------------------ MODULE HaloGrowth ------------------------------
(***************************************************************************)
(* Stage 6 of the distributed driver, with the flat-label replay on.  Each *)
(* rank floods a window of the raster around its tile once more, by the    *)
(* order of the serial flood, and lets the window grow by bands of columns *)
(* that are passed on from rank to rank, one tile per round, until no rank *)
(* wants more: its own labels were the same in three rounds running, or    *)
(* its window is as wide as it may be.  The basins found are then given    *)
(* labels by rank 0.  A band is the set of its columns.                    *)
(***************************************************************************)
EXTENDS RankState

VARIABLES
  round,     \* per rank: the number of replays so far
  held,      \* per rank: the columns of colE, colO and colG
  fwd,       \* per rank: the bands it passes on, R to the right, L to the left
  owned,     \* per rank: prevOwned, the replayed labels of its own cells
  stable,    \* per rank: for how many rounds they have not changed
  surv,      \* rank 0: the surviving leaf of each basin, by pit cell
  gc_owned,  \* per rank: the surviving label of each of its cells
  fl_relabel \* rank 0: the dense label of each surviving label

haloVars == <<round, held, fwd, owned, stable, surv, gc_owned, fl_relabel>>

InitHalo ==
  /\ round = [r \in Ranks |-> 0]
  /\ held = [r \in Ranks |-> X0(r) .. X1(r) - 1]
  /\ fwd = [r \in Ranks |-> [R |-> held[r], L |-> held[r]]]
  /\ owned = [r \in Ranks |-> <<>>]
  /\ stable = [r \in Ranks |-> 0]
  /\ surv = <<>>
  /\ gc_owned = [r \in Ranks |-> <<>>]
  /\ fl_relabel = <<>>

-----------------------------------------------------------------------------
\* replay: every cell of the window by the cell index of its basin's pit.
\* OCEAN is 0, which is also the index of the first cell.
Replay(window) ==
  LET oceans == OceanOf(terrain) \cap window
      low == {c \in window \ oceans : \A n \in Around(c) \cap window : terrain[n].elev >= terrain[c].elev}
      done == FloodedFrom(window, Restrict(ElevOf(terrain), window), OceanLabels(terrain, window), oceans \cup low)
  IN  [c \in window |-> IF done.label[c] = OCEAN THEN OCEAN ELSE done.pits[done.label[c]]]

\* Columns on each side of the tile, at most.
cap == Min({halo_cap, Width})

\* Fault: the cap is forgotten.
AbsorbedAll(r, band) == band

\* absorb: the columns of a band within the cap.
Absorbed(r, band) == {x \in band : x >= X0(r) - cap /\ x < X1(r) + cap}

\* Fault: two equal rounds are enough.
WantsUnlessStable(r, columns, count) ==
  /\ count < 1
  /\ ~ ((Min(columns) = 0 \/ X0(r) - Min(columns) >= cap)
        /\ (Max(columns) = Width - 1 \/ Max(columns) + 1 - X1(r) >= cap))

\* want.
Wants(r, columns, count) ==
  /\ count < 2
  /\ ~ ((Min(columns) = 0 \/ X0(r) - Min(columns) >= cap)
        /\ (Max(columns) = Width - 1 \/ Max(columns) + 1 - X1(r) >= cap))

\* What came from one side is passed on to the other in the next round.
PassedOn(r) ==
  [R |-> IF <<r - 1, r, "band">> \in Awaited(r) THEN First(mail, <<r - 1, r, "band">>) ELSE fwd[r].R,
   L |-> IF <<r + 1, r, "band">> \in Awaited(r) THEN First(mail, <<r + 1, r, "band">>) ELSE fwd[r].L]

\* The bands that have come, a replay, and the vote for another round.
Round(r) ==
  /\ At(r, "round") \/ At(r, "bands")
  /\ LET columns == held[r] \cup UNION {Absorbed(r, First(mail, k)) : k \in Awaited(r)}
         ow == Restrict(Replay(Between(Min(columns), Max(columns) + 1)), Owned(r))
         count == IF round[r] > 0 /\ ow = owned[r] THEN stable[r] + 1 ELSE 0
     IN  /\ held' = [held EXCEPT ![r] = columns]
         /\ fwd' = [fwd EXCEPT ![r] = PassedOn(r)]
         /\ owned' = [owned EXCEPT ![r] = ow]
         /\ stable' = [stable EXCEPT ![r] = count]
         /\ mail' = Sent(Receive(mail, Awaited(r)), Report(r, "chg", Wants(r, columns, count)))
  /\ round' = [round EXCEPT ![r] = @ + 1]
  /\ pc' = [pc EXCEPT ![r] = IF r = 0 THEN "votes" ELSE "answer"]
  /\ UNCHANGED <<floodVars, glab_pc, surv, gc_owned, fl_relabel>>

Bands(r) == [key \in {<<r, s, "band">> : s \in Beside(r)} |-> IF key[2] > r THEN fwd[r].R ELSE fwd[r].L]

\* Step A: the basin in which each of the rank's leaves has its pit.
PitBasins(r) ==
  {[rb |-> owned[r][tile[r].pits[k]], leaf |-> myoffset[r] + k - 1] :
     k \in {i \in DOMAIN tile[r].pits : owned[r][tile[r].pits[i]] \in Cells \ {OCEAN}}}

\* Rank 0 tells all ranks whether another round follows.
Decide ==
  /\ At(0, "votes")
  /\ LET again == Wants(0, held[0], stable[0]) \/ \E t \in Others : First(mail, <<t, 0, "chg">>)
         told == Sent(Receive(mail, Awaited(0)), [key \in FromZero("cont") |-> again])
     IN  /\ pc' = [pc EXCEPT ![0] = IF again THEN "bands" ELSE "leaves"]
         /\ mail' = IF again THEN Sent(told, Bands(0)) ELSE told
  /\ UNCHANGED <<floodVars, glab_pc, round, held, fwd, owned, stable, surv, gc_owned, fl_relabel>>

Heed(r) ==
  /\ At(r, "answer")
  /\ LET again == First(mail, <<0, r, "cont">>)
     IN  /\ pc' = [pc EXCEPT ![r] = IF again THEN "bands" ELSE "surv"]
         /\ mail' = Sent(Receive(mail, Awaited(r)),
                         IF again THEN Bands(r) ELSE Report(r, "rep", PitBasins(r)))
  /\ UNCHANGED <<floodVars, glab_pc, round, held, fwd, owned, stable, surv, gc_owned, fl_relabel>>

-----------------------------------------------------------------------------
\* Step B: the lowest leaf of each basin.
LowestLeaf(pairs) ==
  [rb \in {p.rb : p \in pairs} |-> Min({p.leaf : p \in {q \in pairs : q.rb = rb}})]

\* Step C: the label of each cell of the rank.  A basin without a leaf keeps
\* the cell's own label.
SurvivorOf(r, survmap) ==
  [c \in Owned(r) |->
     IF terrain[c].ocean \/ owned[r][c] \notin Cells \ {OCEAN} THEN OCEAN
     ELSE IF owned[r][c] \in DOMAIN survmap THEN survmap[owned[r][c]]
     ELSE glab_pc[r][c]]

PickSurvivors ==
  /\ At(0, "leaves")
  /\ surv' = LowestLeaf(PitBasins(0) \cup UNION {First(mail, k) : k \in Awaited(0)})
  /\ mail' = Sent(Receive(mail, Awaited(0)), [key \in FromZero("rep") |-> surv'])
  /\ gc_owned' = [gc_owned EXCEPT ![0] = SurvivorOf(0, surv')]
  /\ pc' = [pc EXCEPT ![0] = "used"]
  /\ UNCHANGED <<floodVars, glab_pc, round, held, fwd, owned, stable, fl_relabel>>

MapCells(r) ==
  /\ At(r, "surv")
  /\ LET labels == SurvivorOf(r, First(mail, <<0, r, "rep">>))
     IN  /\ gc_owned' = [gc_owned EXCEPT ![r] = labels]
         /\ mail' = Sent(Receive(mail, Awaited(r)), Report(r, "flrel", Range(labels)))
  /\ pc' = [pc EXCEPT ![r] = "dense"]
  /\ UNCHANGED <<floodVars, glab_pc, round, held, fwd, owned, stable, surv, fl_relabel>>

\* Steps D and E.
Densify ==
  /\ At(0, "used")
  /\ fl_relabel' = Densified(Range(gc_owned[0]) \cup UNION {First(mail, k) : k \in Awaited(0)})
  /\ mail' = Sent(Receive(mail, Awaited(0)), [key \in FromZero("flrel") |-> fl_relabel'])
  /\ glab_pc' = [glab_pc EXCEPT ![0] = [c \in Owned(0) |-> fl_relabel'[gc_owned[0][c]]]]
  /\ pc' = [pc EXCEPT ![0] = "settled"]
  /\ UNCHANGED <<floodVars, round, held, fwd, owned, stable, surv, gc_owned>>

TakeDense(r) ==
  /\ At(r, "dense")
  /\ glab_pc' = [glab_pc EXCEPT ![r] = [c \in Owned(r) |-> First(mail, <<0, r, "flrel">>)[gc_owned[r][c]]]]
  /\ mail' = Receive(mail, Awaited(r))
  /\ pc' = [pc EXCEPT ![r] = "settled"]
  /\ UNCHANGED <<floodVars, round, held, fwd, owned, stable, surv, gc_owned, fl_relabel>>

HaloStep ==
  \/ Decide \/ PickSurvivors \/ Densify
  \/ \E r \in Ranks : Round(r) \/ Heed(r) \/ MapCells(r) \/ TakeDense(r)
=============================================================================
