------------------------------ MODULE RankState ------------------------------
(***************************************************************************)
(* What the stages of the distributed driver share: the raster, the        *)
(* progress of each rank, the messages under way, and what one stage hands *)
(* to the next.  A step of a rank runs from the receives it needs to the   *)
(* sends it makes.                                                         *)
(***************************************************************************)
EXTENDS Stitch, Mail

CONSTANT Inputs  \* what the program is started with: [terrain, flat_replay, halo_cap],
                 \* terrain being [elev, ocean, nodata] for every cell

\* Elevations are numbered in their order from 0 up; a cell without data is ocean
\* (is_ocean).
ASSUME InputsAssumption ==
  \A call \in Inputs :
    /\ call.terrain \in [Cells -> [elev : Nat, ocean : BOOLEAN, nodata : BOOLEAN]]
    /\ \A c \in Cells : call.terrain[c].nodata => call.terrain[c].ocean
    /\ call.flat_replay \in BOOLEAN

VARIABLES
  terrain,      \* the raster; a rank reads its own cells of it only
  flat_replay,  \* whether DH_FLAT_PARTITION_REPLAY is set
  halo_cap,     \* the fourth argument of the program
  pc,           \* per rank: what it does next
  mail,         \* the messages under way
  halo,         \* per rank: haloL and haloR
  tile,         \* per rank: label, fd and the pits of deps
  myoffset,     \* per rank: its first global label
  n_global,     \* rank 0: one more than the number of depressions
  glab_pc       \* per rank: the global label of its cells, BOUNDARY resolved

rankVars == <<terrain, flat_replay, halo_cap, pc, mail, halo, tile, myoffset, n_global, glab_pc>>

\* What a run is started with, and what the stages after the conduits only read.
startVars == <<terrain, flat_replay, halo_cap>>
floodVars == <<startVars, halo, tile, myoffset, n_global>>

InitRanks ==
  /\ \E call \in Inputs :
       terrain = call.terrain /\ flat_replay = call.flat_replay /\ halo_cap = call.halo_cap
  /\ pc = [r \in Ranks |-> "start"]
  /\ mail = NoMail
  /\ halo = [r \in Ranks |-> <<>>]
  /\ tile = [r \in Ranks |-> [label |-> <<>>, flow |-> <<>>, pits |-> <<>>]]
  /\ myoffset = [r \in Ranks |-> 1]
  /\ n_global = 0
  /\ glab_pc = [r \in Ranks |-> <<>>]

\* The messages rank r waits for at each stage; the stages that are not listed
\* begin with no receive.
Awaited(r) ==
  CASE pc[r] = "halo"     -> {<<s, r, "strip">> : s \in Beside(r)}
    [] pc[r] = "counts"   -> ToZero({"count"})
    [] pc[r] = "offset"   -> {<<0, r, "offset">>}
    [] pc[r] = "gather"   -> ToZero({"lw", "edge"})
    [] pc[r] = "resolved" -> {<<0, r, "resolved">>}
    [] pc[r] = "bands"    -> {<<s, r, "band">> : s \in Beside(r)}
    [] pc[r] = "votes"    -> ToZero({"chg"})
    [] pc[r] = "answer"   -> {<<0, r, "cont">>}
    [] pc[r] = "leaves"   -> ToZero({"rep"})
    [] pc[r] = "surv"     -> {<<0, r, "rep">>}
    [] pc[r] = "used"     -> ToZero({"flrel"})
    [] pc[r] = "dense"    -> {<<0, r, "flrel">>}
    [] pc[r] = "seam"     -> {<<s, r, "left">> : s \in {r + 1} \cap Ranks}
    [] pc[r] = "merge"    -> ToZero({"intra", "odbedge"})
    [] pc[r] = "records"  -> ToZero({"deprec"})
    [] pc[r] = "tree"     -> {<<0, r, "tree">>}
    [] pc[r] = "totals"   -> ToZero({"marg"})
    [] OTHER              -> {}

\* What a rank other than 0 reports to rank 0; for rank 0 itself there is no message.
Report(r, tag, value) == [key \in {<<t, 0, tag>> : t \in {r} \ {0}} |-> value]

\* f laid over g.
Over(f, g) == [c \in DOMAIN f \cup DOMAIN g |-> IF c \in DOMAIN f THEN f[c] ELSE g[c]]

\* What rank 0 has of its own cells, and the others have sent of theirs.
Gathered(own, tag) ==
  LET of(t) == IF t = 0 THEN own ELSE First(mail, <<t, 0, tag>>)
  IN  [c \in UNION {DOMAIN of(t) : t \in Ranks} |-> of(TileOf(c))[c]]

At(r, stage) == pc[r] = stage /\ Has(mail, Awaited(r))

elev == ElevOf(terrain)
Oceans == OceanOf(terrain)

\* The cells that water from c can reach without going up.
Downhill(c) ==
  FoldLeft(LAMBDA S, i : S \cup {n \in UNION {Around(x) : x \in S} :
                                   \E x \in S : n \in Around(x) /\ elev[n] <= elev[x]},
           {c}, [i \in 1 .. Width * Height |-> i])
=============================================================================
