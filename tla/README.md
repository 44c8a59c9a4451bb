# A verification development for Barnes2019-DepressionHierarchy

The program takes a digital elevation model and a raster of labels (ocean,
tile boundary, interior) and produces a *depression hierarchy*: a forest of
binary trees whose leaves are the pits of the terrain and whose inner nodes,
the meta-depressions, are the pools two neighbours form when both are full. A
second set of programs computes the same hierarchy over tiles that are owned by
ranks exchanging messages. This directory holds TLA+ modules that model the
program, configurations that check them with TLC, and proofs that TLAPS checks.

Paths are relative to `src/`. `PROJECT.json` lists components, runs, mutants,
the lines each definition stands for, the hazards and the theorems.

## 1. The system

| Component | Source | State | Operations |
|---|---|---|---|
| Flood (phases A-C) | `include/dephier/dephier.hpp` 281-652 | elevations, `label`, `flowdirs`, the leaf depressions, the priority queue, `outlet_database` | check the input, seed, take the lowest cell, spread its label, record outlets |
| Priority queue | `include/dephier/radix_heap.hpp` | `size`, `last`, buckets, their minima and flags | push, top, min, pop, clear |
| Union-find | `include/dephier/DisjointDenseIntSet.hpp` | `rank`, `parent` | grow, find, union by rank, merge A into B |
| Assembly (phase D) | `dephier.hpp` 655-816 | the vector of depressions, the union-find, the sorted outlets | skip, link to the ocean, merge |
| Volumes | `dephier.hpp` 820-951 | cell counts, elevation sums, volumes; per-thread tallies | parallel marginal pass, sequential total pass |
| Thread backend | `tools/comm_thread.hpp` | one inbox per rank, a barrier counter, an epoch | send, receive, barrier, reductions |
| MPI backend | `tools/comm_mpi.hpp` | sends that are still pending | the same interface over MPI |
| Distributed driver | `tools/dephier_mpi.cpp` | per rank: its tile with halo, label offsets, conduits; on rank 0 the tree | flood tiles, renumber labels, resolve conduits, reconcile flats, gather outlets, assemble, distribute volumes, fix flow directions |
| Distributed flats | `tools/dh_flats.hpp` | distance and mask fields with halo | three relaxations, a halo exchange per round |
| Tiled outlets | `tools/dh_outlets.hpp`, `include/dephier/handle_edge.hpp` | outlet tables within tiles and across seams | scan, reduce |
| Collapse | `tools/dh_collapse.hpp` | a hierarchy that has seam artefacts | three passes, compaction, rebuilt ocean links |
| Canonical form | `tools/dh_canonical.hpp` | a hierarchy | check, relabel, compare |
| Prototype | `tools/dephier_stitch.cpp` | the whole raster, all tiles, one hierarchy | the stages of the driver in one process |
| Test oracle | `src/priority_flood.hpp`, `src/dephier_paper_tests.cpp` | a filled copy of the elevations | fill |

How they interact: `GetDepressionHierarchy` runs the flood, which drives the
priority queue and leaves leaf depressions and an outlet database;
`ConstructHierarchyAndVolumes` hands these to the assembly, which drives the
union-find, and then runs the volumes over the finished tree and the labels.
The distributed driver runs one flood per tile, turns the tiles' outlets into
one database on rank 0, runs the same assembly there, and broadcasts what the
ranks need to compute their share of the volumes; the ranks only interact
through send, receive and barrier of a backend.

Where the behaviour is hard, and what makes each component correct:

* **Flood.** It never checks that its pushes are monotone, that every cell is
  reached, or that each saddle between two depressions is seen: it looks at a
  pair of neighbours only when one of them is popped. Correct means that all
  cells are labelled, that flow follows the labels to a pit without a cycle,
  that a pit flat is one depression, and that the recorded outlets are the
  lowest crossings and preserve the passes of the terrain.
* **Priority queue.** Several arrays have to agree after push, pull and pop,
  and the order among equal keys decides which depression a flat belongs to.
* **Union-find.** It compresses, ranks, grows, and also merges against rank.
* **Assembly.** Every outlet names two leaves that may since have been
  swallowed by meta-depressions or linked to the ocean, and a tree linked to
  the ocean hangs from a leaf in the middle of another tree. The tree, the
  union-find and the sorting must agree; a wrong link shows up as a wrong
  spill elevation several merges later.
* **Volumes.** Threads share the result; the walk of a cell runs over ocean
  links into other branches; totals need children first.
* **Thread backend.** A barrier of two atomics that fast ranks re-enter while
  slow ones still leave; an inbox shared by all senders and tags.
* **MPI backend.** Sends do not block and keep their buffers until shutdown;
  a receive is a probe and a receive. Correct means the same channels as the
  threads give, and no buffer freed while the library may still read it.
* **Distributed driver.** No rank ever sees more than its tile, one column of
  each neighbour, and under the replay the bands passed on to it. Correct means
  that the ranks never wait for each other in a circle, that no message is left
  over for a later stage, that the chase along conduits goes down at every
  seam, and that labels, outlets, hierarchy, volumes and flow directions are
  those of a program that holds the whole raster.
* **Distributed flats.** The rounds must end on all ranks together, and what
  the ranks compute with stale halo columns must still end at the fixed point
  of the whole raster.
* **Outlets, collapse, canonical form.** Ties at a seam; a cell without data
  that is ocean; a contraction that leaves links to what is gone.

`hazards` in `PROJECT.json` names each of these at its line.

## 2. The modules

```
Partition  <-- ConstructHierarchy <-- HierarchyVolumes          (phase D, volumes)
                     ^                     ^
              MCConstructHierarchy   MCHierarchyVolumes
                                      HierarchyProofs
DisjointSets (uses Partition) <== DisjointDenseIntSet           (refinement)
                                          ^
                                  DisjointDenseIntSetProofs
MonotoneQueue, Grid <-- TileFlood <-- Flood <-- MCFlood         (phases A-C)
                                        ^
                                    FloodProofs
MonotoneQueue, FloatKeys <-- PriorityQueue <== RadixHeap        (refinement)
Barrier  <== CommBarrier                                        (refinement)
Channels <== CommMailbox, MpiBackend  (through MCBackends)      (refinement)
                                                 ^
                                           BackendsProofs

TileFlood, Tiles <-- Stitch                                     (functions)
Stitch, Mail <-- RankState <-- SeamConduits, HaloGrowth, TileOutlets,
                               TreeVolumes (uses Sweep), SeamFlows
those, Collapse, Canonical <-- Driver <-- MCDriver              (all ranks)
                                 ^
                             RankProofs <-- DriverProofs
Grid <-- Tiles <-- FlatFields <-- FlatRelax (uses Mail) <-- MCFlatRelax  (flats)
                                     ^
                                FlatRelaxProofs
```

`A <-- B`: B extends A. `A <== B`: B implements A, checked as a PROPERTY.
`HierarchyProofs` is about `ConstructHierarchy` and `HierarchyVolumes` both.
`BackendsProofs` is about `MCBackends` and `CommBarrier`, `DriverProofs` extends `RankProofs`.
`DataLemmas` has what the proofs need of numbers, sets, folds and sums; all
proof modules extend it.
The layers are tied to each other by what is checked:

* `ConstructHierarchy` works on the partition that `DisjointDenseIntSet` is
  shown to implement, and `Flood` on the queue that `RadixHeap` is shown to
  implement.
* The driver calls flood and assembly as functions, `TileFlood!Flooded` and
  `Sweep!Assembled`. That the step-by-step models end with just these values
  is checked in runs `flood` (`EndsAsFunction`) and `hierarchy`
  (`ForestIsWhole`), and proved for every raster and every set of outlets.
* The driver's messages are a queue per sender, receiver and tag (`Mail`).
  That either backend keeps this promise is `KeepsChannels`; that the barriers
  the ranks meet at are barriers is `KeepsBarrier`.

Definitions introduced by a comment "Fault:" are deliberately broken forms of
the definition that follows; no specification uses them.

### Assembly: `Partition`, `ConstructHierarchy`

State: `deps` and `size` are the vector of depressions, `rep` the union-find as
a map from each label to its representative, `outlets` what the flood handed
over, `todo` what the loop has not reached. `Visit(o)` is one round of the
loop, with the three outcomes of the code: `Skip`, `LinkToOcean` (twice, for
the swap of the two sides) and `Merge`. The sort is modelled by what it
promises: the next outlet is any for which no other compares smaller. Two
equal entries of the vector are one element of the set, because the code
always skips the second.

### Volumes: `HierarchyVolumes`

Extends the assembly. `StartRegion` allocates the per-thread tallies, `Charge`
is one iteration of the parallel loop, walk included, `AddTally` the critical
section, `TotalNext` one iteration of the total pass. `Labelling` states
what the flood guarantees of labels, so that all terrains allowed by the bounds
are inputs. Elevations are integers: rounding is not modelled. An infinite outlet
is `INF`, and `NAN` stands for infinity times no cells.

### Union-find: `DisjointSets`, `DisjointDenseIntSet`

`DisjointSets` is the promise: a partition with representatives, with every
call and its result. `DisjointDenseIntSet` has the two vectors, path
compression, union by rank, growth on demand, the exceptions, and
`mergeAintoB` as its callers use it, on two representatives or new ids.
That the assembly calls it no other way is `RepresentativesAreOpen`, proved.

### Flood: `Grid`, `MonotoneQueue`, `Flood`

`Seed` collects the exterior cells that touch the interior and the cells
without a lower neighbour, and `Refuse` is either of the two exceptions. The
code searches for seeds in parallel and then sorts them, so the search is a
set. `Visit` is one round of the loop: pop, label a new depression if the cell
has none, spread label and flow to the neighbours not seen, and merge
the outlets met into the database. `MonotoneQueue` is a list of values at the
current key and a bag of the rest.

### Priority queue: `FloatKeys`, `PriorityQueue`, `RadixHeap`

`FloatKeys` is the mapping of sign-and-magnitude bit patterns to unsigned keys
that `encoder_impl_decimal` computes. `RadixHeap` keeps `size`, `last`, buckets,
minima and flags, and `Spread` is `pull`, sorting of the cells by index
included. `PriorityQueue` is the same calls on a `MonotoneQueue`.

### Backends: `Barrier`, `CommBarrier`, `Channels`, `CommMailbox`, `MpiBackend`

`CommBarrier` splits the barrier at every access to an atomic: read the epoch,
count, reset the counter, open the epoch, see the epoch change. `arrived` and
`passed` are history. `Barrier` promises that a rank passes for the k-th time
only after all have come k times, and that whoever may pass does.
`CommMailbox` has one inbox per rank; a pass over it is one step because it
holds the mutex. `MpiBackend` has the list `g_pending` of buffers, the
messages in the network, the sends the library has completed, and the two steps of
a receive, `Probe` and `Recv`; `EndShutdown` gives the buffers up once
all sends are complete. In both, `sent` and `received` are history. `Channels` promises a queue of its own to each sender,
receiver and tag, and that a receive whose message is there returns.
`MCBackends` puts both backends behind this promise, as the build does.

### Driver: `Tiles`, `Stitch`, `Mail`, `RankState` and the stages, `Driver`

The raster is cut into tiles by columns. `RankState` has what the stages share:
`pc` and `mail`, and per rank the halo columns, the flooded tile, the offset and
the labels. Each stage of the source is a module:

| Module | Stage | Steps of a rank |
|---|---|---|
| `SeamConduits` | `setup_tile` to `resolve_conduits` | send strips, flood, number the tiles, walk, chase on rank 0, lay over |
| `HaloGrowth` | `reconcile_flats` | a round of replay and vote, take bands, pick survivors, map, densify |
| `TileOutlets` | `build_outlets`, `dh_outlets.hpp` | scan the tile, scan the seam, merge on rank 0 |
| `TreeVolumes` | `gather_and_assemble`, `construct_hierarchy_and_volumes` | ship records, place them, assemble, tally, add, total |
| `SeamFlows` | `fix_flowdirs` | point across the seams |
| `Collapse`, `Canonical` | `dh_collapse.hpp`, `dh_canonical.hpp` | functions used by `Verify` and by the properties |

A step of a rank runs from the receives it needs to the sends it makes, with
everything it computes in between. That is sound because sends never block and
every receive names its sender and tag: what a rank does after its receives
cannot depend on when they were made, so finer interleavings add no behaviour.
The ranks' steps interleave in every way, also across stages, up to
the next barrier. `LeaveBarrier` is all ranks leaving together. Two pairs
of messages that are sent and received back to back (`TAG_TREE_E` with `TAG_TREE_P`,
`TAG_MARG_C` with `TAG_MARG_E`) are one message each.

`Stitch` is `dephier_stitch.cpp` as functions of the whole raster: the same
stages, written separately in the source, which makes it a second opinion.
`SerialTree` is the serial program: one flood and one assembly.

### Flats: `FlatFields`, `FlatRelax`

`FlatFields` has the fields (distance to lower and from higher ground, height of
the flat), their relaxation to the fixed point on the whole raster
(`ResolveFlatFlowdirsRelaxed`) and tile by tile in one process
(`ResolveFlatFlowdirsRelaxedTiled`). `FlatRelax` is the per-rank version: the
three exchanges before the loop, a sweep over the own columns with the halo columns
as they came last, the exchange, and the vote that rank 0 counts. `count`, and the
array and number in a message, are history: they say what the sender meant.

## 3. The runs

Every property has a mutant in `PROJECT.json`: a plausible bug in a mapped
definition under which TLC finds it violated, so none holds by construction.

| Run | Question | Bounds and why they are enough |
|---|---|---|
| `hierarchy` | Do tree, union-find and sweep agree at every moment, and are spills the ones the outlets imply? | 4 leaves and the ocean, contacts in a ring with chords (7 pairs), 4 saddle cells, two of them level: every set of outlets in which a saddle belongs to one depression. Has balanced and chained trees, ocean links into the middle of a tree, triple junctions, and parts with no way to the ocean. Also 2 leaves with up to two outlets for a pair, as the database has them when two labels meet in both orders. |
| `volumes` | Is each cell counted once, are volumes water depths, are children totalled first? | 3 leaves of which one touches the ocean, 6 cells, 2 threads with a static schedule; every labelling the bounds allow. One leaf can only reach the ocean through the middle of a tree. |
| `union_find` | Do ranks and compression show? | 5 ids, every sequence of calls: chains of 4, merges against rank. |
| `radix_heap` | Does the heap order its elements as promised? | 3-bit patterns, both signs, both zeros; 2 values, 3 elements: all four buckets are used and spread. |
| `flood` | The flood's safety, the meaning of its outlets, its end, its result as a function. | Every terrain of 3 heights on 3 by 2 cells with diagonals; ocean in a corner, ocean and boundary at the ends, a boundary column, the two side by side, no exterior with and without permission, all exterior, a label that may not be handed in. |
| `barrier` | Does the barrier keep its promise, including progress? | 4 ranks, 3 epochs: a rank can be an epoch behind while others are at the next. |
| `backends` | Are both backends a channel for each sender and tag? | 2 ranks, 2 tags, 2 messages each: the awaited message can lie behind one of another tag or (threads) from the rank itself. Under MPI a rank never sends to itself, as the program never does. |
| `driver` | Do the ranks get through, and do they find what one process with the whole raster finds? | 3 ranks, 5 by 2 cells, the first tile 3 columns wide and the others one, so that water crosses two seams and a tile can be all seam; every first row of 3 heights, before a ridge or mirrored with the far corner low; with and without missing data in the far corner; replay off, and on with a cap narrower than the way to the far tile and with the width. Mirrored rasters have all their data, and the width as their cap. |
| `flats` | Do the rounds stay together and end at the flow directions of the whole raster? | 6 by 3 cells, tiles of 2, 1 and 3 columns; every middle row of 2 heights, ends lower, level, higher or without data, walls with level gaps: flats that cross both seams, drain to either side or not at all. |
| `halo_exact` | Is the partition under the replay exact? Expected violation. | 6 by 2 cells, 4 ranks, one raster. |
| `seam_tie` | Does a level crossing of a seam give the lower cell? Expected violation. | As `driver`. |
| `flood_flats` | Does one depression get a whole flat? Expected violation. | 4 by 1 cells, one raster: a flat beside the ocean. |

The bounds on counters are `MaxEpochs` (barrier), `ThreadSends` and `MpiSends`
(backends), `MaxSize` (heap) and `MaxId` (union-find); those of the data are
`Heights`, `Ridge`, `Caps`, `Ends`, `Walls`, `Corner`, `Shores`.
`CHECK_DEADLOCK FALSE` stands where the program really ends or the bound on
calls is used up; that the driver does not stop before it is done is
`SomeRankCanGoOn`.

Two conventions of the instances of the driver: cell 0 is ocean, because under
the replay the code keys basins by pit cell and uses 0 for the ocean
(`dephier_mpi.cpp` 461, 516, 541), so a pit in cell 0 would be taken for it;
and a cell without data is lower than all land, as richdem's NoData is in the
rasters of the repository. With two rows the driver's rasters are for labels
and trees; the flow directions within flats need three, and are `flats`.

### What the runs show beyond agreement

Three runs show the code doing something other than its comments say.

* `halo_exact`: a rank stops asking for columns when its labels were stable
  for two rounds (`dephier_mpi.cpp` 479-484). With four tiles and a flat that
  bends, nothing changes for two rounds before the bend comes into the window;
  the flat ends as two labels where one replay of the raster has one, although
  the cap is as wide as the raster. With three tiles or fewer it cannot happen
  before all is seen, and there `SameAsStitch` and `SameTreeAsSerial` hold.
* `seam_tie`: `reduce` takes the first of two level cells, and a seam is
  scanned from the left, so the cell in the database need not be the lower
  index, as `dh_outlets.hpp` 13-14 has it. The elevation is right
  (`CutsLoseNoPass`); `SameTreeAsSerial` is stated for runs in which no tie
  went to the higher cell.
* `flood_flats`: the comment at `dephier.hpp` 433-435 says that of cells at one
  elevation the one added last comes first, so that one depression gets all of a
  flat. But cells that are pulled together are sorted by index
  (`radix_heap.hpp` 397). The run is a flat of three cells beside the ocean:
  the ocean labels its edge, which is thereby added last; an inner cell, a seed
  since none of its neighbours is lower, has a higher index, comes first and
  starts a depression. The flat ends as two labels. (A flat with lower ground on
  two sides is split from both sides too, seeds or not; the run has none.) For
  flats without lower neighbours, which are the pits, the promise holds
  (`PitFlatsAreWhole`).

Smaller observations the models are faithful to:

* A meta-depression takes the `pit_cell` of its left child (`dephier.hpp` 803),
  not the lowest cell, as the comment on the field (46) has it.
* A pair of labels that meets from both sides has two entries in the flood's
  database (`dephier.hpp` 585; the comments at 159 and 313 say one). The
  assembly skips the second.
* Water that reaches the ocean at a seam, the ocean lying in the other tile,
  is kept by a depression in its own tile (`SameSinksAsSerial` excepts it),
  and flow directions there can differ from the serial ones
  (`dephier_mpi.cpp` 724-729 says as much).
* Two ocean cells with data that touch over a seam are pointed at each other
  (`dephier_mpi.cpp` 759-769); `FlowNeverCircles` excepts them.

### Fairness

* `Flood`: weak fairness of `Next`. The pass is one sequential loop.
* `CommBarrier`: weak fairness of what a rank does *inside* the barrier; each
  rank is a thread the operating system runs again and again. Coming to the
  barrier is the caller's choice and has no fairness. `Leave` is enabled once
  the epoch has changed and stays enabled, as the epoch cannot change again
  without this rank; so weak fairness is enough for the spinning load.
* `MCBackends`: weak fairness of a receive whose message is there, in either
  backend. A message that matches stays where it is until its receiver takes
  it, so the pass that finds it stays enabled; MPI guarantees that a probe
  finds a message that has arrived and a receive then completes.
* The driver and the flats have no fairness: that all ranks get through is
  shown by safety. `SomeRankCanGoOn`, which is proved, says that some rank has
  all it waits for until all are done, and every step takes a rank forward in
  a finite order of stages, the rounds of `HaloGrowth` being bounded by the
  width.

## 4. What is proved

`HierarchyProofs`, for any number of leaves, any cells, any pits and
any outlets, from the assumptions in `ConstructHierarchy` (pits are distinct
cells, sentinels lie above all indices, no elevation reaches infinity, an
outlet lies at the elevation of its cell):

1. `TypeCorrect`. Inductive as it stands.
2. `OnlyRepresentativesAreOpen`: the asserts of both branches hold. The
   invariant is `OpenInv`, which adds that `rep` is idempotent and that the
   ocean represents itself; without these a merge could look like a change to a
   depression that is no longer a representative.
3. `SpillsAreFinal`, an action property, from `OpenInv`: a step only writes to
   representatives, which have no parent yet.
4. `SweepOrder`: the comparison is total on outlets, because the unordered
   pair of pit cells determines the pair of labels.
5. `LabelBound`: at most 2N - 1 depressions below the ocean. `BoundInv` counts
   the sets that have not found the ocean: a merge makes one label and takes
   one such set away.
6. `WalkReachesOcean`: from a depression linked to the ocean the parent
   pointers lead to the ocean over depressions that spill no higher. `SinkInv`
   adds that parents stay within a set and that outlets recorded so far are no
   higher than those to come. The witness for the walk is the set of all
   members of the ocean's set that have a parent.
7. `SetsAreConnected`: two leaves are in one set of
   the union-find exactly if the outlets visited so far join them.
   `SetsInv` says it twice without a fixed point: the ends of every visited
   outlet are in one set, so no visited outlet leads out of a set; and
   whatever leaves no visited outlet leads out of cut through no set of the
   union-find. The second half is what a spurious merge would break.
8. `TreesAreBinary` and `OceanLinksAreListed`, the
   first two parts of `ForestIsWhole`. `TreesInv` adds to both, and to `SinkInv`,
   that nothing without a parent is marked as linked to the ocean. The
   children of a meta-depression have a parent and so do not represent their
   sets; a step writes to representatives only, so it cannot reach
   them, and what it records on the meta-depression itself is no lower because
   the sweep goes upwards.
9. `SpillsFollowPasses` and `GeolinksLandInSiblings`. `SpillInv` says that what is
   below a depression in the tree is the set of the union-find it stood for when
   it got its parent, that the outlets visited are no higher than those to come,
   and that outlets up to its spill level join what is below it with what it
   spills into. That nothing lower would do is a cut: the outlets below that
   level were visited before, and none of them leads out of the set. What is below a
   depression is a recursive function on the labels; it exists because children have
   smaller labels.
10. `WalkInv`, for the volumes: the parent pointers, ocean links included, come back
   to no depression, since where the parent of a depression leads is a part of
   its set without it.

`FloodProofs`, for rasters of any width and height, with or without diagonals,
and any calls. The assumptions are those of `Flood`: the sentinels lie above all cell indices, as they do in 32 bits
(`LabelAssumption`), and elevations are natural numbers (`InputAssumption`).
The second is no restriction on the terrain: the program compares elevations
and never adds them, so what counts is their order, and 0 stands for the least,
above minus infinity, where the heap starts.
The module begins with the lemmas: `Around` gives the neighbours within the raster, and
is mutual; the queue holds after a push, a seeding or a pop what it held before
with that value more or less, its size grows and falls by as much, and what is
popped is lowest.

1. `QueueStaysMonotone`, `NoCellIsLeftOut` and `TypesHold`. `FloodInv` says of the
   labels that each is in use by a pit of its own, and of the queue that it holds
   every seed not labelled yet, every labelled cell with a neighbour without
   a label, and nothing below the key popped last. It follows that
   anything without a label lies above something queued: the lowest such cell
   either is a seed, or has a lower neighbour from which the flood
   still goes on. So a push never undercuts the heap, and an empty queue leaves no
   cell out.
2. `EveryCellDrainsToItsPit`. `DrainInv`: flow leads to a labelled neighbour of
   the same label that is not higher, only a pit or a cell handed in with
   its label has none, and there is a depth that falls along the flow. The
   depth is a witness that no program variable holds; without it a circle
   within a level stretch would not be excluded.
3. `OutletsAreLowestCrossings`. `DatabaseInv`: the database has saddles of crossings
   only, and of every crossing with a side that has left the queue an
   outlet no higher. When the queue is empty that is all of them. The
   invariant speaks of the side because the code looks at two neighbours only
   when one is popped.
4. `OutletsKeepThePasses`. Both sides of `OutletsCarryPasses` are least closed
   sets, and either is closed under the other: a wet set that holds a cell holds
   its pit (`CourseStays`, from 2), and a crossing within a wet set has an
   outlet no higher (from 3).
5. `PitFlatsGetOneLabel`. `FlatInv`: a pit flat is untouched; or one label has
   touched it, and as long as part of it has none the queue stands at
   its level and every cell of it at the front is on top with that label.
   That the queue takes pushes at the current level first is what
   the proof rests on; with elevations alone as the order it would fail.
6. `FloodIsItsFunction`. `PastInv`: behind every state lies a history of rounds of
   `TileFlood!VisitTop`, and its length with what is left to do, `ToDo`, is at most
   twice the number of cells. `ToDo` is the size of the queue and the number
   of cells without a label. A visit takes one element off the queue and pushes
   only cells it labels, each once because no cell is a neighbour twice
   (`NeighboursAre`), so every visit lessens it. Hence the rounds of the fold are
   enough, and those that find the queue empty change nothing.

`HierarchyProofs` goes on with the volumes, for any raster, any assembly over it
and any number of threads. Raster and threads are finite (`RasterAssumption`, `ThreadAssumption`), as
the sums need:

1. Where the walk of a cell ends (`HolderIs`). It is a fold of `size` rounds, and that
   is enough: while the walk goes on, a set of depressions that is closed
   under parents and holds where it stands gets smaller with every step (`WalkedSo`).
   On its way up a tree it has passed everything above the cell's leaf
   that is lower (`Chain`: what is above one leaf is a chain, and spills upwards);
   over an ocean link it leads to the ocean, because no depression on that way spills
   higher (`OceanWalk`).
2. `VolumeTypesHold` and `VolumesHold`. `VolumeInv`: as long as a depression is not
   totalled, the cells charged to it so far are its counts and those the
   threads have not added yet; one that is totalled has the numbers of its pool. The
   step of the total pass is `MetaPool`: the pool of a parent is the pools of
   its children and what was charged to itself, and no two of these have a cell in
   common. A depth is not negative because the pool lies under the outlet, and
   two children hold no more than their parent because its outlet is no lower than theirs.
   An outlet at infinity has cells under it, the pits at least, so it never makes
   a parent's volume "not a number".

`DisjointDenseIntSetProofs`, for any number of ids: `TypesHold` and
`ImplementsPartition`, the whole refinement. The invariant is the type
invariant: parents stay within the ids and ranks rise along them (`Rising`). Ranks
being bounded, what holds at the roots and passes from parent to child holds of all
ids (`ChainInduction`); with it the recursive functions for the root of an id and for
the chain to it exist, compressing a chain moves no root (`CompressedHolds`), and
linking two roots moves exactly the ids under one of them (`LinkedHolds`). Merging
against rank keeps `Rising` because the code raises the rank of the target.

`BackendsProofs` on the barrier, for any finite set of ranks and any number of epochs:
`BarrierTypesHold`, `CounterIsExact`, `BarrierSeparates`, and `ImplementsBarrier`,
the safety part of the refinement. `BarrierInv` adds to the counter's meaning
how each rank's history relates to the epoch.

`BackendsProofs` on the two backends, for any ranks and tags and any number of messages
(`SendsAssumption`: the bounds are numbers): `MessagesStayConserved`, and
`BackendsAreChannels`, the safety part of `KeepsChannels`. `BackendInv` is
`ThreadInv` or `MpiInv`, whichever backend runs. Common to both is `IsKept`: every
message sent is received or in one place, and never both. `ThreadInv` needs no more:
the channel of a sender and tag is `Gathered` from the inbox, and taking the first
match takes the front of one channel and leaves the others. `MpiInv` adds that
what was probed is still the front of the link when it is received, and that
a message in the network has its buffer or its send is complete.

`FlatRelaxProofs`, for rasters of any size cut into any number of tiles of any
widths: `RoundsAreSharedAlways`. The assumptions are that there is a raster
(`GridAssumption`), that the tiles divide it (`BoundsAssumption`), that the
stand-in for "no distance" is a number (`DistanceAssumption`) and that elevations
are integers and data flags are Booleans (`InputsAssumption`). What one rank has is
only right relative to where the others are, so the invariant `IInv` is about
the stretch of the run between two answers of rank 0: `Shared` says, for one
such stretch, at which step of the exchange each rank may be, how many columns are on
the way between any two neighbours and from which sweep they are, whose
halo columns are those of the present round, and which votes rank 0 has. A rank can
be one exchange ahead of its neighbour and no more, since the next round starts
with rank 0 having the votes of all. That a field is final when a rank is past it
(`LeftWhenFinal`) is a matter of what the votes were about: a rank votes on a sweep
over its own columns and on edges of the neighbours that may be a sweep old. In a round
in which nobody changed anything the edges are those of the round itself, so what
each rank has seen is what the others have (`HaloIs`), and no cell of the raster
could take over anything more.

`RankProofs` and `DriverProofs`, for any raster, any number of ranks and any cap on
the replay. They assume that the tiles divide the raster (`BoundsAssumption`), that
the labels and sentinels do not meet (`LabelAssumption`) and what
`RankState` says of the inputs (`InputsAssumption`: heights are numbers, and a
cell without data is ocean, as the code that reads the raster makes it).

1. `NeverStuck`. Every step of a rank has a number, its *turn*, and every
   channel of a sender, receiver and tag is used at one turn of the sender and at
   one turn of the receiver, the rounds of the replay apart. So the messages that lie
   in a channel are what its sender has sent by now less what its receiver has
   taken by now, a function of where the two stand (`ChannelsAre`).
   `BarriersHold` says that a rank beyond a barrier has all the others behind it there,
   and `RoundsEnd` that all ranks end the rounds of the replay as rank 0
   has told them. The argument is then that among the ranks not yet done one
   that is hindmost has all that it waits for: what it waits for is sent by ranks
   that are no further back, at a turn before its own.
2. `BandsArriveInOrderAlways`: the columns passed on from rank to rank arrive without
   a gap, as `colO.at` relies on. `BandInv` says of each rank which columns it
   has, as a window around its own tile that grows by the same step on all ranks
   and is cut at the ends of the raster, and of every band on the way that
   it is what its sender had to pass on in that round. So what comes next from a side
   continues what is there, and no band is taken in a round it is not meant for.
3. `CutsNeverLosePasses`: whatever a rank has by one of its turns it never changes
   after, so it can be said once. `DataInv` says it of the flooded tile, the first
   global label, the labels before and after the seams are resolved, and those of the
   replay, and `Told` of each message that carries any of it: what it says is what
   its sender has. Of the flood this takes only what its labels
   can be (`FloodFits`, by the number of visits, as in `FloodProofs`), and that
   the tiles together have no more cells than the raster, so that the global
   labels of all ranks stay under the sentinels (`OffsetsFit`). So every rank
   scans with final labels, and the neighbour's edge is labelled when
   it arrives. `OutletInv` then says of each database, in a rank, on the way and merged,
   that it has the lowest of the entries of its pairs of cells (`Lows`, `Scan`), and
   merging keeps that (`Lows` of a union). Two neighbouring cells lie in one
   tile or on a seam, because a tile has no cells beyond its neighbour's
   nearest column (`AllPairs` are all that touch).
4. `ChaseAlwaysGoesDown`: a rank follows the flow directions of its own tile to
   a cell of its edge and names the cell over the seam into which that one drains.
   Within the tile the argument is about the flood: its flow directions never
   rise, and on the cells that the exterior labels they cannot come back to a
   cell, since each points to a cell visited before it (`FloodFalls`; `FallsSo`
   says it with a number for each cell that falls along its direction). They end
   at a cell marked as draining over the seam, since `Marked` cells are what that
   flood starts from. Over the seam the height falls strictly (`Exits`), because a
   cell is marked only if the land cell it drains into, the lowest one beside it, is
   lower and lies in the other tile. `SinkInv` says this of every flooded tile, of the walks on their way
   and of those rank 0 has. The cell they name lies in an edge column, so its label
   is published, and it is either resolved or again a conduit of its tile.

Three facts about the models that the proofs brought out. A count of received
messages is not enough to say that none is lost while another comes twice, so
`received` is the set of them. And the lemmas on folds replace
induction over data: a fold of the library is a choice of a function, so
`FoldExists` and `RepeatExists` show that the function exists, by going up from 0 to
the least value for which it would not (`Upwards`); what the fold keeps then
follows the same way. And a CASE whose guards overlap is not the first that matches
but any of them, for the prover and for the language, though TLC takes
the first; definitions that depended on the order are nested IFs now.

Checked by TLC only:

* liveness (`Terminates`, the progress part of `KeepsBarrier` and
  `KeepsChannels`) and everything about `ENABLED`, which the prover does not handle;
* `HeapIsSound`, the buckets of `RadixHeap`: it is about the highest bit
  in which two keys differ, a recursion on the bits, and follows from
  facts on such bits that need an induction each;
* `FlatsDrainAsOneGrid`: it compares the ranks' fields with a relaxation of the whole
  raster, a fold of sweeps that are folds themselves. Both are least fixed points;
  to say so takes the monotonicity of a sweep, which is another fold;
* what the driver computes: `TypeOK`, `LabelsRunDownhill`,
  `SameSinksAsSerial`, `SameAsStitch`, `SameTreeAsSerial`,
  `HoldsSerialWater` and `FlowNeverCircles`. They compare the end of all stages with the
  flood and the assembly as functions of a tile, which are folds too; what
  `FloodProofs` and `HierarchyProofs` show is about the machines that `FloodIsItsFunction`
  ties to these functions, for inputs of their own. What the driver adds to them, the
  order in which ranks and messages interleave, is what the four theorems above are about.

## 5. Plan

What is left, in order:

1. More theorems about what the driver computes, from `DataInv` and `SinkInv`
   outwards: first `TypeOK`, then that the labels run downhill within a tile. Then
   `HeapIsSound`.
2. The adaptive halo of the label-based flats (`dh_flats.hpp` 244-296), once
   there is a model of richdem's resolution of flats.
3. `relabel` of the canonical form, with the canonical form as its invariant.
4. The filling of the tests (`priority_flood.hpp`) against the definition of a
   filled terrain.

## 6. Not modelled

* `LastLayer` and `operator<<` in `dephier.hpp`: nothing calls the first, the
  second formats text.
* `main.cpp`, the command lines of the tools, reading and writing of rasters,
  printed verdicts and diagnostics; the shipping of grid slices to rank 0 for
  the verification (`dephier_mpi.cpp` 779-790 beyond its barrier).
* `ResolveFlatFlowdirs` and its adaptive halo: they wrap functions of richdem
  whose source is not in the repository; the driver uses the relaxations.
* The flow directions of flats in the prototype, which are those of the item
  above, and its verification.
* `relabel` in `dh_canonical.hpp`: only the self-check calls it.
* `priority_flood.hpp`: an oracle of the paper's tests that nothing else calls.
  Its seeding loop runs x up to the height of the raster (line 68).
* `swap` of the heap, the single-key heap and the integer encoders: unused.
* Serialisation of messages, OpenMP scheduling beyond a static one, floating
  point rounding and not-a-number elevations.
* Lost messages and ranks that crash: neither backend nor driver handles them;
  a failed rank ends the run.
* An exception thrown inside a parallel region ends the process; the model
  takes the call as refused, as a build without OpenMP does.
* The programs that test the tools; they were read for what they say.
