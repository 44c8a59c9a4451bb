-------------------------- MODULE HierarchyVolumes --------------------------
(***************************************************************************)
(* ConstructHierarchyAndVolumes: when the sweep over the outlets is over,  *)
(* the threads of a parallel loop charge every cell to the depression that *)
(* holds it, each into counts of its own; after the barrier that ends the  *)
(* loop they add their counts to the depressions one thread at a time; and *)
(* one pass over the labels in ascending order turns the marginal numbers  *)
(* into totals.  The walk of a cell follows the parent pointers, which run *)
(* over ocean links as well as up the tree.                                *)
(***************************************************************************)
EXTENDS ConstructHierarchy, FiniteSetsExt, SequencesExt

CONSTANTS
  Threads,  \* the threads of the parallel region
  ShareOf,  \* the schedule: the thread each cell goes to
  NAN       \* the volume of 0 cells under an infinite outlet

ASSUME ThreadAssumption ==
  /\ IsFiniteSet(Threads) /\ Threads # {}
  /\ ShareOf \in [Cells -> Threads]

\* A raster has finitely many cells.
ASSUME RasterAssumption == IsFiniteSet(Cells)

VARIABLES
  label,     \* the label of each cell
  left,      \* the cells not charged yet
  tally,     \* per thread: cell_counts and total_elevations
  merged,    \* the threads that left the critical section
  cells,     \* cell_count of each depression
  elevation, \* total_elevation of each depression
  volume     \* dep_vol of the depressions totalled so far

volumeVars == <<label, left, tally, merged, cells, elevation, volume>>
allVars == <<vars, volumeVars>>

\* What the flood hands over: a pit has the label it started, no cell lies
\* below the pit of its label, and an outlet cell has a label of the outlet.
Labelling(S) ==
  {f \in [Cells -> LeafLabels] :
     /\ \A l \in Leaves : f[Pit[l]] = l
     /\ \A c \in Cells : f[c] # OCEAN => Dem[Pit[f[c]]] <= Dem[c]
     /\ \A o \in S : f[o.out_cell] \in {o.depa, o.depb}}

InitVolumes ==
  /\ Init
  /\ label \in Labelling(outlets)
  /\ left = Cells
  /\ tally = <<>>
  /\ merged = {}
  /\ cells = <<>>
  /\ elevation = <<>>
  /\ volume = <<>>

Assemble == Next /\ UNCHANGED volumeVars

\* One step of the walk of cell c.
Climb(c, l) == IF l # OCEAN /\ Dem[c] > deps[l].out_elev THEN deps[l].parent ELSE l

\* Where the walk ends.  It passes no depression twice, so `size` steps
\* are enough.
Holder(c) == FoldLeft(LAMBDA l, i : Climb(c, l), label[c], [i \in 1 .. size |-> i])

\* The vectors of zeros every thread starts with.
NoCells == [d \in Labels |-> [count |-> 0, sum |-> 0]]

StartRegion ==
  /\ todo = {}
  /\ tally = <<>>
  /\ tally' = [t \in Threads |-> NoCells]
  /\ cells' = [d \in Labels |-> 0]
  /\ elevation' = [d \in Labels |-> 0]
  /\ UNCHANGED <<vars, label, left, merged, volume>>

\* One round of the parallel loop.
Charge(t) ==
  /\ tally # <<>>
  /\ \E c \in left :
       /\ ShareOf[c] = t
       /\ \A e \in left : ShareOf[e] = t => c <= e
       /\ left' = left \ {c}
       /\ tally' = IF Holder(c) = OCEAN THEN tally
                   ELSE [tally EXCEPT ![t][Holder(c)] =
                           [count |-> @.count + 1, sum |-> @.sum + Dem[c]]]
  /\ UNCHANGED <<vars, label, merged, cells, elevation, volume>>

\* Fault: the last thread's numbers replace those of the others.
OverwriteWith(t) ==
  /\ tally # <<>> /\ left = {} /\ t \notin merged
  /\ cells' = [d \in Labels |-> tally[t][d].count]
  /\ elevation' = [d \in Labels |-> tally[t][d].sum]
  /\ merged' = merged \cup {t}
  /\ UNCHANGED <<vars, label, left, tally, volume>>

\* The critical section of a thread.
AddTally(t) ==
  /\ tally # <<>> /\ left = {} /\ t \notin merged
  /\ cells' = [d \in Labels |-> cells[d] + tally[t][d].count]
  /\ elevation' = [d \in Labels |-> elevation[d] + tally[t][d].sum]
  /\ merged' = merged \cup {t}
  /\ UNCHANGED <<vars, label, left, tally, volume>>

\* The number of a depression with those of its children.
WithChildren(num, d) ==
  IF deps[d].lchild = NO_VALUE THEN num[d]
  ELSE num[d] + num[deps[d].lchild] + num[deps[d].rchild]

\* Infinity times a positive count is infinity, times zero not a number.
VolumeUnder(count, sum, spill) ==
  IF spill < INF THEN count * spill - sum ELSE IF count = 0 THEN NAN ELSE INF

\* Fault: the labels are taken in descending order.
LastUntotalled == Max(Labels \ DOMAIN volume)

NextUntotalled == Min(Labels \ DOMAIN volume)

\* One round of CalculateTotalVolumes.
TotalNext ==
  /\ tally # <<>> /\ merged = Threads
  /\ DOMAIN volume # Labels
  /\ LET d == NextUntotalled
         count == WithChildren(cells, d)
         sum == WithChildren(elevation, d)
     IN  /\ cells' = [cells EXCEPT ![d] = count]
         /\ elevation' = [elevation EXCEPT ![d] = sum]
         /\ volume' = [e \in DOMAIN volume \cup {d} |->
                         IF e = d THEN VolumeUnder(count, sum, deps[d].out_elev) ELSE volume[e]]
  /\ UNCHANGED <<vars, label, left, tally, merged>>

NextVolumes ==
  \/ Assemble
  \/ StartRegion
  \/ \E t \in Threads : Charge(t) \/ AddTally(t)
  \/ TotalNext

SpecVolumes == InitVolumes /\ [][NextVolumes]_allVars

-----------------------------------------------------------------------------
VolumesTypeOK ==
  /\ label \in [Cells -> LeafLabels]
  /\ left \subseteq Cells
  /\ merged \subseteq Threads
  /\ tally # <<>> =>
       /\ tally \in [Threads -> [Labels -> [count : Nat, sum : Int]]]
       /\ cells \in [Labels -> Nat]
       /\ elevation \in [Labels -> Int]
  /\ DOMAIN volume \in {0 .. n - 1 : n \in 0 .. size}
  /\ \A d \in DOMAIN volume : volume[d] \in Nat \cup {INF, NAN}

\* The depressions of the tree whose pool, filled to the brim, covers a cell.
Covering(c) ==
  {d \in Labels \ {OCEAN} : label[c] \in LeavesUnder[d] /\ Dem[c] <= deps[d].out_elev}

\* Every cell is charged once and to the smallest depression of its own
\* branch of the tree that covers it, whichever thread takes it and in
\* whatever order the threads add up; a cell none covers is the ocean's,
\* although the walk that finds this out runs through depressions of other
\* branches.
Charged(d) == {c \in Cells \ left : Covering(c) # {} /\ Min(Covering(c)) = d}

CellsAreChargedOnce ==
  tally # <<>> /\ volume = <<>> =>
    \A d \in Labels :
      /\ Cardinality(Charged(d))
           = cells[d] + SumFunctionOnSet([t \in Threads |-> tally[t][d].count], Threads \ merged)
      /\ SumFunctionOnSet(Dem, Charged(d))
           = elevation[d] + SumFunctionOnSet([t \in Threads |-> tally[t][d].sum], Threads \ merged)

\* The volume of a depression is the water that stands over the cells of its
\* leaves when it is filled to its outlet, cells the children hold and cells
\* above their outlets alike.
VolumeIsWaterDepth ==
  \A d \in DOMAIN volume \ {OCEAN} :
    LET pool == {c \in Cells : d \in Covering(c)}
    IN  /\ cells[d] = Cardinality(pool)
        /\ deps[d].out_elev < INF =>
             volume[d] = SumFunctionOnSet([c \in Cells |-> deps[d].out_elev - Dem[c]], pool)

\* The assert that ends the loop: what the two children hold together is no
\* more than their parent holds, and both are totalled before it.
ChildrenHoldLess ==
  \A d \in DOMAIN volume : deps[d].lchild # NO_VALUE =>
    /\ {deps[d].lchild, deps[d].rchild} \subseteq DOMAIN volume
    /\ volume[d] # INF => volume[deps[d].lchild] + volume[deps[d].rchild] <= volume[d]

\* All three at once: at no moment is a cell lost or charged twice between the
\* threads, and what comes out is the water that the depressions hold.
VolumesAreWater == CellsAreChargedOnce /\ VolumeIsWaterDepth /\ ChildrenHoldLess
=============================================================================
