-------------------------- MODULE ConstructHierarchy --------------------------
(***************************************************************************)
(* The assembly of the depression hierarchy (phase D): the outlets found   *)
(* by the flood are swept from the lowest to the highest, and a union-find *)
(* over the depressions turns each one into a skip, a link to the ocean or *)
(* a new meta-depression.  The sweep is sequential; its difficulty is that *)
(* the tree, the union-find and the order of the sweep have to agree.      *)
(*                                                                         *)
(* The sorted vector of outlets is the set `todo`: the next outlet is any  *)
(* of the minimal ones, which is all that std::sort promises.  Two equal   *)
(* entries of the vector are one element of the set, because the second is *)
(* always skipped.                                                         *)
(***************************************************************************)
EXTENDS Partition, Integers, FiniteSets

CONSTANTS
  NLeaf,      \* leaf depressions, labelled 1..NLeaf
  Cells,      \* flat cell indices
  Dem,        \* the elevation of each cell
  Pit,        \* the pit cell of each leaf
  NO_VALUE,   \* "no label", "no cell": the largest unsigned value
  INF,        \* the elevation no cell reaches
  OutletSets  \* the outlets the flood may hand over

OCEAN == 0
Leaves == 1 .. NLeaf
LeafLabels == 0 .. NLeaf
Elevations == {Dem[c] : c \in Cells}

\* The constructor of Outlet stores the smaller label first, and its
\* elevation is that of its cell.
Outlet ==
  {o \in [depa : LeafLabels, depb : LeafLabels, out_cell : Cells, out_elev : Elevations] :
     o.depa < o.depb /\ o.out_elev = Dem[o.out_cell]}

ASSUME LeafAssumption == NLeaf \in Nat
ASSUME CellAssumption ==
  /\ Cells \subseteq Nat
  /\ Dem \in [Cells -> Int]
  /\ Pit \in [Leaves -> Cells]
  /\ \A l, m \in Leaves : Pit[l] = Pit[m] => l = m
ASSUME SentinelAssumption ==
  /\ NO_VALUE \in Nat
  /\ \A c \in Cells : c < NO_VALUE
  /\ NO_VALUE > 2 * NLeaf
  /\ INF \in Int
  /\ \A c \in Cells : Dem[c] < INF
ASSUME OutletAssumption == \A S \in OutletSets : S \subseteq Outlet /\ IsFiniteSet(S)

VARIABLES
  size,     \* depressions.size()
  deps,     \* the depressions, indexed by label
  rep,      \* djset: the representative of each label
  outlets,  \* the outlets handed over
  todo      \* the outlets the sweep has not visited

vars == <<size, deps, rep, outlets, todo>>

Labels == 0 .. size - 1

\* A depression as emplace_back makes it.
NewDepression ==
  [parent |-> NO_VALUE, odep |-> NO_VALUE, geolink |-> NO_VALUE,
   lchild |-> NO_VALUE, rchild |-> NO_VALUE,
   pit_cell |-> NO_VALUE, pit_elev |-> INF,
   out_cell |-> NO_VALUE, out_elev |-> INF,
   ocean_parent |-> FALSE, ocean_linked |-> {}]

LeafDepression(l) ==
  [NewDepression EXCEPT !.pit_cell = Pit[l], !.pit_elev = Dem[Pit[l]]]

\* The ocean's pit elevation is minus infinity.
OceanDepression == [NewDepression EXCEPT !.pit_elev = -INF]

\* The depressions of the leaves, with which the sweep starts.
LeafVector == [l \in LeafLabels |-> IF l = OCEAN THEN OceanDepression ELSE LeafDepression(l)]

Init ==
  /\ size = NLeaf + 1
  /\ deps = LeafVector
  /\ rep = Singletons(LeafLabels)
  /\ outlets \in OutletSets
  /\ todo = outlets

-----------------------------------------------------------------------------
\* std::minmax of the pit cells of the two ends; the ocean's is NO_VALUE.
PitOf(l) == IF l = OCEAN THEN NO_VALUE ELSE Pit[l]
LowPit(o) == IF PitOf(o.depb) < PitOf(o.depa) THEN PitOf(o.depb) ELSE PitOf(o.depa)
HighPit(o) == IF PitOf(o.depb) < PitOf(o.depa) THEN PitOf(o.depa) ELSE PitOf(o.depb)

\* Fault: of two outlets at one elevation the cell is not looked at.
BeforeWithoutCell(o, p) ==
  \/ o.out_elev < p.out_elev
  \/ o.out_elev = p.out_elev /\ LowPit(o) < LowPit(p)

\* The comparison std::sort is called with.
Before(o, p) ==
  \/ o.out_elev < p.out_elev
  \/ /\ o.out_elev = p.out_elev
     /\ \/ o.out_cell < p.out_cell
        \/ /\ o.out_cell = p.out_cell
           /\ \/ LowPit(o) < LowPit(p)
              \/ LowPit(o) = LowPit(p) /\ HighPit(o) < HighPit(p)

\* Fault: the outlets are swept unsorted.
Unsorted == todo

\* The outlets std::sort may have put first among those not yet visited.
Lowest == {o \in todo : \A p \in todo : ~ Before(p, o)}

\* Both ends already belong to one meta-depression: nothing to do.
Skip(o) ==
  /\ rep[o.depa] = rep[o.depb]
  /\ todo' = todo \ {o}
  /\ UNCHANGED <<size, deps, rep, outlets>>

\* Faults: the union-find is told the ocean joins the depression; the leaf is
\* linked instead of its meta-depression.
LinkOceanToDepression(o, a, b) ==
  /\ rep[a] # OCEAN
  /\ rep[b] = OCEAN
  /\ deps' = [deps EXCEPT ![rep[a]] = [@ EXCEPT !.parent = b, !.out_cell = o.out_cell,
                                                !.out_elev = o.out_elev]]
  /\ rep' = MergeInto(rep, OCEAN, rep[a])
  /\ todo' = todo \ {o}
  /\ UNCHANGED <<size, outlets>>

LinkLeafToOcean(o, a, b) ==
  /\ rep[a] # OCEAN
  /\ rep[b] = OCEAN
  /\ deps' = [deps EXCEPT
       ![a] = [@ EXCEPT !.parent = b, !.geolink = b, !.out_cell = o.out_cell,
                        !.out_elev = o.out_elev, !.ocean_parent = TRUE],
       ![b].ocean_linked = @ \cup {a}]
  /\ rep' = MergeInto(rep, rep[a], OCEAN)
  /\ todo' = todo \ {o}
  /\ UNCHANGED <<size, outlets>>

\* The meta-depression of leaf a has found the ocean through leaf b.
LinkToOcean(o, a, b) ==
  /\ rep[a] # OCEAN
  /\ rep[b] = OCEAN
  /\ deps' = [deps EXCEPT
       ![rep[a]] = [@ EXCEPT !.parent = b, !.odep = NO_VALUE, !.geolink = b,
                             !.out_cell = o.out_cell, !.out_elev = o.out_elev,
                             !.ocean_parent = TRUE],
       ![b].ocean_linked = @ \cup {rep[a]}]
  /\ rep' = MergeInto(rep, rep[a], OCEAN)
  /\ todo' = todo \ {o}
  /\ UNCHANGED <<size, outlets>>

\* Fault: the overflow target is the leaf across the outlet.
SpilledToLeaf(d, o, sibling, across) ==
  [d EXCEPT !.parent = size, !.odep = across, !.geolink = across,
            !.out_cell = o.out_cell, !.out_elev = o.out_elev]

\* What a side of a merge learns: its new parent, its sibling, and the leaf
\* across the outlet into which it overflows.
Spilled(d, o, sibling, across) ==
  [d EXCEPT !.parent = size, !.odep = sibling, !.geolink = across,
            !.out_cell = o.out_cell, !.out_elev = o.out_elev]

\* Faults: an outlet inside one meta-depression is not skipped; the union-find
\* is not told about the second child.
MergeWithoutSkip(o) ==
  LET a == rep[o.depa]
      b == rep[o.depb]
  IN  /\ a # OCEAN
      /\ b # OCEAN
      /\ deps' = [l \in 0 .. size |->
           IF l = size THEN [NewDepression EXCEPT !.lchild = a, !.rchild = b]
           ELSE IF l = a THEN Spilled(deps[a], o, b, o.depb)
           ELSE IF l = b THEN Spilled(deps[b], o, a, o.depa)
           ELSE deps[l]]
      /\ rep' = MergeInto(MergeInto(rep, a, size), b, size)
      /\ size' = size + 1
      /\ todo' = todo \ {o}
      /\ UNCHANGED outlets

MergeHalf(o) ==
  LET a == rep[o.depa]
      b == rep[o.depb]
  IN  /\ a # b
      /\ a # OCEAN
      /\ b # OCEAN
      /\ deps' = [l \in 0 .. size |->
           IF l = size THEN [NewDepression EXCEPT !.lchild = a, !.rchild = b]
           ELSE IF l = a THEN Spilled(deps[a], o, b, o.depb)
           ELSE IF l = b THEN Spilled(deps[b], o, a, o.depa)
           ELSE deps[l]]
      /\ rep' = MergeInto(rep, a, size)
      /\ size' = size + 1
      /\ todo' = todo \ {o}
      /\ UNCHANGED outlets

\* Two meta-depressions without a path to the ocean become one.
Merge(o) ==
  LET a == rep[o.depa]
      b == rep[o.depb]
  IN  /\ a # b
      /\ a # OCEAN
      /\ b # OCEAN
      /\ deps' = [l \in 0 .. size |->
           IF l = size THEN [NewDepression EXCEPT !.lchild = a, !.rchild = b,
                                                  !.pit_cell = deps[a].pit_cell]
           ELSE IF l = a THEN Spilled(deps[a], o, b, o.depb)
           ELSE IF l = b THEN Spilled(deps[b], o, a, o.depa)
           ELSE deps[l]]
      /\ rep' = MergeInto(MergeInto(rep, a, size), b, size)
      /\ size' = size + 1
      /\ todo' = todo \ {o}
      /\ UNCHANGED outlets

\* One round of the loop over the sorted outlets.
Visit(o) ==
  \/ Skip(o)
  \/ LinkToOcean(o, o.depa, o.depb)
  \/ LinkToOcean(o, o.depb, o.depa)
  \/ Merge(o)

Next == \E o \in Lowest : Visit(o)

Spec == Init /\ [][Next]_vars

-----------------------------------------------------------------------------
(***************************************************************************)
(* Properties.                                                             *)
(***************************************************************************)
LabelOrNone == Labels \cup {NO_VALUE}

Depression ==
  [parent : LabelOrNone, odep : LabelOrNone, geolink : LabelOrNone,
   lchild : LabelOrNone, rchild : LabelOrNone,
   pit_cell : Cells \cup {NO_VALUE}, pit_elev : Int,
   out_cell : Cells \cup {NO_VALUE}, out_elev : Int,
   ocean_parent : BOOLEAN, ocean_linked : SUBSET Labels]

\* The type invariant: the vector of depressions and the union-find always
\* range over the same labels.
TypeOK ==
  /\ size \in Nat
  /\ NLeaf < size
  /\ deps \in [Labels -> Depression]
  /\ rep \in [Labels -> Labels]
  /\ outlets \subseteq Outlet
  /\ todo \subseteq outlets

\* The comparison of std::sort leaves nothing to chance: of two different
\* outlets one comes before the other, so the order of the sweep does not
\* depend on the order in which the outlets were discovered, the triple
\* junctions the comment above the sort speaks of included.
SweepOrderIsTotal ==
  \A o, p \in outlets : o # p => (Before(o, p) \/ Before(p, o))

\* The asserts of both branches: a depression that still represents its set
\* has no outlet, no overflow target and no parent, so no outlet is
\* recorded over an earlier one.
RepresentativesAreOpen ==
  \A l \in Labels : rep[l] = l =>
    /\ deps[l].out_cell = NO_VALUE
    /\ deps[l].odep = NO_VALUE
    /\ deps[l].parent = NO_VALUE
    /\ deps[l].out_elev = INF

\* A depression that has found where it spills keeps parent, outlet, overflow
\* target, geolink and children for good; only further depressions may link
\* to the ocean through it.
SpillIsFinal ==
  [][\A l \in Labels : deps[l].parent # NO_VALUE =>
       /\ deps[l].ocean_linked \subseteq deps'[l].ocean_linked
       /\ deps'[l] = [deps[l] EXCEPT !.ocean_linked = deps'[l].ocean_linked]]_vars

\* a and b are joined by a chain of these outlets: whatever set of leaves
\* separates the two, one of the outlets leads out of it.
Connected(a, b, S) ==
  \/ a = b
  \/ \A X \in SUBSET (LeafLabels \ {a, b}) :
       \E o \in S : (o.depa \in X \cup {a}) # (o.depb \in X \cup {a})

\* The union-find knows exactly the depressions that the outlets visited so
\* far join, the ocean included, and no depression is joined to another by
\* the others alone.
SetsAreComponents ==
  \A a, b \in LeafLabels : rep[a] = rep[b] <=> Connected(a, b, outlets \ todo)

\* The depressions form a forest of binary trees: a meta-depression has two
\* children with smaller labels that name it as parent and each other as
\* overflow target, they spill into it over one outlet, and no outlet above
\* it is lower.  A node without children is a leaf or the ocean, and a node
\* with a parent that is not its binary parent is linked to the ocean.
BinaryForest ==
  \A d \in Labels :
    /\ d <= NLeaf <=> deps[d].lchild = NO_VALUE
    /\ d > NLeaf =>
         LET l == deps[d].lchild
             r == deps[d].rchild
         IN  /\ l \in 1 .. d - 1
             /\ r \in 1 .. d - 1
             /\ l # r
             /\ deps[l].parent = d /\ deps[r].parent = d
             /\ deps[l].odep = r /\ deps[r].odep = l
             /\ deps[l].out_cell = deps[r].out_cell
             /\ deps[l].out_elev = deps[r].out_elev
             /\ deps[l].out_elev <= deps[d].out_elev
             /\ ~ deps[l].ocean_parent /\ ~ deps[r].ocean_parent
    /\ deps[d].parent # NO_VALUE /\ ~ deps[d].ocean_parent =>
         d \in {deps[deps[d].parent].lchild, deps[deps[d].parent].rchild}

\* A depression linked to the ocean is listed by the one leaf it is linked
\* through, and by no other.
OceanLinksAgree ==
  \A d, e \in Labels :
    d \in deps[e].ocean_linked <=> deps[d].ocean_parent /\ deps[d].parent = e

\* The walk up the parent pointers on which the volumes rely: a depression
\* may be linked to the ocean through a leaf in the middle of another tree,
\* yet from there on every depression up to the ocean spills no higher than
\* it does, and the walk does not come back.  What stands above its outlet is
\* therefore never taken for part of the depression it runs down into.
SpillsDownToOcean(d) ==
  \E S \in SUBSET (Labels \ {d}) :
    /\ deps[d].parent \in S
    /\ \A m \in S \ {OCEAN} : deps[m].parent \in S /\ deps[m].out_elev <= deps[d].out_elev

OceanWalk == \A d \in Labels : deps[d].ocean_parent => SpillsDownToOcean(d)

\* 2N - 1 depressions below the ocean are all there can be, so the labels
\* stay clear of the sentinels at the top of their range.
LabelsAreBounded == size <= 2 * NLeaf + 1

\* The leaves below a depression.
LeavesUnder[d \in Labels] ==
  IF deps[d].lchild = NO_VALUE THEN {d}
  ELSE LeavesUnder[deps[d].lchild] \cup LeavesUnder[deps[d].rchild]

\* The elevation at which water passes from leaf a to leaf b: the least one
\* whose outlets join them, INF if none does.
PassElevation(a, b) ==
  LET joins == {e \in Elevations : Connected(a, b, {o \in outlets : o.out_elev <= e})}
  IN  IF joins = {} THEN INF ELSE CHOOSE e \in joins : \A f \in joins : e <= f

\* The elevation at which the tree lets leaf l reach the ocean.
OceanSpill(l) ==
  LET tops == {d \in Labels : l \in LeavesUnder[d] /\ deps[d].ocean_parent}
  IN  IF tops = {} THEN INF ELSE deps[CHOOSE d \in tops : TRUE].out_elev

\* What the hierarchy is for: once every outlet is visited, a depression
\* spills to the ocean at the lowest level any chain of outlets allows, and
\* two depressions that share an ancestor spill into each other, below it,
\* at the lowest level any chain of outlets between them allows.
SpillElevations ==
  todo = {} =>
    /\ \A l \in Leaves : OceanSpill(l) = PassElevation(l, OCEAN)
    /\ \A d \in Labels \ LeafLabels :
         \A a \in LeavesUnder[deps[d].lchild], b \in LeavesUnder[deps[d].rchild] :
           deps[deps[d].lchild].out_elev = PassElevation(a, b)

\* Water that leaves a depression over its outlet arrives in the depression
\* it overflows into: the geolink of a depression is a leaf of its sibling's
\* subtree, or the leaf through which it is linked to the ocean.
GeolinkLandsInSibling ==
  \A d \in Labels : deps[d].parent # NO_VALUE =>
    IF deps[d].ocean_parent THEN deps[d].geolink = deps[d].parent
    ELSE deps[d].geolink \in LeavesUnder[deps[d].odep]

\* The outlet recorded for a depression is the lowest one that leads out of
\* it, and of several at that elevation the one with the lowest cell, as the
\* comment on out_cell says: "a geometric, traversal-order-independent
\* tie-break".
SpillsOverLowestOutlet ==
  \A d \in Labels : deps[d].parent # NO_VALUE =>
    \A o \in outlets :
      (o.depa \in LeavesUnder[d]) # (o.depb \in LeavesUnder[d]) =>
        \/ deps[d].out_elev < o.out_elev
        \/ deps[d].out_elev = o.out_elev /\ deps[d].out_cell <= o.out_cell

\* Water leaves at the lowest level any chain of outlets allows, over the
\* lowest outlet, and of equally low ones over the one with the lowest cell.
SpillsAreLowest == SpillElevations /\ SpillsOverLowestOutlet

-----------------------------------------------------------------------------
Function == INSTANCE Sweep

\* The sweep ends with the depressions that Sweep.tla computes in one go for the
\* models in which the assembly is one step of many.
EndsAsFunction == todo = {} => deps = Function!Assembled(LeafVector, outlets)

\* The forest is whole: trees, ocean links and geolinks agree at every moment of
\* the sweep, and the sweep ends with the forest of its functional form.
ForestIsWhole ==
  /\ BinaryForest
  /\ OceanLinksAgree
  /\ GeolinkLandsInSibling
  /\ EndsAsFunction
=============================================================================
