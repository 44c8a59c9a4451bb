-------------------------- MODULE HierarchyProofs ---------------------------
(***************************************************************************)
(* Theorems about the hierarchy, for every raster, every number of leaves, *)
(* every set of outlets and every number of threads: that the assembly     *)
(* builds a tree with its ocean links, and that the volumes are those of   *)
(* the water - first where the walk of a cell ends, then that the counts   *)
(* of the region are kept, then that the totals are those of the pools.    *)
(***************************************************************************)
EXTENDS HierarchyVolumes, DataLemmas, FiniteSetTheorems

\* checkSize does nothing to ids that exist.
LEMMA GrowKnown ==
  ASSUME NEW D, NEW r \in [D -> D], NEW a, D \cup 0 .. a = D
  PROVE  Grow(r, a) = r
<1>1. DOMAIN r = D /\ r = [i \in D |-> r[i]]
  OBVIOUS
<1>2. Grow(r, a) = [i \in D |-> IF i \in D THEN r[i] ELSE i]
  BY <1>1 DEF Grow
<1>3. QED
  BY <1>1, <1>2

\* mergeAintoB of two ids that exist.
LEMMA MergeIntoKnown ==
  ASSUME NEW D, NEW r \in [D -> D], NEW a, NEW b, D \cup 0 .. a = D, D \cup 0 .. b = D
  PROVE  MergeInto(r, a, b) = [i \in D |-> IF r[i] = a THEN b ELSE r[i]]
<1>1. DOMAIN r = D
  OBVIOUS
<1>2. Grow(r, a) = r /\ Grow(r, b) = r
  BY GrowKnown
<1>3. QED
  BY <1>1, <1>2 DEF MergeInto

\* checkSize of an existing id creates none.
LEMMA UpTo ==
  ASSUME NEW n \in Nat, NEW a \in 0 .. n - 1
  PROVE  0 .. n - 1 \cup 0 .. a = 0 .. n - 1
<1>1. ASSUME NEW i \in 0 .. a PROVE i \in 0 .. n - 1
  OBVIOUS
<1>2. QED
  BY <1>1

-----------------------------------------------------------------------------
\* The labels, and the union-find after each kind of step.
LEMMA LabelFacts ==
  ASSUME TypeOK
  PROVE  /\ LeafLabels \subseteq Labels
         /\ OCEAN \in Labels
         /\ size \notin Labels
         /\ \A a \in Labels : Labels \cup 0 .. a = Labels
<1>1. size \in Nat /\ NLeaf \in Nat /\ NLeaf < size
  BY LeafAssumption DEF TypeOK
<1>2. 0 .. NLeaf \subseteq 0 .. size - 1 /\ 0 \in 0 .. size - 1 /\ size \notin 0 .. size - 1
  BY <1>1
<1>3. ASSUME NEW a \in Labels PROVE Labels \cup 0 .. a = Labels
  BY <1>1, UpTo DEF Labels
<1>4. QED
  BY <1>2, <1>3 DEF Labels, LeafLabels, OCEAN

LEMMA NewLabel ==
  ASSUME TypeOK, size' = size + 1
  PROVE  /\ Labels' = 0 .. size
         /\ Labels' = Labels \cup {size}
         /\ Labels \cup 0 .. size = Labels'
         /\ \A a \in Labels' : Labels' \cup 0 .. a = Labels'
<1>1. size \in Nat /\ size' \in Nat /\ size' - 1 = size
  BY DEF TypeOK
<1>2. Labels' = 0 .. size' - 1 /\ Labels' = 0 .. size
  BY <1>1 DEF Labels
<1>3. 0 .. size = 0 .. size - 1 \cup {size} /\ 0 .. size - 1 \cup 0 .. size = 0 .. size
  BY <1>1
<1>4. ASSUME NEW a \in Labels' PROVE Labels' \cup 0 .. a = Labels'
  BY <1>1, <1>2, UpTo
<1>5. QED
  BY <1>2, <1>3, <1>4 DEF Labels

LEMMA RepAfterLink ==
  ASSUME TypeOK, NEW o, NEW a \in LeafLabels, NEW b \in LeafLabels, LinkToOcean(o, a, b)
  PROVE  /\ rep' = [i \in Labels |-> IF rep[i] = rep[a] THEN OCEAN ELSE rep[i]]
         /\ a \in Labels /\ b \in Labels /\ OCEAN \in Labels
         /\ rep[a] \in Labels
<1>1. a \in Labels /\ b \in Labels /\ OCEAN \in Labels
  BY LabelFacts
<1>2. rep \in [Labels -> Labels] /\ rep[a] \in Labels
  BY <1>1 DEF TypeOK
<1>3. Labels \cup 0 .. rep[a] = Labels /\ Labels \cup 0 .. OCEAN = Labels
  BY <1>1, <1>2, LabelFacts
<1>4. MergeInto(rep, rep[a], OCEAN) = [i \in Labels |-> IF rep[i] = rep[a] THEN OCEAN ELSE rep[i]]
  BY <1>2, <1>3, MergeIntoKnown
<1>5. QED
  BY <1>1, <1>2, <1>4 DEF LinkToOcean

LEMMA RepAfterMerge ==
  ASSUME TypeOK, NEW o \in Outlet, Merge(o)
  PROVE  /\ rep' \in [Labels' -> Labels'] /\ rep'[size] = size
         /\ \A i \in Labels :
              rep'[i] = IF rep[i] = rep[o.depa] \/ rep[i] = rep[o.depb] THEN size ELSE rep[i]
         /\ o.depa \in Labels /\ o.depb \in Labels
         /\ rep[o.depa] \in Labels /\ rep[o.depb] \in Labels
<1> DEFINE a == rep[o.depa]
           b == rep[o.depb]
<1>1. o.depa \in LeafLabels /\ o.depb \in LeafLabels
  BY DEF Outlet
<1>2. o.depa \in Labels /\ o.depb \in Labels
  BY <1>1, LabelFacts
<1>3. rep \in [Labels -> Labels] /\ a \in Labels /\ b \in Labels
  BY <1>2 DEF TypeOK
<1>4. rep' = MergeInto(MergeInto(rep, a, size), b, size) /\ size' = size + 1
  BY DEF Merge
<1>5. /\ size \notin Labels /\ Labels' = Labels \cup {size}
      /\ Labels \cup 0 .. a = Labels
      /\ Labels \cup 0 .. size = Labels'
      /\ Labels' \cup 0 .. b = Labels'
      /\ Labels' \cup 0 .. size = Labels'
  BY <1>3, <1>4, LabelFacts, NewLabel
<1> DEFINE r1 == [i \in Labels' |-> IF i = size THEN size ELSE IF rep[i] = a THEN size ELSE rep[i]]
<1>6. MergeInto(rep, a, size) = r1
  <2>1. Grow(rep, a) = rep
    BY <1>3, <1>5, GrowKnown
  <2>2. Grow(rep, size) = [i \in Labels' |-> IF i \in Labels THEN rep[i] ELSE i]
    BY <1>3, <1>5 DEF Grow
  <2>3. MergeInto(rep, a, size) =
          [i \in Labels' |-> IF (IF i \in Labels THEN rep[i] ELSE i) = a THEN size
                             ELSE IF i \in Labels THEN rep[i] ELSE i]
    BY <2>1, <2>2 DEF MergeInto
  <2>4. ASSUME NEW i \in Labels'
        PROVE  (IF (IF i \in Labels THEN rep[i] ELSE i) = a THEN size
                ELSE IF i \in Labels THEN rep[i] ELSE i)
                 = (IF i = size THEN size ELSE IF rep[i] = a THEN size ELSE rep[i])
    BY <1>3, <1>5
  <2>5. QED
    BY <2>3, <2>4
<1>7. r1 \in [Labels' -> Labels']
  BY <1>3, <1>5
<1>8. rep' = [i \in Labels' |-> IF r1[i] = b THEN size ELSE r1[i]]
  <2> HIDE DEF r1
  <2> QED
    BY <1>4, <1>5, <1>6, <1>7, MergeIntoKnown
<1>9. QED
  BY <1>2, <1>3, <1>5, <1>8

\* What an outlet is.
LEMMA OutletFacts ==
  ASSUME NEW o \in Outlet
  PROVE  /\ o.depa \in LeafLabels /\ o.depb \in LeafLabels /\ o.depa < o.depb
         /\ o.out_cell \in Cells /\ o.out_elev \in Int
<1>1. /\ o.depa \in LeafLabels /\ o.depb \in LeafLabels /\ o.depa < o.depb
      /\ o.out_cell \in Cells /\ o.out_elev = Dem[o.out_cell]
  BY DEF Outlet
<1>2. Dem \in [Cells -> Int]
  BY CellAssumption
<1>3. QED
  BY <1>1, <1>2

LEMMA TypeInit == Init => TypeOK
<1> SUFFICES ASSUME Init PROVE TypeOK
  OBVIOUS
<1>1. size \in Nat /\ NLeaf < size /\ Labels = LeafLabels
  BY LeafAssumption DEF Init, Labels, LeafLabels
<1>2. INF \in Int /\ -INF \in Int
  BY SentinelAssumption
<1>3. NewDepression \in Depression
  BY <1>2 DEF NewDepression, Depression, LabelOrNone
<1>4. OceanDepression \in Depression
  BY <1>2, <1>3 DEF OceanDepression, Depression
<1>5. ASSUME NEW l \in Leaves PROVE LeafDepression(l) \in Depression
  <2>1. Pit[l] \in Cells /\ Dem[Pit[l]] \in Int
    BY CellAssumption
  <2>2. QED
    BY <1>3, <2>1 DEF LeafDepression, Depression
<1>6. deps \in [Labels -> Depression]
  <2>1. \A l \in LeafLabels : l = OCEAN \/ l \in Leaves
    BY LeafAssumption DEF LeafLabels, Leaves, OCEAN
  <2>2. QED
    BY <1>1, <1>4, <1>5, <2>1 DEF Init, LeafVector
<1>7. rep \in [Labels -> Labels]
  <2>1. rep = [i \in LeafLabels |-> i]
    BY DEF Init, Singletons
  <2>2. QED
    BY <1>1, <2>1
<1>8. outlets \subseteq Outlet /\ todo \subseteq outlets
  BY OutletAssumption DEF Init
<1>9. QED
  BY <1>1, <1>6, <1>7, <1>8 DEF TypeOK

LEMMA TypeNext == TypeOK /\ [Next]_vars => TypeOK'
<1> SUFFICES ASSUME TypeOK, [Next]_vars PROVE TypeOK'
  OBVIOUS
<1>1. ASSUME NEW o \in Lowest, Skip(o) PROVE TypeOK'
  BY <1>1 DEF Skip, TypeOK, Labels, Depression, LabelOrNone
<1>2. ASSUME NEW o \in Outlet, NEW a \in LeafLabels, NEW b \in LeafLabels, LinkToOcean(o, a, b)
      PROVE TypeOK'
  <2>1. /\ rep' = [i \in Labels |-> IF rep[i] = rep[a] THEN OCEAN ELSE rep[i]]
        /\ rep[a] \in Labels /\ a \in Labels /\ b \in Labels /\ OCEAN \in Labels
    BY <1>2, RepAfterLink
  <2>2. rep' \in [Labels -> Labels]
    BY <2>1 DEF TypeOK
  <2>3. o.out_cell \in Cells /\ o.out_elev \in Int
    BY OutletFacts
  <2>4. deps' \in [Labels -> Depression]
    <3> DEFINE d == deps[rep[a]]
               linked == [d EXCEPT !.parent = b, !.odep = NO_VALUE, !.geolink = b,
                                   !.out_cell = o.out_cell, !.out_elev = o.out_elev,
                                   !.ocean_parent = TRUE]
               d1 == [deps EXCEPT ![rep[a]] = linked]
               listed == [d1[b] EXCEPT !.ocean_linked = d1[b].ocean_linked \cup {rep[a]}]
    <3>1. d \in Depression
      BY <2>1 DEF TypeOK
    <3>2. linked \in Depression
      <4> HIDE DEF d
      <4> QED
        BY <2>1, <2>3, <3>1 DEF Depression, LabelOrNone
    <3>3. d1 \in [Labels -> Depression]
      <4> HIDE DEF linked
      <4> QED
        BY <2>1, <3>2 DEF TypeOK
    <3>4. listed \in Depression
      <4> HIDE DEF d1
      <4>1. d1[b] \in Depression
        BY <2>1, <3>3
      <4>2. QED
        BY <2>1, <4>1 DEF Depression
    <3>5. deps' = [d1 EXCEPT ![b] = listed]
      BY <1>2 DEF LinkToOcean
    <3>6. QED
      <4> HIDE DEF d1, listed
      <4> QED
        BY <2>1, <3>3, <3>4, <3>5
  <2>5. size' = size /\ Labels' = Labels /\ Depression' = Depression
    BY <1>2 DEF LinkToOcean, Labels, Depression, LabelOrNone
  <2>6. QED
    BY <1>2, <2>2, <2>4, <2>5 DEF LinkToOcean, TypeOK
<1>3. ASSUME NEW o \in Outlet, Merge(o) PROVE TypeOK'
  <2>1. /\ rep' \in [Labels' -> Labels']
        /\ rep[o.depa] \in Labels /\ rep[o.depb] \in Labels
        /\ o.depa \in Labels /\ o.depb \in Labels
    BY <1>3, RepAfterMerge
  <2>2. /\ size' = size + 1 /\ Labels' = 0 .. size
        /\ Labels' = Labels \cup {size} /\ size \notin Labels
    BY <1>3, NewLabel, LabelFacts DEF Merge
  <2>4. o.out_cell \in Cells /\ o.out_elev \in Int
    BY OutletFacts
  <2>5. ASSUME NEW d \in Depression PROVE d \in Depression'
    BY <2>2 DEF Depression, LabelOrNone
  <2>6. ASSUME NEW d \in Depression, NEW s \in Labels, NEW x \in Labels
        PROVE Spilled(d, o, s, x) \in Depression'
    BY <2>2, <2>4, <2>5 DEF Spilled, Depression, LabelOrNone
  <2>7. [NewDepression EXCEPT !.lchild = rep[o.depa], !.rchild = rep[o.depb],
                              !.pit_cell = deps[rep[o.depa]].pit_cell] \in Depression'
    <3>1. deps[rep[o.depa]].pit_cell \in Cells \cup {NO_VALUE}
      BY <2>1 DEF TypeOK, Depression
    <3>2. INF \in Int
      BY SentinelAssumption
    <3>3. QED
      BY <2>1, <2>2, <3>1, <3>2 DEF NewDepression, Depression, LabelOrNone
  <2>8. deps' \in [Labels' -> Depression']
    <3>1. \A l \in Labels : deps[l] \in Depression
      BY DEF TypeOK
    <3>2. \A l \in Labels' : l # size => l \in Labels
      BY <2>2
    <3>3. QED
      BY <1>3, <2>1, <2>2, <2>5, <2>6, <2>7, <3>1, <3>2 DEF Merge
  <2>9. size' \in Nat /\ NLeaf < size'
    BY <2>2, LeafAssumption DEF TypeOK
  <2>10. QED
    BY <1>3, <2>1, <2>8, <2>9 DEF Merge, TypeOK
<1>4. CASE UNCHANGED vars
  BY <1>4 DEF vars, TypeOK, Labels, Depression, LabelOrNone
<1>5. ASSUME NEW o \in Lowest, Visit(o) PROVE TypeOK'
  <2>1. o \in Outlet
    BY DEF Lowest, TypeOK
  <2>2. o.depa \in LeafLabels /\ o.depb \in LeafLabels
    BY <2>1, OutletFacts
  <2>3. QED
    BY <1>1, <1>2, <1>3, <1>5, <2>1, <2>2 DEF Visit
<1>6. QED
  BY <1>4, <1>5 DEF Next

\* The depressions and the union-find range over the labels below size.
THEOREM TypeCorrect == Spec => []TypeOK
BY TypeInit, TypeNext, PTL DEF Spec

-----------------------------------------------------------------------------
(***************************************************************************)
(* Why no outlet is ever recorded over another.  RepresentativesAreOpen is *)
(* not inductive: the two branches write to rep[a], and only a union-find  *)
(* whose representatives represent themselves makes that label one of the  *)
(* open ones.  The ocean must represent itself, or a link would close it.  *)
(***************************************************************************)
OpenInv ==
  /\ TypeOK
  /\ IsPartition(rep)
  /\ rep[OCEAN] = OCEAN
  /\ RepresentativesAreOpen

LEMMA OpenInit == Init => OpenInv
<1> SUFFICES ASSUME Init PROVE OpenInv
  OBVIOUS
<1>1. TypeOK
  BY TypeInit
<1>2. Labels = LeafLabels
  BY LeafAssumption DEF Init, Labels, LeafLabels
<1>3. rep = [i \in LeafLabels |-> i]
  BY DEF Init, Singletons
<1>4. IsPartition(rep) /\ rep[OCEAN] = OCEAN
  BY <1>1, <1>2, <1>3, LabelFacts DEF IsPartition
<1>5. ASSUME NEW l \in Labels
      PROVE  /\ deps[l].out_cell = NO_VALUE /\ deps[l].odep = NO_VALUE
             /\ deps[l].parent = NO_VALUE /\ deps[l].out_elev = INF
  BY <1>2 DEF Init, LeafVector, OceanDepression, LeafDepression, NewDepression
<1>6. QED
  BY <1>1, <1>4, <1>5 DEF OpenInv, RepresentativesAreOpen

LEMMA OpenNext == OpenInv /\ [Next]_vars => OpenInv'
<1> SUFFICES ASSUME OpenInv, [Next]_vars PROVE OpenInv'
  OBVIOUS
<1> USE DEF OpenInv
<1>1. TypeOK'
  BY TypeNext
<1>2. ASSUME NEW o \in Lowest, Skip(o) PROVE OpenInv'
  BY <1>1, <1>2 DEF Skip, RepresentativesAreOpen, Labels, OCEAN
<1>3. ASSUME NEW o \in Outlet, NEW a \in LeafLabels, NEW b \in LeafLabels, LinkToOcean(o, a, b)
      PROVE OpenInv'
  <2>1. /\ rep' = [i \in Labels |-> IF rep[i] = rep[a] THEN OCEAN ELSE rep[i]]
        /\ rep[a] \in Labels /\ a \in Labels /\ b \in Labels /\ OCEAN \in Labels
    BY <1>3, RepAfterLink
  <2>2. rep[a] # OCEAN /\ Labels' = Labels
    BY <1>3 DEF LinkToOcean, Labels
  <2>3. IsPartition(rep) /\ DOMAIN rep = Labels /\ rep[rep[a]] = rep[a]
    BY <2>1 DEF IsPartition, TypeOK
  <2>4. IsPartition(rep') /\ rep'[OCEAN] = OCEAN
    BY <2>1, <2>2, <2>3 DEF IsPartition
  <2>5. ASSUME NEW l \in Labels, l # rep[a]
        PROVE  /\ deps'[l].out_cell = deps[l].out_cell /\ deps'[l].odep = deps[l].odep
               /\ deps'[l].parent = deps[l].parent /\ deps'[l].out_elev = deps[l].out_elev
    BY <1>3, <2>1, <2>5 DEF LinkToOcean, TypeOK
  <2>6. ASSUME NEW l \in Labels, rep'[l] = l PROVE l # rep[a] /\ rep[l] = l
    BY <2>1, <2>2, <2>3, <2>6
  <2>7. RepresentativesAreOpen'
    BY <2>2, <2>5, <2>6 DEF RepresentativesAreOpen
  <2>8. QED
    BY <1>1, <2>4, <2>7 DEF OCEAN
<1>4. ASSUME NEW o \in Outlet, Merge(o) PROVE OpenInv'
  <2>1. /\ rep' \in [Labels' -> Labels'] /\ rep'[size] = size
        /\ \A i \in Labels :
             rep'[i] = IF rep[i] = rep[o.depa] \/ rep[i] = rep[o.depb] THEN size ELSE rep[i]
        /\ rep[o.depa] \in Labels /\ rep[o.depb] \in Labels
        /\ o.depa \in Labels /\ o.depb \in Labels
    BY <1>4, RepAfterMerge
  <2>2. /\ size' = size + 1 /\ Labels' = 0 .. size
        /\ Labels' = Labels \cup {size} /\ size \notin Labels /\ OCEAN \in Labels
    BY <1>4, NewLabel, LabelFacts DEF Merge
  <2>3. DOMAIN rep = Labels /\ DOMAIN rep' = Labels'
    BY <2>1 DEF TypeOK
  <2>4. rep[o.depa] # OCEAN /\ rep[o.depb] # OCEAN
    BY <1>4 DEF Merge
  <2>5. IsPartition(rep')
    <3>1. ASSUME NEW i \in Labels PROVE rep'[rep'[i]] = rep'[i]
      <4>1. rep[i] \in Labels /\ rep[rep[i]] = rep[i]
        BY <2>3 DEF IsPartition
      <4>2. QED
        BY <2>1, <4>1
    <3>2. QED
      BY <2>1, <2>2, <2>3, <3>1 DEF IsPartition
  <2>6. rep'[OCEAN] = OCEAN
    BY <2>1, <2>2, <2>4
  <2>7. ASSUME NEW l \in Labels, rep'[l] = l
        PROVE  l # rep[o.depa] /\ l # rep[o.depb] /\ rep[l] = l
    BY <2>1, <2>2, <2>3, <2>7 DEF IsPartition
  <2>8. ASSUME NEW l \in Labels, l # rep[o.depa], l # rep[o.depb] PROVE deps'[l] = deps[l]
    BY <1>4, <2>2, <2>8 DEF Merge
  <2>9. /\ deps'[size].out_cell = NO_VALUE /\ deps'[size].odep = NO_VALUE
        /\ deps'[size].parent = NO_VALUE /\ deps'[size].out_elev = INF
    BY <1>4, <2>2 DEF Merge, NewDepression
  <2>10. RepresentativesAreOpen'
    BY <2>2, <2>7, <2>8, <2>9 DEF RepresentativesAreOpen
  <2>11. QED
    BY <1>1, <2>5, <2>6, <2>10 DEF OCEAN
<1>5. CASE UNCHANGED vars
  BY <1>1, <1>5 DEF vars, RepresentativesAreOpen, Labels, OCEAN
<1>6. ASSUME NEW o \in Lowest, Visit(o) PROVE OpenInv'
  <2>1. o \in Outlet
    BY DEF Lowest, TypeOK
  <2>2. o.depa \in LeafLabels /\ o.depb \in LeafLabels
    BY <2>1, OutletFacts
  <2>3. QED
    BY <1>2, <1>3, <1>4, <1>6, <2>1, <2>2 DEF Visit
<1>7. QED
  BY <1>5, <1>6 DEF Next

\* The asserts of both branches of the sweep hold: what represents a set has
\* neither an outlet nor a parent yet.
THEOREM OnlyRepresentativesAreOpen == Spec => []RepresentativesAreOpen
<1>1. OpenInv => RepresentativesAreOpen
  BY DEF OpenInv
<1>2. QED
  BY <1>1, OpenInit, OpenNext, PTL DEF Spec

\* What a step of the sweep may write to: a label without a parent, but for
\* the list of the depressions linked to the ocean.
LEMMA StepKeepsSpills ==
  ASSUME OpenInv, Next, NEW l \in Labels, deps[l].parent # NO_VALUE
  PROVE  /\ deps[l].ocean_linked \subseteq deps'[l].ocean_linked
         /\ deps'[l] = [deps[l] EXCEPT !.ocean_linked = deps'[l].ocean_linked]
<1> USE DEF OpenInv
<1>1. rep[l] # l
  BY DEF RepresentativesAreOpen
<1>2. deps \in [Labels -> Depression] /\ DOMAIN rep = Labels
  BY DEF TypeOK
<1>3. PICK o \in Lowest : Visit(o)
  BY DEF Next
<1>4. o \in Outlet /\ o.depa \in LeafLabels /\ o.depb \in LeafLabels
  BY OutletFacts DEF Lowest, TypeOK
<1>5. CASE Skip(o)
  BY <1>2, <1>5 DEF Skip, Depression
<1>6. ASSUME NEW a \in LeafLabels, NEW b \in LeafLabels, LinkToOcean(o, a, b)
      PROVE  /\ deps[l].ocean_linked \subseteq deps'[l].ocean_linked
             /\ deps'[l] = [deps[l] EXCEPT !.ocean_linked = deps'[l].ocean_linked]
  <2>1. rep[a] \in Labels /\ a \in Labels /\ b \in Labels
    BY <1>6, RepAfterLink
  <2>2. l # rep[a]
    BY <1>1, <1>2, <2>1 DEF IsPartition
  <2>3. deps'[l] = IF l = b THEN [deps[l] EXCEPT !.ocean_linked = deps[l].ocean_linked \cup {rep[a]}]
                   ELSE deps[l]
    BY <1>2, <1>6, <2>1, <2>2 DEF LinkToOcean
  <2>4. deps[l] \in Depression
    BY <1>2
  <2>5. QED
    BY <2>3, <2>4 DEF Depression
<1>7. CASE Merge(o)
  <2>1. rep[o.depa] \in Labels /\ rep[o.depb] \in Labels /\ o.depa \in Labels /\ o.depb \in Labels
    BY <1>4, <1>7, RepAfterMerge
  <2>2. l # rep[o.depa] /\ l # rep[o.depb] /\ l # size
    BY <1>1, <1>2, <2>1, LabelFacts DEF IsPartition
  <2>3. Labels' = 0 .. size /\ Labels' = Labels \cup {size}
    BY <1>7, NewLabel DEF Merge
  <2>4. deps'[l] = deps[l]
    BY <1>7, <2>2, <2>3 DEF Merge
  <2>5. QED
    BY <1>2, <2>4 DEF Depression
<1>8. QED
  BY <1>3, <1>4, <1>5, <1>6, <1>7 DEF Visit

\* Once it is known where a depression spills, that is final.
THEOREM SpillsAreFinal == Spec => SpillIsFinal
<1> DEFINE Final == \A l \in Labels : deps[l].parent # NO_VALUE =>
                      /\ deps[l].ocean_linked \subseteq deps'[l].ocean_linked
                      /\ deps'[l] = [deps[l] EXCEPT !.ocean_linked = deps'[l].ocean_linked]
<1>1. OpenInv /\ [Next]_vars => [Final]_vars
  BY StepKeepsSpills
<1>2. QED
  BY <1>1, OpenInit, OpenNext, PTL DEF Spec, SpillIsFinal

-----------------------------------------------------------------------------
\* The pit cells of the two ends can be compared, the ocean's included.
LEMMA PitIsNat ==
  ASSUME NEW l \in LeafLabels
  PROVE  PitOf(l) \in Nat
<1>1. l = OCEAN \/ l \in Leaves
  BY LeafAssumption DEF LeafLabels, Leaves, OCEAN
<1>2. QED
  BY <1>1, CellAssumption, SentinelAssumption DEF PitOf

\* Two outlets the comparison does not order have the same two pits.
LEMMA SamePits ==
  ASSUME NEW o \in Outlet, NEW p \in Outlet, ~ Before(o, p), ~ Before(p, o)
  PROVE  /\ o.out_cell = p.out_cell
         /\ LowPit(o) = LowPit(p)
         /\ HighPit(o) = HighPit(p)
<1>1. /\ o.out_elev \in Int /\ p.out_elev \in Int
      /\ o.out_cell \in Nat /\ p.out_cell \in Nat
  BY OutletFacts, CellAssumption
<1>2. /\ LowPit(o) \in Nat /\ LowPit(p) \in Nat
      /\ HighPit(o) \in Nat /\ HighPit(p) \in Nat
  BY PitIsNat, OutletFacts DEF LowPit, HighPit
<1>3. QED
  BY <1>1, <1>2 DEF Before

\* The comparison of std::sort orders any two outlets, because no two leaves
\* share a pit and no pit is NO_VALUE.
LEMMA OrderIsTotal == TypeOK => SweepOrderIsTotal
<1>1. \A l \in LeafLabels : PitOf(l) \in Nat
  BY PitIsNat
<1>2. ASSUME NEW l \in LeafLabels, NEW m \in LeafLabels, PitOf(l) = PitOf(m) PROVE l = m
  <2>1. (l = OCEAN \/ l \in Leaves) /\ (m = OCEAN \/ m \in Leaves)
    BY LeafAssumption DEF LeafLabels, Leaves, OCEAN
  <2>2. \A k \in Leaves : k # OCEAN /\ Pit[k] \in Cells
    BY CellAssumption DEF Leaves, OCEAN
  <2>3. \A k \in Leaves : Pit[k] # NO_VALUE
    <3>1. \A c \in Cells : c # NO_VALUE
      BY CellAssumption, SentinelAssumption
    <3>2. QED
      BY <2>2, <3>1
  <2>4. QED
    BY <1>2, <2>1, <2>2, <2>3, CellAssumption DEF PitOf
<1>3. ASSUME NEW o \in Outlet, NEW p \in Outlet, ~ Before(o, p), ~ Before(p, o) PROVE o = p
  <2>1. o.out_cell = p.out_cell /\ LowPit(o) = LowPit(p) /\ HighPit(o) = HighPit(p)
    BY <1>3, SamePits
  <2>2. /\ o.depa \in LeafLabels /\ o.depb \in LeafLabels
        /\ p.depa \in LeafLabels /\ p.depb \in LeafLabels
    BY OutletFacts
  <2>3. /\ PitOf(o.depa) \in Nat /\ PitOf(o.depb) \in Nat
        /\ PitOf(p.depa) \in Nat /\ PitOf(p.depb) \in Nat
    BY <1>1, <2>2
  <2>4. \/ PitOf(o.depa) = PitOf(p.depa) /\ PitOf(o.depb) = PitOf(p.depb)
        \/ PitOf(o.depa) = PitOf(p.depb) /\ PitOf(o.depb) = PitOf(p.depa)
    <3>1. ASSUME NEW w \in Nat, NEW x \in Nat, NEW y \in Nat, NEW z \in Nat,
                 (IF x < w THEN x ELSE w) = (IF z < y THEN z ELSE y),
                 (IF x < w THEN w ELSE x) = (IF z < y THEN y ELSE z)
          PROVE  (w = y /\ x = z) \/ (w = z /\ x = y)
      BY <3>1
    <3>2. QED
      BY <2>1, <2>3, <3>1 DEF LowPit, HighPit
  <2>5. (o.depa = p.depa /\ o.depb = p.depb) \/ (o.depa = p.depb /\ o.depb = p.depa)
    BY <1>2, <2>2, <2>4
  <2>6. o.depa < o.depb /\ p.depa < p.depb
    BY OutletFacts
  <2>7. o.depa = p.depa /\ o.depb = p.depb
    <3>1. o.depa \in Nat /\ o.depb \in Nat
      BY <2>2 DEF LeafLabels
    <3>2. ~ (o.depa < o.depb /\ o.depb < o.depa)
      BY <3>1
    <3>3. QED
      BY <2>5, <2>6, <3>2
  <2>8. o.out_elev = p.out_elev
    BY <2>1 DEF Outlet
  <2>9. QED
    BY <2>1, <2>7, <2>8 DEF Outlet
<1>4. QED
  BY <1>3 DEF TypeOK, SweepOrderIsTotal

\* The order of the sweep does not depend on the order of discovery.
THEOREM SweepOrder == Spec => []SweepOrderIsTotal
BY OrderIsTotal, TypeCorrect, PTL

-----------------------------------------------------------------------------
(***************************************************************************)
(* Why 2N - 1 depressions are enough.  A merge makes one label and leaves  *)
(* one depression less without a path to the ocean, and nothing else makes *)
(* a label: the number of such depressions and the number of labels do not *)
(* grow together.                                                          *)
(***************************************************************************)
Landlocked == {l \in Labels : rep[l] = l /\ l # OCEAN}

BoundInv ==
  /\ IsFiniteSet(Landlocked)
  /\ Cardinality(Landlocked) + size <= 2 * NLeaf + 1

LEMMA BoundInit == Init => BoundInv
<1> SUFFICES ASSUME Init PROVE BoundInv
  OBVIOUS
<1>1. NLeaf \in Nat /\ size = NLeaf + 1
  BY LeafAssumption DEF Init
<1>2. Labels = LeafLabels
  BY <1>1 DEF Labels, LeafLabels
<1>3. Landlocked = 1 .. NLeaf
  <2>1. \A l \in LeafLabels : rep[l] = l
    BY DEF Init, Singletons
  <2>2. Landlocked = LeafLabels \ {OCEAN}
    BY <1>2, <2>1 DEF Landlocked
  <2>3. 0 .. NLeaf \ {0} = 1 .. NLeaf
    BY <1>1
  <2>4. QED
    BY <2>2, <2>3 DEF LeafLabels, OCEAN
<1>4. IsFiniteSet(1 .. NLeaf) /\ Cardinality(1 .. NLeaf) = NLeaf
  <2>1. 1 \in Int /\ NLeaf \in Int
    BY <1>1
  <2>2. IsFiniteSet(1 .. NLeaf) /\ Cardinality(1 .. NLeaf) = IF 1 > NLeaf THEN 0 ELSE NLeaf - 1 + 1
    BY <2>1, FS_Interval
  <2>3. (IF 1 > NLeaf THEN 0 ELSE NLeaf - 1 + 1) = NLeaf
    BY <1>1
  <2>4. QED
    BY <2>2, <2>3
<1>5. QED
  BY <1>1, <1>3, <1>4 DEF BoundInv

LEMMA BoundNext == OpenInv /\ BoundInv /\ [Next]_vars => BoundInv'
<1> SUFFICES ASSUME OpenInv, BoundInv, [Next]_vars PROVE BoundInv'
  OBVIOUS
<1> USE DEF OpenInv, BoundInv
<1>1. /\ NLeaf \in Nat /\ size \in Nat
      /\ IsFiniteSet(Landlocked) /\ Cardinality(Landlocked) \in Nat
  BY LeafAssumption, FS_CardinalityType DEF TypeOK
<1>2. ASSUME Landlocked' = Landlocked, size' = size PROVE BoundInv'
  BY <1>2
<1>3. ASSUME NEW o \in Lowest, Skip(o) PROVE BoundInv'
  BY <1>2, <1>3 DEF Skip, Landlocked, Labels, OCEAN
<1>4. ASSUME NEW o \in Outlet, NEW a \in LeafLabels, NEW b \in LeafLabels, LinkToOcean(o, a, b)
      PROVE BoundInv'
  <2>1. /\ rep' = [i \in Labels |-> IF rep[i] = rep[a] THEN OCEAN ELSE rep[i]]
        /\ rep[a] \in Labels /\ a \in Labels /\ b \in Labels /\ OCEAN \in Labels
    BY <1>4, RepAfterLink
  <2>2. rep[a] # OCEAN /\ Labels' = Labels /\ size' = size /\ OCEAN' = OCEAN
    BY <1>4 DEF LinkToOcean, Labels, OCEAN
  <2>3. rep[rep[a]] = rep[a]
    BY <2>1 DEF IsPartition, TypeOK
  <2>4. Landlocked' = Landlocked \ {rep[a]} /\ rep[a] \in Landlocked
    BY <2>1, <2>2, <2>3 DEF Landlocked
  <2>5. IsFiniteSet(Landlocked') /\ Cardinality(Landlocked') = Cardinality(Landlocked) - 1
    BY <1>1, <2>4, FS_RemoveElement
  <2>6. QED
    BY <1>1, <2>2, <2>5
<1>5. ASSUME NEW o \in Outlet, Merge(o) PROVE BoundInv'
  <2> DEFINE a == rep[o.depa]
             b == rep[o.depb]
  <2>1. /\ rep' \in [Labels' -> Labels'] /\ rep'[size] = size
        /\ \A i \in Labels : rep'[i] = IF rep[i] = a \/ rep[i] = b THEN size ELSE rep[i]
        /\ a \in Labels /\ b \in Labels
    BY <1>5, RepAfterMerge
  <2>2. /\ size' = size + 1 /\ Labels' = Labels \cup {size} /\ size \notin Labels
        /\ OCEAN \in Labels /\ OCEAN' = OCEAN
    BY <1>5, NewLabel, LabelFacts DEF Merge, OCEAN
  <2>3. a # b /\ a # OCEAN /\ b # OCEAN
    BY <1>5 DEF Merge
  <2>4. rep[a] = a /\ rep[b] = b
    <3>1. o.depa \in DOMAIN rep /\ o.depb \in DOMAIN rep
      BY <1>5, RepAfterMerge DEF TypeOK
    <3>2. QED
      BY <3>1 DEF IsPartition
  <2> HIDE DEF a, b
  <2>5. Landlocked' = ((Landlocked \ {a}) \ {b}) \cup {size}
    <3>1. ASSUME NEW l \in Labels
          PROVE  (rep'[l] = l /\ l # OCEAN) <=> (rep[l] = l /\ l # OCEAN /\ l # a /\ l # b)
      BY <2>1, <2>2, <2>4
    <3>2. rep'[size] = size /\ size # OCEAN
      BY <2>1, <2>2
    <3>3. QED
      BY <2>2, <3>1, <3>2 DEF Landlocked
  <2>6. a \in Landlocked /\ b \in Landlocked \ {a} /\ size \notin (Landlocked \ {a}) \ {b}
    BY <2>1, <2>2, <2>3, <2>4 DEF Landlocked
  <2>7. IsFiniteSet(Landlocked \ {a}) /\ Cardinality(Landlocked \ {a}) = Cardinality(Landlocked) - 1
    BY <1>1, <2>6, FS_RemoveElement
  <2> DEFINE L1 == Landlocked \ {a}
             L2 == L1 \ {b}
  <2>8. IsFiniteSet(L2) /\ Cardinality(L2) = Cardinality(L1) - 1
    <3>1. b \in L1 /\ IsFiniteSet(L1)
      BY <2>6, <2>7
    <3> HIDE DEF L1
    <3>2. QED
      BY <3>1, FS_RemoveElement
  <2>9. IsFiniteSet(Landlocked') /\ Cardinality(Landlocked') = Cardinality(L2) + 1
    <3>1. Landlocked' = L2 \cup {size} /\ size \notin L2
      BY <2>5, <2>6
    <3> HIDE DEF L2
    <3>2. QED
      BY <2>8, <3>1, FS_AddElement
  <2>10. QED
    BY <1>1, <2>2, <2>7, <2>8, <2>9
<1>6. CASE UNCHANGED vars
  BY <1>2, <1>6 DEF vars, Landlocked, Labels, OCEAN
<1>7. ASSUME NEW o \in Lowest, Visit(o) PROVE BoundInv'
  <2>1. o \in Outlet
    BY DEF Lowest, TypeOK
  <2>2. o.depa \in LeafLabels /\ o.depb \in LeafLabels
    BY <2>1, OutletFacts
  <2>3. QED
    BY <1>3, <1>4, <1>5, <1>7, <2>1, <2>2 DEF Visit
<1>8. QED
  BY <1>6, <1>7 DEF Next

LEMMA BoundFacts ==
  ASSUME OpenInv, BoundInv
  PROVE  LabelsAreBounded /\ NO_VALUE \notin Labels
<1>1. /\ NLeaf \in Nat /\ size \in Nat /\ Cardinality(Landlocked) \in Nat
      /\ Cardinality(Landlocked) + size <= 2 * NLeaf + 1
      /\ NO_VALUE \in Nat /\ NO_VALUE > 2 * NLeaf
  BY LeafAssumption, SentinelAssumption, FS_CardinalityType DEF OpenInv, TypeOK, BoundInv
<1>2. size <= 2 * NLeaf + 1
  BY <1>1
<1>3. NO_VALUE \notin 0 .. size - 1
  BY <1>1, <1>2
<1>4. QED
  BY <1>2, <1>3 DEF LabelsAreBounded, Labels

\* The sweep makes at most one meta-depression less than there are leaves, so
\* no label is ever taken for "no label".
THEOREM LabelBound == Spec => []LabelsAreBounded
<1>1. OpenInv /\ BoundInv => LabelsAreBounded
  BY BoundFacts
<1>2. QED
  BY <1>1, OpenInit, OpenNext, BoundInit, BoundNext, PTL DEF Spec

-----------------------------------------------------------------------------
(***************************************************************************)
(* Why the walk up the parents reaches the ocean without rising.  Two      *)
(* facts carry it: whatever does not represent its set has a parent in the *)
(* same set, so every label known to reach the ocean has a parent known to *)
(* reach it; and the sweep goes upwards, so what is recorded is never      *)
(* above what is still to come.                                            *)
(***************************************************************************)
ParentsStayInside ==
  \A l \in Labels : rep[l] # l => deps[l].parent \in Labels /\ rep[deps[l].parent] = rep[l]

RecordedIsLow ==
  \A l \in Labels : rep[l] # l => \A o \in todo : deps[l].out_elev <= o.out_elev

SinkInv ==
  /\ OpenInv
  /\ BoundInv
  /\ ParentsStayInside
  /\ RecordedIsLow

\* The outlet visited next is no higher than the others.
LEMMA LowestIsLow ==
  ASSUME TypeOK, NEW o \in Lowest
  PROVE  o \in Outlet /\ o \in todo /\ \A p \in todo : o.out_elev <= p.out_elev
<1>1. o \in todo /\ todo \subseteq Outlet
  BY DEF Lowest, TypeOK
<1>2. ASSUME NEW p \in todo PROVE o.out_elev <= p.out_elev
  <2>1. ~ (p.out_elev < o.out_elev)
    BY DEF Lowest, Before
  <2>2. o.out_elev \in Int /\ p.out_elev \in Int
    BY <1>1, OutletFacts
  <2>3. QED
    BY <2>1, <2>2
<1>3. QED
  BY <1>1, <1>2

LEMMA SinkInit == Init => SinkInv
<1> SUFFICES ASSUME Init PROVE SinkInv
  OBVIOUS
<1>1. Labels = LeafLabels
  BY LeafAssumption DEF Init, Labels, LeafLabels
<1>2. \A l \in Labels : rep[l] = l
  BY <1>1 DEF Init, Singletons
<1>3. QED
  BY <1>2, OpenInit, BoundInit DEF SinkInv, ParentsStayInside, RecordedIsLow

LEMMA SinkNext == SinkInv /\ [Next]_vars => SinkInv'
<1> SUFFICES ASSUME SinkInv, [Next]_vars PROVE ParentsStayInside' /\ RecordedIsLow'
  BY OpenNext, BoundNext DEF SinkInv
<1> USE DEF SinkInv
<1>1. ASSUME UNCHANGED <<size, deps, rep>>, todo' \subseteq todo PROVE ParentsStayInside' /\ RecordedIsLow'
  BY <1>1 DEF ParentsStayInside, RecordedIsLow, Labels
<1>2. ASSUME NEW o \in Lowest, Skip(o) PROVE ParentsStayInside' /\ RecordedIsLow'
  BY <1>1, <1>2 DEF Skip
<1>3. ASSUME NEW o \in Lowest, NEW a \in LeafLabels, NEW b \in LeafLabels, LinkToOcean(o, a, b)
      PROVE ParentsStayInside' /\ RecordedIsLow'
  <2>1. /\ rep' = [i \in Labels |-> IF rep[i] = rep[a] THEN OCEAN ELSE rep[i]]
        /\ rep[a] \in Labels /\ a \in Labels /\ b \in Labels /\ OCEAN \in Labels
    BY <1>3, RepAfterLink DEF OpenInv
  <2>2. rep[a] # OCEAN /\ rep[b] = OCEAN /\ Labels' = Labels /\ todo' \subseteq todo
    BY <1>3 DEF LinkToOcean, Labels
  <2>3. deps \in [Labels -> Depression] /\ rep \in [Labels -> Labels]
    BY DEF OpenInv, TypeOK
  <2>4. rep[rep[a]] = rep[a]
    BY <2>1, <2>3 DEF OpenInv, IsPartition
  <2>5. ASSUME NEW l \in Labels, l # rep[a]
        PROVE  deps'[l].parent = deps[l].parent /\ deps'[l].out_elev = deps[l].out_elev
    BY <1>3, <2>1, <2>3, <2>5 DEF LinkToOcean
  <2>6. deps'[rep[a]].parent = b /\ deps'[rep[a]].out_elev = o.out_elev
    <3>1. deps[rep[a]] \in Depression
      BY <2>1, <2>3
    <3>2. QED
      BY <1>3, <2>1, <2>3, <3>1 DEF LinkToOcean, Depression
  <2>7. ASSUME NEW l \in Labels, rep'[l] # l, l # rep[a] PROVE rep[l] # l
    BY <2>1, <2>7
  <2>8. ASSUME NEW l \in Labels, rep'[l] # l
        PROVE  deps'[l].parent \in Labels /\ rep'[deps'[l].parent] = rep'[l]
    <3>1. CASE l = rep[a]
      BY <2>1, <2>2, <2>4, <2>6, <3>1
    <3>2. CASE l # rep[a]
      <4>1. deps'[l].parent \in Labels /\ rep[deps'[l].parent] = rep[l]
        BY <2>5, <2>7, <2>8, <3>2 DEF ParentsStayInside
      <4>2. QED
        BY <2>1, <4>1
    <3>3. QED
      BY <3>1, <3>2
  <2>9. ASSUME NEW l \in Labels, rep'[l] # l, NEW p \in todo PROVE deps'[l].out_elev <= p.out_elev
    <3>1. CASE l = rep[a]
      BY <2>6, <3>1, LowestIsLow DEF OpenInv
    <3>2. CASE l # rep[a]
      BY <2>5, <2>7, <2>9, <3>2 DEF RecordedIsLow
    <3>3. QED
      BY <3>1, <3>2
  <2>10. QED
    BY <2>2, <2>8, <2>9 DEF ParentsStayInside, RecordedIsLow
<1>4. ASSUME NEW o \in Lowest, Merge(o) PROVE ParentsStayInside' /\ RecordedIsLow'
  <2> DEFINE a == rep[o.depa]
             b == rep[o.depb]
  <2>1. /\ rep' \in [Labels' -> Labels'] /\ rep'[size] = size
        /\ \A i \in Labels : rep'[i] = IF rep[i] = a \/ rep[i] = b THEN size ELSE rep[i]
        /\ a \in Labels /\ b \in Labels
    BY <1>4, RepAfterMerge, LowestIsLow DEF OpenInv
  <2>2. /\ size' = size + 1 /\ Labels' = 0 .. size
        /\ Labels' = Labels \cup {size} /\ size \notin Labels /\ todo' \subseteq todo
    BY <1>4, NewLabel, LabelFacts DEF Merge, OpenInv
  <2>3. deps \in [Labels -> Depression] /\ rep \in [Labels -> Labels]
    BY DEF OpenInv, TypeOK
  <2>4. rep[a] = a /\ rep[b] = b
    <3>1. o.depa \in DOMAIN rep /\ o.depb \in DOMAIN rep
      BY <1>4, RepAfterMerge, LowestIsLow DEF OpenInv, TypeOK
    <3>2. QED
      BY <3>1 DEF OpenInv, IsPartition
  <2>5. ASSUME NEW l \in Labels, l # a, l # b PROVE deps'[l] = deps[l]
    BY <1>4, <2>2, <2>5 DEF Merge
  <2>6. ASSUME NEW l \in {a, b} PROVE deps'[l].parent = size /\ deps'[l].out_elev = o.out_elev
    <3>1. l \in Labels /\ l \in 0 .. size /\ l # size /\ deps[l] \in Depression
      BY <2>1, <2>2, <2>3
    <3>2. deps'[l] = IF l = a THEN Spilled(deps[a], o, b, o.depb) ELSE Spilled(deps[b], o, a, o.depa)
      BY <1>4, <3>1 DEF Merge
    <3>3. deps[a] \in Depression /\ deps[b] \in Depression
      BY <2>1, <2>3
    <3>4. QED
      BY <3>2, <3>3 DEF Spilled, Depression
  <2> HIDE DEF a, b
  <2>7. ASSUME NEW l \in Labels', rep'[l] # l, l \notin {a, b} PROVE l \in Labels /\ rep[l] # l
    BY <2>1, <2>2, <2>7
  <2>8. ASSUME NEW l \in Labels', rep'[l] # l
        PROVE  deps'[l].parent \in Labels' /\ rep'[deps'[l].parent] = rep'[l]
    <3>1. CASE l \in {a, b}
      BY <2>1, <2>2, <2>4, <2>6, <3>1
    <3>2. CASE l \notin {a, b}
      <4>1. deps'[l].parent \in Labels /\ rep[deps'[l].parent] = rep[l] /\ l \in Labels
        BY <2>5, <2>7, <2>8, <3>2 DEF ParentsStayInside
      <4>2. QED
        BY <2>1, <2>2, <4>1
    <3>3. QED
      BY <3>1, <3>2
  <2>9. ASSUME NEW l \in Labels', rep'[l] # l, NEW p \in todo PROVE deps'[l].out_elev <= p.out_elev
    <3>1. CASE l \in {a, b}
      BY <2>6, <3>1, LowestIsLow DEF OpenInv
    <3>2. CASE l \notin {a, b}
      BY <2>5, <2>7, <2>9, <3>2 DEF RecordedIsLow
    <3>3. QED
      BY <3>1, <3>2
  <2>10. QED
    BY <2>2, <2>8, <2>9 DEF ParentsStayInside, RecordedIsLow
<1>5. CASE UNCHANGED vars
  BY <1>1, <1>5 DEF vars
<1>6. ASSUME NEW o \in Lowest, Visit(o) PROVE ParentsStayInside' /\ RecordedIsLow'
  <2>1. o.depa \in LeafLabels /\ o.depb \in LeafLabels
    BY LowestIsLow, OutletFacts DEF OpenInv
  <2>2. QED
    BY <1>2, <1>3, <1>4, <1>6, <2>1 DEF Visit
<1>7. QED
  BY <1>5, <1>6 DEF Next

\* A label with a parent keeps it, with its elevation, and an open label is
\* linked to the ocean only by a link.
LEMMA SpillKept ==
  ASSUME SinkInv, Next, NEW l \in Labels, deps[l].parent # NO_VALUE
  PROVE  /\ deps'[l].parent = deps[l].parent
         /\ deps'[l].out_elev = deps[l].out_elev
         /\ deps'[l].ocean_parent = deps[l].ocean_parent
<1>1. deps'[l] = [deps[l] EXCEPT !.ocean_linked = deps'[l].ocean_linked] /\ deps[l] \in Depression
  BY StepKeepsSpills DEF SinkInv, OpenInv, TypeOK
<1>2. QED
  BY <1>1 DEF Depression

LEMMA LabelsGrow ==
  ASSUME TypeOK, Next
  PROVE  Labels \subseteq Labels'
<1>1. size' = size \/ size' = size + 1
  BY DEF Next, Visit, Skip, LinkToOcean, Merge
<1>2. QED
  BY <1>1, NewLabel DEF Labels

\* A walk that has reached the ocean stays as it is.
LEMMA WalkKept ==
  ASSUME SinkInv, Next, NEW d \in Labels, SpillsDownToOcean(d)
  PROVE  SpillsDownToOcean(d)' /\ deps[d].parent # NO_VALUE
<1>1. NO_VALUE \notin Labels
  BY BoundFacts DEF SinkInv
<1>2. PICK S \in SUBSET (Labels \ {d}) :
        /\ deps[d].parent \in S
        /\ \A m \in S \ {OCEAN} : deps[m].parent \in S /\ deps[m].out_elev <= deps[d].out_elev
  BY DEF SpillsDownToOcean
<1>3. deps[d].parent # NO_VALUE /\ \A m \in S \ {OCEAN} : m \in Labels /\ deps[m].parent # NO_VALUE
  BY <1>1, <1>2
<1>4. /\ deps'[d].parent \in S
      /\ \A m \in S \ {OCEAN} : deps'[m].parent \in S /\ deps'[m].out_elev <= deps'[d].out_elev
  BY <1>2, <1>3, SpillKept
<1>5. S \in SUBSET (Labels' \ {d})
  BY <1>2, LabelsGrow DEF SinkInv, OpenInv
<1>6. QED
  BY <1>3, <1>4, <1>5 DEF SpillsDownToOcean, OCEAN

\* When a depression is linked, all that is known to reach the ocean lies
\* below its outlet.
LEMMA WalkMade ==
  ASSUME SinkInv, NEW o \in Lowest, NEW a \in LeafLabels, NEW b \in LeafLabels, LinkToOcean(o, a, b),
         NEW d, d = rep[a]
  PROVE  SpillsDownToOcean(d)'
<1> USE DEF SinkInv
<1>1. /\ d \in Labels /\ a \in Labels /\ b \in Labels /\ OCEAN \in Labels
      /\ d # OCEAN /\ rep[b] = OCEAN /\ Labels' = Labels
  BY RepAfterLink DEF OpenInv, LinkToOcean, Labels
<1>2. rep[d] = d /\ deps \in [Labels -> Depression]
  BY <1>1 DEF OpenInv, IsPartition, TypeOK
<1> DEFINE S == {m \in Labels : rep[m] = OCEAN}
<1>3. S \in SUBSET (Labels' \ {d})
  BY <1>1, <1>2
<1>4. deps'[d].parent \in S /\ deps'[d].out_elev = o.out_elev
  <2>1. deps[d] \in Depression
    BY <1>1, <1>2
  <2>2. deps'[d].parent = b /\ deps'[d].out_elev = o.out_elev
    BY <1>1, <1>2, <2>1 DEF LinkToOcean, Depression
  <2>3. QED
    BY <1>1, <2>2
<1>5. ASSUME NEW m \in S \ {OCEAN} PROVE deps'[m].parent \in S /\ deps'[m].out_elev <= o.out_elev
  <2>1. m \in Labels /\ rep[m] # m /\ rep[m] = OCEAN
    BY <1>5
  <2>2. deps[m].parent \in S
    BY <2>1 DEF ParentsStayInside
  <2>3. deps[m].out_elev <= o.out_elev
    BY <2>1, LowestIsLow DEF RecordedIsLow, OpenInv
  <2>4. m # d
    BY <1>1, <1>2, <2>1
  <2>5. deps'[m].parent = deps[m].parent /\ deps'[m].out_elev = deps[m].out_elev
    BY <1>1, <1>2, <2>1, <2>4 DEF LinkToOcean
  <2>6. QED
    BY <2>2, <2>3, <2>5
<1>6. QED
  <2> HIDE DEF S
  <2>1. \A m \in S \ {OCEAN'} : deps'[m].parent \in S /\ deps'[m].out_elev <= deps'[d].out_elev
    BY <1>4, <1>5 DEF OCEAN
  <2>2. QED
    BY <1>3, <1>4, <2>1 DEF SpillsDownToOcean

LEMMA WalkNext == SinkInv /\ OceanWalk /\ [Next]_vars => OceanWalk'
<1> SUFFICES ASSUME SinkInv, OceanWalk, [Next]_vars PROVE OceanWalk'
  OBVIOUS
<1> USE DEF SinkInv
<1>1. CASE UNCHANGED vars
  BY <1>1 DEF vars, OceanWalk, SpillsDownToOcean, Labels
<1>2. ASSUME Next, NEW d \in Labels', deps'[d].ocean_parent PROVE SpillsDownToOcean(d)'
  <2>1. CASE d \in Labels /\ deps[d].ocean_parent
    BY <1>2, <2>1, WalkKept DEF OceanWalk
  <2>2. CASE ~ (d \in Labels /\ deps[d].ocean_parent)
    <3>1. PICK o \in Lowest : Visit(o)
      BY <1>2 DEF Next
    <3>2. o \in Outlet /\ o.depa \in LeafLabels /\ o.depb \in LeafLabels
      BY LowestIsLow, OutletFacts DEF OpenInv
    <3>3. deps \in [Labels -> Depression]
      BY DEF OpenInv, TypeOK
    <3>4. ~ Skip(o)
      BY <1>2, <2>2 DEF Skip, Labels
    <3>5. ASSUME NEW a \in LeafLabels, NEW b \in LeafLabels, LinkToOcean(o, a, b)
          PROVE SpillsDownToOcean(d)'
      <4>1. d \in Labels /\ rep[a] \in Labels /\ b \in Labels
        BY <1>2, <3>5, RepAfterLink DEF OpenInv, LinkToOcean, Labels
      <4>2. ASSUME d # rep[a] PROVE FALSE
        <5>1. deps[d] \in Depression
          BY <3>3, <4>1
        <5>2. deps'[d].ocean_parent = deps[d].ocean_parent
          BY <3>3, <3>5, <4>1, <4>2, <5>1 DEF LinkToOcean, Depression
        <5>3. QED
          BY <1>2, <2>2, <4>1, <5>2
      <4>3. QED
        BY <3>5, <4>2, WalkMade
    <3>6. ~ Merge(o)
      <4> SUFFICES ASSUME Merge(o) PROVE FALSE
        OBVIOUS
      <4>1. /\ Labels' = Labels \cup {size} /\ size \notin Labels /\ Labels' = 0 .. size
            /\ rep[o.depa] \in Labels /\ rep[o.depb] \in Labels
        BY <3>2, NewLabel, LabelFacts, RepAfterMerge DEF Merge, OpenInv
      <4>2. CASE d = size
        BY <1>2, <4>1, <4>2 DEF Merge, NewDepression
      <4>3. CASE d # size
        <5>1. d \in Labels /\ deps[d] \in Depression
          BY <1>2, <3>3, <4>1, <4>3
        <5>2. deps'[d].ocean_parent = deps[d].ocean_parent
          BY <4>1, <4>3, <5>1 DEF Merge, Spilled, Depression
        <5>3. QED
          BY <1>2, <2>2, <5>1, <5>2
      <4>4. QED
        BY <4>2, <4>3
    <3>7. QED
      BY <3>1, <3>2, <3>4, <3>5, <3>6 DEF Visit
  <2>3. QED
    BY <2>1, <2>2
<1>3. QED
  BY <1>1, <1>2 DEF OceanWalk

\* From every depression linked to the ocean the parents lead to the ocean,
\* through depressions that spill no higher than it does.
THEOREM WalkReachesOcean == Spec => []OceanWalk
<1>1. Init => OceanWalk
  <2> SUFFICES ASSUME Init, NEW d \in Labels PROVE ~ deps[d].ocean_parent
    BY DEF OceanWalk
  <2>1. Labels = LeafLabels
    BY LeafAssumption DEF Init, Labels, LeafLabels
  <2>2. QED
    BY <2>1 DEF Init, LeafVector, OceanDepression, LeafDepression, NewDepression
<1>2. QED
  BY <1>1, SinkInit, SinkNext, WalkNext, PTL DEF Spec

-----------------------------------------------------------------------------
\* That the union-find and the outlets agree: two leaves are in one set exactly if
\* the outlets visited so far join them.  One direction is that no visited outlet
\* leads out of a set; the other that a set of leaves which no visited outlet leads
\* out of does not cut through any set of the union-find.
Visited == outlets \ todo

VisitedAreJoined == \A o \in Visited : rep[o.depa] = rep[o.depb]

\* No outlet of S leads out of Y.
Closed(Y, S) == \A o \in S : o.depa \in Y <=> o.depb \in Y

CutsSpareSets ==
  \A Y \in SUBSET LeafLabels : Closed(Y, Visited) =>
    \A a, b \in LeafLabels : rep[a] = rep[b] => (a \in Y <=> b \in Y)

SetsInv ==
  /\ OpenInv
  /\ VisitedAreJoined
  /\ CutsSpareSets

-----------------------------------------------------------------------------
\* What a visit does to the sets: it makes one of those at the two ends of the
\* outlet, if they were two.
JoinsEnds(o) ==
  \A i, j \in LeafLabels :
    rep'[i] = rep'[j] <=>
      \/ rep[i] = rep[j]
      \/ rep[i] \in {rep[o.depa], rep[o.depb]} /\ rep[j] \in {rep[o.depa], rep[o.depb]}

LEMMA LinkJoinsEnds ==
  ASSUME OpenInv, NEW o \in Outlet, NEW a \in LeafLabels, NEW b \in LeafLabels,
         {a, b} = {o.depa, o.depb}, LinkToOcean(o, a, b)
  PROVE  JoinsEnds(o)
<1>1. rep' = [i \in Labels |-> IF rep[i] = rep[a] THEN OCEAN ELSE rep[i]]
  BY RepAfterLink DEF OpenInv
<1>2. LeafLabels \subseteq Labels
  BY LabelFacts DEF OpenInv
<1>3. rep[b] = OCEAN
  BY DEF LinkToOcean
<1>4. {rep[o.depa], rep[o.depb]} = {rep[a], OCEAN}
  BY <1>3
<1>5. ASSUME NEW i \in LeafLabels, NEW j \in LeafLabels
      PROVE  rep'[i] = rep'[j] <=>
               rep[i] = rep[j] \/ (rep[i] \in {rep[a], OCEAN} /\ rep[j] \in {rep[a], OCEAN})
  BY <1>1, <1>2
<1>6. QED
  BY <1>4, <1>5 DEF JoinsEnds

LEMMA MergeJoinsEnds ==
  ASSUME OpenInv, NEW o \in Outlet, Merge(o)
  PROVE  JoinsEnds(o)
<1>1. \A i \in Labels :
        rep'[i] = IF rep[i] = rep[o.depa] \/ rep[i] = rep[o.depb] THEN size ELSE rep[i]
  BY RepAfterMerge DEF OpenInv
<1>2. LeafLabels \subseteq Labels /\ size \notin Labels
  BY LabelFacts DEF OpenInv
<1>3. \A i \in Labels : rep[i] # size
  BY <1>2 DEF OpenInv, TypeOK
<1>4. QED
  BY <1>1, <1>2, <1>3 DEF JoinsEnds

LEMMA VisitJoinsEnds ==
  ASSUME OpenInv, NEW o \in Lowest, Visit(o)
  PROVE  /\ o \in Outlet /\ JoinsEnds(o)
         /\ Visited' = Visited \cup {o}
<1>1. o \in todo /\ todo \subseteq outlets /\ outlets \subseteq Outlet
  BY DEF Lowest, OpenInv, TypeOK
<1>2. o \in Outlet /\ o.depa \in LeafLabels /\ o.depb \in LeafLabels
  BY <1>1, OutletFacts
<1>3. todo' = todo \ {o} /\ outlets' = outlets
  BY DEF Visit, Skip, LinkToOcean, Merge
<1>4. Visited' = Visited \cup {o}
  BY <1>1, <1>3 DEF Visited
<1>5. ASSUME Skip(o) PROVE JoinsEnds(o)
  BY <1>5 DEF Skip, JoinsEnds
<1>6. ASSUME LinkToOcean(o, o.depa, o.depb) \/ LinkToOcean(o, o.depb, o.depa) PROVE JoinsEnds(o)
  BY <1>2, <1>6, LinkJoinsEnds
<1>7. ASSUME Merge(o) PROVE JoinsEnds(o)
  BY <1>2, <1>7, MergeJoinsEnds
<1>8. QED
  BY <1>2, <1>4, <1>5, <1>6, <1>7 DEF Visit

-----------------------------------------------------------------------------
LEMMA SetsInit == Init => SetsInv
<1> SUFFICES ASSUME Init PROVE VisitedAreJoined /\ CutsSpareSets
  BY OpenInit DEF SetsInv
<1>1. Visited = {}
  BY DEF Init, Visited
<1>2. \A a \in LeafLabels : rep[a] = a
  BY DEF Init, Singletons
<1>3. QED
  BY <1>1, <1>2 DEF VisitedAreJoined, CutsSpareSets

LEMMA SetsNext == SetsInv /\ [Next]_vars => SetsInv'
<1> SUFFICES ASSUME SetsInv, [Next]_vars PROVE VisitedAreJoined' /\ CutsSpareSets'
  BY OpenNext DEF SetsInv
<1> USE DEF SetsInv
<1>1. CASE UNCHANGED vars
  BY <1>1 DEF vars, Visited, VisitedAreJoined, CutsSpareSets, Closed
<1>2. ASSUME NEW o \in Lowest, Visit(o) PROVE VisitedAreJoined' /\ CutsSpareSets'
  <2>1. o \in Outlet /\ JoinsEnds(o) /\ Visited' = Visited \cup {o}
    BY <1>2, VisitJoinsEnds
  <2>2. \A p \in Visited \cup {o} : p \in Outlet /\ p.depa \in LeafLabels /\ p.depb \in LeafLabels
    BY <2>1, OutletFacts DEF Visited, OpenInv, TypeOK
  <2>3. VisitedAreJoined'
    <3>1. ASSUME NEW p \in Visited \cup {o} PROVE rep'[p.depa] = rep'[p.depb]
      <4>1. CASE p = o
        BY <2>1, <2>2, <4>1 DEF JoinsEnds
      <4>2. CASE p \in Visited
        <5>1. rep[p.depa] = rep[p.depb]
          BY <4>2 DEF VisitedAreJoined
        <5>2. QED
          BY <2>1, <2>2, <5>1 DEF JoinsEnds
      <4>3. QED
        BY <4>1, <4>2
    <3>2. QED
      BY <2>1, <3>1 DEF VisitedAreJoined
  <2>4. ASSUME NEW Y \in SUBSET LeafLabels, Closed(Y, Visited \cup {o}),
               NEW a \in LeafLabels, NEW b \in LeafLabels, rep'[a] = rep'[b]
        PROVE  a \in Y <=> b \in Y
    <3>1. Closed(Y, Visited) /\ (o.depa \in Y <=> o.depb \in Y)
      BY <2>4 DEF Closed
    <3>2. \A i, j \in LeafLabels : rep[i] = rep[j] => (i \in Y <=> j \in Y)
      BY <3>1 DEF CutsSpareSets
    <3>3. o.depa \in LeafLabels /\ o.depb \in LeafLabels
      BY <2>2
    <3>4. \/ rep[a] = rep[b]
          \/ rep[a] \in {rep[o.depa], rep[o.depb]} /\ rep[b] \in {rep[o.depa], rep[o.depb]}
      BY <2>1, <2>4 DEF JoinsEnds
    <3>5. ASSUME NEW i \in LeafLabels, rep[i] \in {rep[o.depa], rep[o.depb]}
          PROVE  i \in Y <=> o.depa \in Y
      BY <3>1, <3>2, <3>3, <3>5
    <3>6. QED
      BY <3>2, <3>4, <3>5
  <2>5. CutsSpareSets'
    BY <2>1, <2>4 DEF CutsSpareSets, LeafLabels
  <2>6. QED
    BY <2>3, <2>5
<1>3. QED
  BY <1>1, <1>2 DEF Next

\* A closed set of leaves that holds one of two leaves and not the other shows
\* that no chain of outlets joins them.
LEMMA ConnectedMeansNoCut ==
  ASSUME NEW S, NEW a \in LeafLabels, NEW b \in LeafLabels
  PROVE  Connected(a, b, S) <=>
           \A Y \in SUBSET LeafLabels : Closed(Y, S) /\ a \in Y => b \in Y
<1>1. ASSUME Connected(a, b, S), NEW Y \in SUBSET LeafLabels, Closed(Y, S), a \in Y, b \notin Y
      PROVE  FALSE
  <2>1. Y \ {a} \in SUBSET (LeafLabels \ {a, b}) /\ (Y \ {a}) \cup {a} = Y /\ a # b
    BY <1>1
  <2>2. PICK o \in S : (o.depa \in (Y \ {a}) \cup {a}) # (o.depb \in (Y \ {a}) \cup {a})
    BY <1>1, <2>1 DEF Connected
  <2>3. (o.depa \in Y) # (o.depb \in Y)
    BY <2>1, <2>2
  <2>4. QED
    BY <1>1, <2>3 DEF Closed
<1>2. ASSUME \A Y \in SUBSET LeafLabels : Closed(Y, S) /\ a \in Y => b \in Y,
             a # b, NEW X \in SUBSET (LeafLabels \ {a, b})
      PROVE  \E o \in S : (o.depa \in X \cup {a}) # (o.depb \in X \cup {a})
  <2>1. X \cup {a} \in SUBSET LeafLabels /\ a \in X \cup {a} /\ b \notin X \cup {a}
    BY <1>2
  <2>2. ~ Closed(X \cup {a}, S)
    BY <1>2, <2>1
  <2>3. QED
    BY <2>2 DEF Closed
<1>3. QED
  BY <1>1, <1>2 DEF Connected

\* The invariant says so.
LEMMA ComponentsHold == SetsInv => SetsAreComponents
<1> SUFFICES ASSUME SetsInv, NEW a \in LeafLabels, NEW b \in LeafLabels
             PROVE  rep[a] = rep[b] <=> Connected(a, b, Visited)
  BY DEF SetsAreComponents, Visited
<1>1. ASSUME rep[a] = rep[b], NEW Y \in SUBSET LeafLabels, Closed(Y, Visited), a \in Y
      PROVE  b \in Y
  BY <1>1 DEF SetsInv, CutsSpareSets
<1>2. ASSUME \A Y \in SUBSET LeafLabels : Closed(Y, Visited) /\ a \in Y => b \in Y
      PROVE  rep[a] = rep[b]
  <2> DEFINE Y == {c \in LeafLabels : rep[c] = rep[a]}
  <2>1. \A o \in Visited : o.depa \in LeafLabels /\ o.depb \in LeafLabels
    BY OutletFacts DEF Visited, SetsInv, OpenInv, TypeOK
  <2>2. Closed(Y, Visited)
    BY <2>1 DEF SetsInv, VisitedAreJoined, Closed
  <2>3. Y \in SUBSET LeafLabels /\ a \in Y
    OBVIOUS
  <2>4. b \in Y
    <3> HIDE DEF Y
    <3> QED
      BY <1>2, <2>2, <2>3
  <2>5. QED
    BY <2>4
<1>3. QED
  BY <1>1, <1>2, ConnectedMeansNoCut

\* At every moment of the sweep the union-find knows exactly the depressions
\* that the outlets visited so far join, the ocean included.
THEOREM SetsAreConnected == Spec => []SetsAreComponents
<1>1. QED
  BY ComponentsHold, SetsInit, SetsNext, PTL DEF Spec

-----------------------------------------------------------------------------
\* That trees and links to the ocean agree: parents and children name each other, a
\* meta-depression spills no lower than its children, and a depression is listed by
\* the one leaf it is linked through.  Only what represents its set is ever written
\* to, and that has no parent yet; so the children of a meta-depression and whatever
\* is linked to the ocean are out of reach of later steps.
\* Nothing is marked as linked to the ocean before it has a parent.
LinkedHaveParents == \A l \in Labels : deps[l].parent = NO_VALUE => ~ deps[l].ocean_parent

TreesInv ==
  /\ SinkInv
  /\ LinkedHaveParents
  /\ BinaryForest
  /\ OceanLinksAgree

\* The three parts of BinaryForest, of one label.
LeafShape(d) == d <= NLeaf <=> deps[d].lchild = NO_VALUE

ChildrenAgree(d) ==
  d > NLeaf =>
    LET l == deps[d].lchild
        r == deps[d].rchild
    IN  /\ l \in 1 .. d - 1
        /\ r \in 1 .. d - 1
        /\ l # r
        /\ deps[l].parent = d /\ deps[r].parent = d
        /\ deps[l].odep = r /\ deps[r].odep = l
        /\ deps[l].out_cell = deps[r].out_cell
        /\ deps[l].out_elev = deps[r].out_elev
        /\ deps[l].out_elev <= deps[d].out_elev
        /\ ~ deps[l].ocean_parent /\ ~ deps[r].ocean_parent

ParentOwns(d) ==
  deps[d].parent # NO_VALUE /\ ~ deps[d].ocean_parent =>
    d \in {deps[deps[d].parent].lchild, deps[deps[d].parent].rchild}

LEMMA ForestParts ==
  BinaryForest <=> \A d \in Labels : LeafShape(d) /\ ChildrenAgree(d) /\ ParentOwns(d)
BY DEF BinaryForest, LeafShape, ChildrenAgree, ParentOwns

\* What holds of every label while the trees agree.
LEMMA TreeFacts ==
  ASSUME TreesInv
  PROVE  /\ NO_VALUE \notin Labels
         /\ size \in Nat /\ NLeaf \in Nat /\ NLeaf < size
         /\ \A l \in Labels : l \in Nat /\ l < size /\ 1 .. l - 1 \subseteq Labels \ {OCEAN}
         /\ deps \in [Labels -> Depression] /\ rep \in [Labels -> Labels]
         /\ \A l \in Labels : rep[l] = l => deps[l].parent = NO_VALUE
         /\ \A l \in Labels : rep[l] # l => deps[l].parent \in Labels
<1>1. NO_VALUE \notin Labels /\ SinkInv /\ OpenInv /\ TypeOK
  BY BoundFacts DEF TreesInv, SinkInv, OpenInv
<1>2. size \in Nat /\ NLeaf \in Nat /\ NLeaf < size
  BY <1>1, LeafAssumption DEF TypeOK
<1>3. \A l \in Labels : l \in Nat /\ l < size /\ 1 .. l - 1 \subseteq Labels \ {OCEAN}
  BY <1>2 DEF Labels, OCEAN
<1>4. QED
  BY <1>1, <1>2, <1>3 DEF TypeOK, OpenInv, RepresentativesAreOpen, SinkInv, ParentsStayInside

\* The children of a meta-depression do not represent their sets.
LEMMA ChildrenAreClosed ==
  ASSUME TreesInv, NEW d \in Labels, d > NLeaf, NEW c \in {deps[d].lchild, deps[d].rchild}
  PROVE  c \in Labels /\ rep[c] # c
<1>1. ChildrenAgree(d) /\ 1 .. d - 1 \subseteq Labels /\ d # NO_VALUE
  BY TreeFacts, ForestParts DEF TreesInv
<1>2. c \in Labels /\ deps[c].parent = d
  BY <1>1 DEF ChildrenAgree
<1>3. QED
  BY <1>1, <1>2, TreeFacts

-----------------------------------------------------------------------------
LEMMA TreesInit == Init => TreesInv
<1> SUFFICES ASSUME Init PROVE TreesInv
  OBVIOUS
<1>1. Labels = LeafLabels
  BY LeafAssumption DEF Init, Labels, LeafLabels
<1>2. ASSUME NEW l \in Labels
      PROVE  /\ deps[l].parent = NO_VALUE /\ deps[l].lchild = NO_VALUE
             /\ ~ deps[l].ocean_parent /\ deps[l].ocean_linked = {}
  <2>1. deps[l] = IF l = OCEAN THEN OceanDepression ELSE LeafDepression(l)
    BY <1>1 DEF Init, LeafVector
  <2>2. QED
    BY <2>1 DEF OceanDepression, LeafDepression, NewDepression
<1>3. ASSUME NEW l \in Labels PROVE LeafShape(l) /\ ChildrenAgree(l) /\ ParentOwns(l)
  <2>1. l <= NLeaf /\ ~ (l > NLeaf)
    BY <1>1, LeafAssumption DEF LeafLabels
  <2>2. QED
    BY <1>2, <2>1 DEF LeafShape, ChildrenAgree, ParentOwns
<1>4. QED
  BY <1>2, <1>3, SinkInit, ForestParts DEF TreesInv, LinkedHaveParents, OceanLinksAgree

\* What a link of r to the ocean through b writes: r, and the list of b.
LinkWritesOnly(r, b, o) ==
  /\ Labels' = Labels
  /\ r \in Labels /\ b \in Labels /\ rep[r] = r /\ r # b
  /\ \A l \in Labels : l # r =>
       /\ deps'[l].parent = deps[l].parent /\ deps'[l].odep = deps[l].odep
       /\ deps'[l].out_cell = deps[l].out_cell /\ deps'[l].out_elev = deps[l].out_elev
       /\ deps'[l].ocean_parent = deps[l].ocean_parent /\ deps'[l].geolink = deps[l].geolink
  /\ \A l \in Labels : deps'[l].lchild = deps[l].lchild /\ deps'[l].rchild = deps[l].rchild
  /\ deps'[r].parent = b /\ deps'[r].ocean_parent = TRUE /\ deps'[r].geolink = b
  /\ deps'[r].out_elev = o.out_elev /\ deps'[r].out_cell = o.out_cell
  /\ \A l \in Labels : l # b => deps'[l].ocean_linked = deps[l].ocean_linked
  /\ deps'[b].ocean_linked = deps[b].ocean_linked \cup {r}

LEMMA LinkWrites ==
  ASSUME TreesInv, NEW o \in Lowest, NEW a \in LeafLabels, NEW b \in LeafLabels, LinkToOcean(o, a, b)
  PROVE  LinkWritesOnly(rep[a], b, o)
<1>1. TypeOK /\ deps \in [Labels -> Depression] /\ rep \in [Labels -> Labels] /\ IsPartition(rep)
  BY TreeFacts DEF TreesInv, SinkInv, OpenInv
<1>2. rep[a] \in Labels /\ a \in Labels /\ b \in Labels
  BY <1>1, RepAfterLink
<1>3. rep[rep[a]] = rep[a] /\ rep[a] # b /\ Labels' = Labels
  BY <1>1, <1>2 DEF LinkToOcean, IsPartition, Labels
<1> DEFINE linked == [deps[rep[a]] EXCEPT !.parent = b, !.odep = NO_VALUE, !.geolink = b,
                        !.out_cell = o.out_cell, !.out_elev = o.out_elev, !.ocean_parent = TRUE]
<1>4. deps' = [[deps EXCEPT ![rep[a]] = linked] EXCEPT ![b].ocean_linked = @ \cup {rep[a]}]
  BY DEF LinkToOcean
<1>5. deps'[rep[a]] = linked /\ deps[rep[a]] \in Depression
  BY <1>1, <1>2, <1>3, <1>4
<1>6. deps'[b] = [deps[b] EXCEPT !.ocean_linked = @ \cup {rep[a]}] /\ deps[b] \in Depression
  BY <1>1, <1>2, <1>3, <1>4
<1>7. ASSUME NEW l \in Labels, l # rep[a], l # b PROVE deps'[l] = deps[l]
  BY <1>1, <1>2, <1>4, <1>7
<1>8. /\ deps'[rep[a]].parent = b /\ deps'[rep[a]].ocean_parent = TRUE /\ deps'[rep[a]].geolink = b
      /\ deps'[rep[a]].out_elev = o.out_elev /\ deps'[rep[a]].out_cell = o.out_cell
      /\ deps'[rep[a]].lchild = deps[rep[a]].lchild /\ deps'[rep[a]].rchild = deps[rep[a]].rchild
      /\ deps'[rep[a]].ocean_linked = deps[rep[a]].ocean_linked
  BY <1>5 DEF Depression
<1>9. /\ deps'[b].parent = deps[b].parent /\ deps'[b].odep = deps[b].odep
      /\ deps'[b].out_cell = deps[b].out_cell /\ deps'[b].out_elev = deps[b].out_elev
      /\ deps'[b].ocean_parent = deps[b].ocean_parent /\ deps'[b].geolink = deps[b].geolink
      /\ deps'[b].lchild = deps[b].lchild /\ deps'[b].rchild = deps[b].rchild
      /\ deps'[b].ocean_linked = deps[b].ocean_linked \cup {rep[a]}
  BY <1>6 DEF Depression
<1> HIDE DEF linked
<1>10. QED
  BY <1>2, <1>3, <1>7, <1>8, <1>9 DEF LinkWritesOnly

LEMMA LinkKeepsTrees ==
  ASSUME TreesInv, NEW o \in Lowest, NEW a \in LeafLabels, NEW b \in LeafLabels, LinkToOcean(o, a, b)
  PROVE  LinkedHaveParents' /\ BinaryForest' /\ OceanLinksAgree'
<1> DEFINE r == rep[a]
<1>1. LinkWritesOnly(r, b, o)
  BY LinkWrites
<1> HIDE DEF r
<1>2. /\ NO_VALUE \notin Labels /\ deps \in [Labels -> Depression]
      /\ deps[r].parent = NO_VALUE /\ ~ deps[r].ocean_parent
  BY <1>1, TreeFacts DEF TreesInv, LinkedHaveParents, LinkWritesOnly
<1>3. LinkedHaveParents'
  BY <1>1, <1>2 DEF TreesInv, LinkedHaveParents, LinkWritesOnly
<1>4. ASSUME NEW d \in Labels PROVE LeafShape(d)'
  BY <1>1, ForestParts DEF TreesInv, LeafShape, LinkWritesOnly
<1>5. ASSUME NEW d \in Labels, d > NLeaf PROVE ChildrenAgree(d)'
  <2> DEFINE l == deps[d].lchild
             m == deps[d].rchild
  <2>1. l \in Labels /\ m \in Labels /\ rep[l] # l
    BY <1>5, ChildrenAreClosed
  <2>2. l # r /\ m # r
    BY <1>1, <1>5, ChildrenAreClosed DEF LinkWritesOnly
  <2>3. /\ l \in 1 .. d - 1 /\ m \in 1 .. d - 1 /\ l # m
        /\ deps[l].parent = d /\ deps[m].parent = d
        /\ deps[l].odep = m /\ deps[m].odep = l
        /\ deps[l].out_cell = deps[m].out_cell
        /\ deps[l].out_elev = deps[m].out_elev
        /\ deps[l].out_elev <= deps[d].out_elev
        /\ ~ deps[l].ocean_parent /\ ~ deps[m].ocean_parent
    BY <1>5, ForestParts DEF TreesInv, ChildrenAgree
  <2>4. deps[l].out_elev <= o.out_elev
    BY <2>1, LowestIsLow DEF TreesInv, SinkInv, OpenInv, RecordedIsLow
  <2>5. deps'[d].lchild = l /\ deps'[d].rchild = m
    BY <1>1 DEF LinkWritesOnly
  <2>6. deps'[l].out_elev <= deps'[d].out_elev
    BY <1>1, <2>1, <2>2, <2>3, <2>4 DEF LinkWritesOnly
  <2> HIDE DEF l, m
  <2>7. QED
    BY <1>1, <2>1, <2>2, <2>3, <2>5, <2>6 DEF ChildrenAgree, LinkWritesOnly
<1>6. ASSUME NEW d \in Labels PROVE ParentOwns(d)'
  <2>1. CASE d = r
    BY <1>1, <2>1 DEF ParentOwns, LinkWritesOnly
  <2>2. CASE d # r
    <3>1. deps[d].parent \in Labels \cup {NO_VALUE} /\ ParentOwns(d)
      BY <1>2, ForestParts DEF TreesInv, Depression, LabelOrNone
    <3>2. QED
      BY <1>1, <2>2, <3>1 DEF ParentOwns, LinkWritesOnly
  <2>3. QED
    BY <2>1, <2>2
<1>7. ASSUME NEW d \in Labels, NEW e \in Labels
      PROVE  d \in deps'[e].ocean_linked <=> deps'[d].ocean_parent /\ deps'[d].parent = e
  <2>1. d \in deps[e].ocean_linked <=> deps[d].ocean_parent /\ deps[d].parent = e
    BY DEF TreesInv, OceanLinksAgree
  <2>2. CASE d = r
    BY <1>1, <1>2, <2>1, <2>2 DEF LinkWritesOnly
  <2>3. CASE d # r
    BY <1>1, <2>1, <2>3 DEF LinkWritesOnly
  <2>4. QED
    BY <2>2, <2>3
<1>8. BinaryForest'
  <2>1. ASSUME NEW d \in Labels PROVE ChildrenAgree(d)'
    BY <1>5, <2>1 DEF ChildrenAgree
  <2>2. BinaryForest' <=> \A d \in Labels' : LeafShape(d)' /\ ChildrenAgree(d)' /\ ParentOwns(d)'
    BY DEF BinaryForest, LeafShape, ChildrenAgree, ParentOwns
  <2>3. QED
    BY <1>1, <1>4, <1>6, <2>1, <2>2 DEF LinkWritesOnly
<1>9. QED
  BY <1>1, <1>3, <1>7, <1>8 DEF OceanLinksAgree, LinkWritesOnly

\* What a merge writes: its two sides, and the new label.
LEMMA MergeWrites ==
  ASSUME TreesInv, NEW o \in Lowest, Merge(o)
  PROVE  LET a == rep[o.depa]
             b == rep[o.depb]
         IN  /\ Labels' = Labels \cup {size} /\ size \notin Labels
             /\ a \in Labels \ {OCEAN} /\ b \in Labels \ {OCEAN} /\ a # b
             /\ rep[a] = a /\ rep[b] = b
             /\ \A l \in Labels : l \notin {a, b} => deps'[l] = deps[l]
             /\ \A l \in {a, b} :
                  /\ deps'[l].parent = size /\ deps'[l].out_cell = o.out_cell
                  /\ deps'[l].out_elev = o.out_elev
                  /\ deps'[l].lchild = deps[l].lchild /\ deps'[l].rchild = deps[l].rchild
                  /\ deps'[l].ocean_parent = deps[l].ocean_parent
                  /\ deps'[l].ocean_linked = deps[l].ocean_linked
             /\ deps'[a].odep = b /\ deps'[b].odep = a
             /\ deps'[a].geolink = o.depb /\ deps'[b].geolink = o.depa
             /\ deps'[size].parent = NO_VALUE
             /\ deps'[size].lchild = a /\ deps'[size].rchild = b
             /\ deps'[size].out_elev = INF /\ ~ deps'[size].ocean_parent
             /\ deps'[size].ocean_linked = {}
<1> DEFINE a == rep[o.depa]
           b == rep[o.depb]
<1>1. TypeOK /\ deps \in [Labels -> Depression] /\ rep \in [Labels -> Labels] /\ IsPartition(rep)
  BY TreeFacts DEF TreesInv, SinkInv, OpenInv
<1>2. o.depa \in Labels /\ o.depb \in Labels /\ a \in Labels /\ b \in Labels
  BY <1>1, RepAfterMerge, LowestIsLow
<1>3. a # b /\ a # OCEAN /\ b # OCEAN /\ rep[a] = a /\ rep[b] = b
  BY <1>1, <1>2 DEF Merge, IsPartition
<1>4. Labels' = 0 .. size /\ Labels' = Labels \cup {size} /\ size \notin Labels
  BY <1>1, NewLabel, LabelFacts DEF Merge
<1>5. /\ \A l \in Labels : l \notin {a, b} => deps'[l] = deps[l]
      /\ deps'[a] = Spilled(deps[a], o, b, o.depb)
      /\ deps'[b] = Spilled(deps[b], o, a, o.depa)
      /\ deps'[size] = [NewDepression EXCEPT !.lchild = a, !.rchild = b, !.pit_cell = deps[a].pit_cell]
  <2>1. deps' = [l \in 0 .. size |->
           IF l = size THEN [NewDepression EXCEPT !.lchild = a, !.rchild = b,
                                                  !.pit_cell = deps[a].pit_cell]
           ELSE IF l = a THEN Spilled(deps[a], o, b, o.depb)
           ELSE IF l = b THEN Spilled(deps[b], o, a, o.depa)
           ELSE deps[l]]
    BY DEF Merge
  <2>2. QED
    BY <1>2, <1>3, <1>4, <2>1
<1>6. deps[a] \in Depression /\ deps[b] \in Depression
  BY <1>1, <1>2
<1>7. ASSUME NEW l \in {a, b}
      PROVE  /\ deps'[l].parent = size /\ deps'[l].out_cell = o.out_cell
             /\ deps'[l].out_elev = o.out_elev
             /\ deps'[l].lchild = deps[l].lchild /\ deps'[l].rchild = deps[l].rchild
             /\ deps'[l].ocean_parent = deps[l].ocean_parent
             /\ deps'[l].ocean_linked = deps[l].ocean_linked
  <2>0. ASSUME NEW d \in Depression, NEW s, NEW x
        PROVE  /\ Spilled(d, o, s, x).parent = size /\ Spilled(d, o, s, x).out_cell = o.out_cell
               /\ Spilled(d, o, s, x).out_elev = o.out_elev
               /\ Spilled(d, o, s, x).lchild = d.lchild /\ Spilled(d, o, s, x).rchild = d.rchild
               /\ Spilled(d, o, s, x).ocean_parent = d.ocean_parent
               /\ Spilled(d, o, s, x).ocean_linked = d.ocean_linked
    BY DEF Spilled, Depression
  <2>1. CASE l = a
    BY <1>5, <1>6, <2>0, <2>1
  <2>2. CASE l = b
    BY <1>5, <1>6, <2>0, <2>2
  <2>3. QED
    BY <2>1, <2>2
<1>8. /\ deps'[a].odep = b /\ deps'[b].odep = a
      /\ deps'[a].geolink = o.depb /\ deps'[b].geolink = o.depa
  BY <1>5, <1>6 DEF Spilled, Depression
<1>9. /\ deps'[size].parent = NO_VALUE
      /\ deps'[size].lchild = a /\ deps'[size].rchild = b
      /\ deps'[size].out_elev = INF /\ ~ deps'[size].ocean_parent
      /\ deps'[size].ocean_linked = {}
  BY <1>5 DEF NewDepression
<1>10. QED
  BY <1>2, <1>3, <1>4, <1>5, <1>7, <1>8, <1>9

LEMMA MergeKeepsTrees ==
  ASSUME TreesInv, NEW o \in Lowest, Merge(o), NO_VALUE \notin Labels'
  PROVE  LinkedHaveParents' /\ BinaryForest' /\ OceanLinksAgree'
<1> DEFINE a == rep[o.depa]
           b == rep[o.depb]
<1>1. /\ Labels' = Labels \cup {size} /\ size \notin Labels
      /\ a \in Labels \ {OCEAN} /\ b \in Labels \ {OCEAN} /\ a # b
      /\ rep[a] = a /\ rep[b] = b
      /\ \A l \in Labels : l \notin {a, b} => deps'[l] = deps[l]
      /\ \A l \in {a, b} :
           /\ deps'[l].parent = size /\ deps'[l].out_cell = o.out_cell
           /\ deps'[l].out_elev = o.out_elev
           /\ deps'[l].lchild = deps[l].lchild /\ deps'[l].rchild = deps[l].rchild
           /\ deps'[l].ocean_parent = deps[l].ocean_parent
           /\ deps'[l].ocean_linked = deps[l].ocean_linked
      /\ deps'[a].odep = b /\ deps'[b].odep = a
      /\ deps'[size].parent = NO_VALUE
      /\ deps'[size].lchild = a /\ deps'[size].rchild = b
      /\ deps'[size].out_elev = INF /\ ~ deps'[size].ocean_parent
      /\ deps'[size].ocean_linked = {}
  BY MergeWrites
<1> HIDE DEF a, b
<1>2. /\ deps \in [Labels -> Depression] /\ size # NO_VALUE
      /\ size \in Nat /\ NLeaf \in Nat /\ NLeaf < size
      /\ \A l \in {a, b} : deps[l].parent = NO_VALUE /\ ~ deps[l].ocean_parent
  BY <1>1, TreeFacts DEF TreesInv, LinkedHaveParents
<1>3. LinkedHaveParents'
  BY <1>1, <1>2 DEF TreesInv, LinkedHaveParents
<1>4. ASSUME NEW d \in Labels'
      PROVE  LeafShape(d)'
  <2>1. CASE d = size
    BY <1>1, <1>2, <2>1, TreeFacts DEF LeafShape
  <2>2. CASE d \in Labels
    BY <1>1, <2>2, ForestParts DEF TreesInv, LeafShape
  <2>3. QED
    BY <1>1, <2>1, <2>2
<1>5. ASSUME NEW d \in Labels', d = size PROVE ChildrenAgree(d)'
  <2>1. a \in 1 .. size - 1 /\ b \in 1 .. size - 1
    BY <1>1 DEF Labels, OCEAN
  <2>2. o.out_elev <= INF
    <3>1. o.out_cell \in Cells /\ o.out_elev = Dem[o.out_cell] /\ o.out_elev \in Int
      BY LowestIsLow, OutletFacts DEF TreesInv, SinkInv, OpenInv, Outlet
    <3>2. QED
      BY <3>1, SentinelAssumption
  <2>3. QED
    BY <1>1, <1>2, <1>5, <2>1, <2>2 DEF ChildrenAgree
<1>6. ASSUME NEW d \in Labels, d > NLeaf PROVE ChildrenAgree(d)'
  <2> DEFINE l == deps[d].lchild
             m == deps[d].rchild
  <2>1. l \in Labels /\ m \in Labels /\ rep[l] # l
    BY <1>6, ChildrenAreClosed
  <2>2. l \notin {a, b} /\ m \notin {a, b}
    BY <1>1, <1>6, ChildrenAreClosed
  <2>3. ChildrenAgree(d)
    BY ForestParts DEF TreesInv
  <2>4. deps[l].out_elev <= o.out_elev
    BY <2>1, LowestIsLow DEF TreesInv, SinkInv, OpenInv, RecordedIsLow
  <2>5. deps'[d].lchild = l /\ deps'[d].rchild = m
    BY <1>1
  <2>6. deps'[l] = deps[l] /\ deps'[m] = deps[m]
    BY <1>1, <2>1, <2>2
  <2>7. deps[l].out_elev <= deps'[d].out_elev
    <3>1. deps[l].out_elev <= deps[d].out_elev
      BY <1>6, <2>3 DEF ChildrenAgree
    <3>2. QED
      BY <1>1, <2>4, <3>1
  <2> HIDE DEF l, m
  <2>8. QED
    BY <1>6, <2>3, <2>5, <2>6, <2>7 DEF ChildrenAgree, l, m
<1>7. ASSUME NEW d \in Labels' PROVE ParentOwns(d)'
  <2>1. CASE d = size
    BY <1>1, <2>1 DEF ParentOwns
  <2>2. CASE d \in {a, b}
    BY <1>1, <2>2 DEF ParentOwns
  <2>3. CASE d \in Labels /\ d \notin {a, b}
    <3>1. deps[d].parent \in Labels \cup {NO_VALUE} /\ ParentOwns(d)
      BY <1>2, <2>3, ForestParts DEF TreesInv, Depression, LabelOrNone
    <3>2. QED
      BY <1>1, <2>3, <3>1 DEF ParentOwns
  <2>4. QED
    BY <1>1, <2>1, <2>2, <2>3
<1>8. ASSUME NEW d \in Labels', NEW e \in Labels'
      PROVE  d \in deps'[e].ocean_linked <=> deps'[d].ocean_parent /\ deps'[d].parent = e
  <2>1. ASSUME NEW i \in Labels, NEW j \in Labels
        PROVE  i \in deps[j].ocean_linked <=> deps[i].ocean_parent /\ deps[i].parent = j
    BY DEF TreesInv, OceanLinksAgree
  <2>2. \A i \in Labels : deps[i].ocean_linked \subseteq Labels /\ deps[i].parent \in Labels \cup {NO_VALUE}
    BY <1>2 DEF Depression, LabelOrNone
  <2>3. \A i \in Labels : deps'[i].ocean_linked = deps[i].ocean_linked
    BY <1>1
  <2>4. CASE d = size
    BY <1>1, <2>2, <2>3, <2>4
  <2>5. CASE d \in {a, b}
    <3>1. ~ deps'[d].ocean_parent
      BY <1>1, <1>2, <2>5
    <3>2. d \notin deps'[e].ocean_linked
      BY <1>1, <1>2, <2>1, <2>3, <2>5
    <3>3. QED
      BY <3>1, <3>2
  <2>6. CASE d \in Labels /\ d \notin {a, b}
    <3>1. CASE e = size
      BY <1>1, <1>2, <2>2, <2>6, <3>1
    <3>2. CASE e \in Labels
      BY <1>1, <2>1, <2>3, <2>6, <3>2
    <3>3. QED
      BY <1>1, <3>1, <3>2
  <2>7. QED
    BY <1>1, <2>4, <2>5, <2>6
<1>9. BinaryForest'
  <2>1. ASSUME NEW d \in Labels' PROVE ChildrenAgree(d)'
    <3>1. CASE d = size
      BY <1>5, <3>1
    <3>2. CASE d \in Labels
      BY <1>6, <3>2 DEF ChildrenAgree
    <3>3. QED
      BY <1>1, <3>1, <3>2
  <2>2. BinaryForest' <=> \A d \in Labels' : LeafShape(d)' /\ ChildrenAgree(d)' /\ ParentOwns(d)'
    BY DEF BinaryForest, LeafShape, ChildrenAgree, ParentOwns
  <2>3. QED
    BY <1>4, <1>7, <2>1, <2>2
<1>10. QED
  BY <1>3, <1>8, <1>9 DEF OceanLinksAgree

\* The new label is not the sentinel either.
Clear == NO_VALUE \notin Labels

LEMMA StaysClear == TreesInv /\ [Next]_vars => Clear'
<1>1. SinkInv => Clear
  BY BoundFacts DEF SinkInv, Clear
<1>2. SinkInv' => Clear'
  BY <1>1, PTL
<1>3. QED
  BY <1>2, SinkNext DEF TreesInv

LEMMA TreesNext == TreesInv /\ [Next]_vars => TreesInv'
<1> SUFFICES ASSUME TreesInv, [Next]_vars PROVE LinkedHaveParents' /\ BinaryForest' /\ OceanLinksAgree'
  BY SinkNext DEF TreesInv
<1>1. ASSUME UNCHANGED <<size, deps>> PROVE LinkedHaveParents' /\ BinaryForest' /\ OceanLinksAgree'
  BY <1>1 DEF TreesInv, LinkedHaveParents, BinaryForest, OceanLinksAgree, Labels
<1>2. ASSUME NEW o \in Lowest, Visit(o) PROVE LinkedHaveParents' /\ BinaryForest' /\ OceanLinksAgree'
  <2>1. o.depa \in LeafLabels /\ o.depb \in LeafLabels
    BY LowestIsLow, OutletFacts DEF TreesInv, SinkInv, OpenInv
  <2>2. NO_VALUE \notin Labels'
    BY StaysClear DEF Clear
  <2>3. CASE Skip(o)
    BY <1>1, <2>3 DEF Skip
  <2>4. QED
    BY <1>2, <2>1, <2>2, <2>3, LinkKeepsTrees, MergeKeepsTrees DEF Visit
<1>3. CASE UNCHANGED vars
  BY <1>1, <1>3 DEF vars
<1>4. QED
  BY <1>2, <1>3 DEF Next

\* Parents and children name each other and spill over one outlet no higher
\* than any above it, after whatever sequence of skips, links and merges.
THEOREM TreesAreBinary == Spec => []BinaryForest
<1>1. TreesInv => BinaryForest
  BY DEF TreesInv
<1>2. QED
  BY <1>1, TreesInit, TreesNext, PTL DEF Spec

\* What is linked to the ocean is listed by the leaf it is linked through, and
\* by no other.
THEOREM OceanLinksAreListed == Spec => []OceanLinksAgree
<1>1. TreesInv => OceanLinksAgree
  BY DEF TreesInv
<1>2. QED
  BY <1>1, TreesInit, TreesNext, PTL DEF Spec

-----------------------------------------------------------------------------
\* What the recursive function LeavesUnder says of n depressions.
IsUnder(f, n, dp) ==
  f = [d \in 0 .. n - 1 |-> IF dp[d].lchild = NO_VALUE THEN {d}
                            ELSE f[dp[d].lchild] \cup f[dp[d].rchild]]

\* Children have smaller labels.
Descending(n, dp) ==
  /\ n \in Nat
  /\ \A d \in 0 .. n - 1 : dp[d].lchild # NO_VALUE =>
       dp[d].lchild \in 0 .. d - 1 /\ dp[d].rchild \in 0 .. d - 1

\* There is such a function.
LEMMA UnderExists ==
  ASSUME NEW n, NEW dp, Descending(n, dp)
  PROVE  \E f : IsUnder(f, n, dp)
<1> DEFINE T == {k \in 0 .. n : \E f : IsUnder(f, k, dp)}
<1>1. n \in Nat
  BY DEF Descending
<1>2. 0 \in T
  <2>1. IsUnder([d \in 0 .. 0 - 1 |-> {}], 0, dp)
    <3>1. 0 .. 0 - 1 = {}
      OBVIOUS
    <3> QED BY <3>1 DEF IsUnder
  <2> QED BY <1>1, <2>1
<1>3. ASSUME NEW k \in 0 .. n - 1, k \in T PROVE k + 1 \in T
  <2>1. PICK f : IsUnder(f, k, dp)
    BY <1>3
  <2> DEFINE top == IF dp[k].lchild = NO_VALUE THEN {k} ELSE f[dp[k].lchild] \cup f[dp[k].rchild]
             g == [d \in 0 .. k |-> IF d = k THEN top ELSE f[d]]
  <2>2. (k + 1) - 1 = k /\ k + 1 \in 0 .. n /\ k \in Nat
    BY <1>1
  <2>3. ASSUME NEW d \in 0 .. k
        PROVE  g[d] = IF dp[d].lchild = NO_VALUE THEN {d} ELSE g[dp[d].lchild] \cup g[dp[d].rchild]
    <3>1. dp[d].lchild # NO_VALUE => dp[d].lchild \in 0 .. d - 1 /\ dp[d].rchild \in 0 .. d - 1
      BY <2>2 DEF Descending
    <3>2. \A e \in 0 .. d - 1 : e \in 0 .. k /\ e # k /\ g[e] = f[e]
      BY <2>2
    <3>3. CASE d = k
      BY <3>1, <3>2, <3>3
    <3>4. CASE d # k
      <4>1. d \in 0 .. k - 1
        BY <2>2, <3>4
      <4>2. f[d] = IF dp[d].lchild = NO_VALUE THEN {d} ELSE f[dp[d].lchild] \cup f[dp[d].rchild]
        BY <2>1, <4>1 DEF IsUnder
      <4>3. g[d] = f[d]
        BY <3>4
      <4> HIDE DEF g
      <4> QED BY <3>1, <3>2, <4>2, <4>3
    <3> QED BY <3>3, <3>4
  <2>4. g = [d \in 0 .. k |-> g[d]]
    OBVIOUS
  <2> HIDE DEF g
  <2>5. IsUnder(g, k + 1, dp)
    BY <2>2, <2>3, <2>4 DEF IsUnder
  <2> QED BY <2>2, <2>5
<1>4. n \in T
  <2> HIDE DEF T
  <2> QED BY <1>1, <1>2, <1>3, Upwards
<1> QED BY <1>4

\* The first n depressions have the same children in both.
SameChildren(n, dp, dq) ==
  \A d \in 0 .. n - 1 : dq[d].lchild = dp[d].lchild /\ dq[d].rchild = dp[d].rchild

\* It depends on the children only, and more depressions change nothing below.
AreUnder(f, n, dp, g, m, dq) ==
  /\ Descending(n, dp) /\ m \in Nat /\ n <= m /\ SameChildren(n, dp, dq)
  /\ IsUnder(f, n, dp) /\ IsUnder(g, m, dq)

\* The leaves below the depressions there were before are those they had.
LEMMA UnderAgrees ==
  ASSUME NEW f, NEW n, NEW dp, NEW g, NEW m, NEW dq, AreUnder(f, n, dp, g, m, dq)
  PROVE  \A d \in 0 .. n - 1 : g[d] = f[d]
<1> USE DEF AreUnder
<1> DEFINE T == {k \in 0 .. n : \A d \in 0 .. k - 1 : g[d] = f[d]}
<1>1. n \in Nat
  BY DEF Descending
<1>2. 0 \in T
  BY <1>1
<1>3. ASSUME NEW k \in 0 .. n - 1, k \in T PROVE k + 1 \in T
  <2>1. k + 1 \in 0 .. n /\ k \in 0 .. m - 1 /\ (k + 1) - 1 = k
    BY <1>1
  <2>2. f[k] = IF dp[k].lchild = NO_VALUE THEN {k} ELSE f[dp[k].lchild] \cup f[dp[k].rchild]
    BY DEF IsUnder
  <2>3. g[k] = IF dp[k].lchild = NO_VALUE THEN {k} ELSE g[dp[k].lchild] \cup g[dp[k].rchild]
    <3>1. g[k] = IF dq[k].lchild = NO_VALUE THEN {k} ELSE g[dq[k].lchild] \cup g[dq[k].rchild]
      BY <2>1 DEF IsUnder
    <3>2. dq[k].lchild = dp[k].lchild /\ dq[k].rchild = dp[k].rchild
      BY DEF SameChildren
    <3> QED BY <3>1, <3>2
  <2>4. dp[k].lchild # NO_VALUE => dp[k].lchild \in 0 .. k - 1 /\ dp[k].rchild \in 0 .. k - 1
    BY DEF Descending
  <2>5. \A d \in 0 .. k - 1 : g[d] = f[d]
    BY <1>3
  <2>6. g[k] = f[k]
    BY <2>2, <2>3, <2>4, <2>5
  <2>7. \A d \in 0 .. k : d = k \/ d \in 0 .. k - 1
    BY <1>1
  <2> QED BY <2>1, <2>5, <2>6, <2>7
<1>4. n \in T
  <2> HIDE DEF T
  <2> QED BY <1>1, <1>2, <1>3, Upwards
<1> QED BY <1>4

\* The recursive function exists while the trees agree.
UnderDefined == Descending(size, deps) /\ IsUnder(LeavesUnder, size, deps)

\* In trees that agree every child has a smaller label, so the recursive function
\* LeavesUnder is what its definition says.
LEMMA UnderHolds == TreesInv => UnderDefined
<1> SUFFICES ASSUME TreesInv PROVE UnderDefined
  OBVIOUS
<1>1. Descending(size, deps)
  <2>1. size \in Nat /\ NLeaf \in Nat
    BY TreeFacts
  <2>2. ASSUME NEW d \in 0 .. size - 1, deps[d].lchild # NO_VALUE
        PROVE  deps[d].lchild \in 0 .. d - 1 /\ deps[d].rchild \in 0 .. d - 1
    <3>1. LeafShape(d) /\ ChildrenAgree(d)
      BY ForestParts DEF TreesInv, Labels
    <3>2. d > NLeaf
      BY <2>1, <2>2, <3>1 DEF LeafShape
    <3>3. deps[d].lchild \in 1 .. d - 1 /\ deps[d].rchild \in 1 .. d - 1
      BY <3>1, <3>2 DEF ChildrenAgree
    <3> QED BY <3>3
  <2> QED BY <2>1, <2>2 DEF Descending
<1>2. PICK f : IsUnder(f, size, deps)
  BY <1>1, UnderExists
<1>3. \E g : g = [d \in Labels |-> IF deps[d].lchild = NO_VALUE THEN {d}
                                    ELSE g[deps[d].lchild] \cup g[deps[d].rchild]]
  BY <1>2 DEF IsUnder, Labels
<1>4. LeavesUnder = [d \in Labels |-> IF deps[d].lchild = NO_VALUE THEN {d}
                                       ELSE LeavesUnder[deps[d].lchild] \cup LeavesUnder[deps[d].rchild]]
  BY <1>3 DEF LeavesUnder
<1> QED BY <1>1, <1>4 DEF UnderDefined, IsUnder, Labels

\* So it is after the step.
LEMMA UnderHoldsNext == TreesInv' => UnderDefined'
BY UnderHolds, PTL

-----------------------------------------------------------------------------
\* What is below a depression is the set it stood for when it got its parent.
MembersAreUnder ==
  \A d \in Labels : rep[d] = d /\ d # OCEAN => LeavesUnder[d] = {l \in LeafLabels : rep[l] = d}

UnderIsLand == \A d \in Labels \ {OCEAN} : LeavesUnder[d] \subseteq Leaves

\* The sweep goes upwards.
VisitedAreLow == \A o \in Visited, p \in todo : o.out_elev <= p.out_elev

SpillsAtOutlets == \A d \in Labels : deps[d].parent # NO_VALUE => deps[d].out_elev \in Elevations

OutletsUpTo(e) == {o \in outlets : o.out_elev <= e}

\* The leaves below a meta-depression are joined by outlets no higher than the one
\* over which its children spill, and those of the two children are different.
JoinedAt(d) ==
  LET l == deps[d].lchild
      r == deps[d].rchild
  IN  /\ LeavesUnder[l] \cap LeavesUnder[r] = {}
      /\ \A a, b \in LeavesUnder[d] : Connected(a, b, OutletsUpTo(deps[l].out_elev))

SunkAt(d) == \A l \in LeavesUnder[d] : Connected(l, OCEAN, OutletsUpTo(deps[d].out_elev))

MetasAreJoined == \A d \in Labels : d > NLeaf => JoinedAt(d)
SunkAreJoined == \A d \in Labels : deps[d].ocean_parent => SunkAt(d)
SunkAreUnder ==
  \A l \in Leaves : rep[l] = OCEAN => \E d \in Labels : l \in LeavesUnder[d] /\ deps[d].ocean_parent

\* Where the water lands; the depression it is said to overflow into exists.
LandsAt(d) ==
  deps[d].parent # NO_VALUE =>
    IF deps[d].ocean_parent THEN deps[d].geolink = deps[d].parent
    ELSE deps[d].odep \in Labels /\ deps[d].geolink \in LeavesUnder[deps[d].odep]

GeolinksLand == \A d \in Labels : LandsAt(d)

SpillInv ==
  /\ TreesInv /\ SetsInv
  /\ MembersAreUnder /\ UnderIsLand
  /\ VisitedAreLow /\ SpillsAtOutlets /\ SpillsOverLowestOutlet
  /\ MetasAreJoined /\ SunkAreJoined /\ SunkAreUnder
  /\ GeolinksLand

\* A step that gives the representatives W a parent, over the outlet o.
Spills(o, W) ==
  /\ Labels \subseteq Labels' /\ outlets' = outlets /\ todo' = todo \ {o}
  /\ W \subseteq Labels \ {OCEAN} /\ \A w \in W : rep[w] = w
  /\ \A d \in Labels : LeavesUnder'[d] = LeavesUnder[d]
  /\ \A d \in Labels : deps'[d].lchild = deps[d].lchild /\ deps'[d].rchild = deps[d].rchild
  /\ \A d \in Labels \ W :
       /\ deps'[d].parent = deps[d].parent /\ deps'[d].odep = deps[d].odep
       /\ deps'[d].geolink = deps[d].geolink /\ deps'[d].ocean_parent = deps[d].ocean_parent
       /\ deps'[d].out_cell = deps[d].out_cell /\ deps'[d].out_elev = deps[d].out_elev
  /\ \A w \in W : deps'[w].out_cell = o.out_cell /\ deps'[w].out_elev = o.out_elev
  /\ \A d \in Labels' \ Labels : d > NLeaf /\ deps'[d].parent = NO_VALUE

\* A link gives a parent to one representative, and what is below stays.
LEMMA LinkSpills ==
  ASSUME SpillInv, NEW o \in Lowest, NEW a \in LeafLabels, NEW b \in LeafLabels,
         LinkToOcean(o, a, b), TreesInv'
  PROVE  Spills(o, {rep[a]}) /\ Labels' = Labels
<1>1. TreesInv /\ rep[a] # OCEAN /\ outlets' = outlets /\ todo' = todo \ {o} /\ size' = size
  BY DEF SpillInv, LinkToOcean
<1>2. LinkWritesOnly(rep[a], b, o)
  BY <1>1, LinkWrites
<1>3. Descending(size, deps) /\ IsUnder(LeavesUnder, size, deps) /\ size \in Nat
  BY <1>1, UnderHolds DEF UnderDefined, Descending
<1>4. IsUnder(LeavesUnder', size, deps')
  BY <1>1, UnderHoldsNext DEF UnderDefined
<1>5. \A d \in Labels : deps'[d].lchild = deps[d].lchild /\ deps'[d].rchild = deps[d].rchild
  BY <1>2 DEF LinkWritesOnly
<1>6. \A d \in Labels : LeavesUnder'[d] = LeavesUnder[d]
  <2>1. SameChildren(size, deps, deps')
    BY <1>5 DEF SameChildren, Labels
  <2>2. AreUnder(LeavesUnder, size, deps, LeavesUnder', size, deps')
    BY <1>3, <1>4, <2>1 DEF AreUnder
  <2> QED BY <2>2, UnderAgrees DEF Labels
<1> QED BY <1>1, <1>2, <1>5, <1>6 DEF Spills, LinkWritesOnly

\* A merge gives a parent to two, and the new depression has the leaves of both.
LEMMA MergeSpills ==
  ASSUME SpillInv, NEW o \in Lowest, Merge(o), TreesInv'
  PROVE  /\ Spills(o, {rep[o.depa], rep[o.depb]})
         /\ LeavesUnder'[size] = LeavesUnder[rep[o.depa]] \cup LeavesUnder[rep[o.depb]]
<1> DEFINE a == rep[o.depa]
           b == rep[o.depb]
<1>1. TreesInv /\ outlets' = outlets /\ todo' = todo \ {o} /\ size' = size + 1
  BY DEF SpillInv, Merge
<1>2. /\ Labels' = Labels \cup {size} /\ size \notin Labels
      /\ a \in Labels \ {OCEAN} /\ b \in Labels \ {OCEAN} /\ a # b
      /\ rep[a] = a /\ rep[b] = b
      /\ \A l \in Labels : l \notin {a, b} => deps'[l] = deps[l]
      /\ \A l \in {a, b} :
           /\ deps'[l].parent = size /\ deps'[l].out_cell = o.out_cell
           /\ deps'[l].out_elev = o.out_elev
           /\ deps'[l].lchild = deps[l].lchild /\ deps'[l].rchild = deps[l].rchild
      /\ deps'[size].parent = NO_VALUE
      /\ deps'[size].lchild = a /\ deps'[size].rchild = b
  BY <1>1, MergeWrites
<1> HIDE DEF a, b
<1>3. Descending(size, deps) /\ IsUnder(LeavesUnder, size, deps) /\ size \in Nat /\ NLeaf < size
  BY <1>1, UnderHolds, TreeFacts DEF UnderDefined
<1>4. IsUnder(LeavesUnder', size + 1, deps')
  BY <1>1, UnderHoldsNext DEF UnderDefined
<1>5. \A d \in Labels : deps'[d].lchild = deps[d].lchild /\ deps'[d].rchild = deps[d].rchild
  BY <1>2
<1>6. \A d \in Labels : LeavesUnder'[d] = LeavesUnder[d]
  <2>1. size + 1 \in Nat /\ size <= size + 1
    BY <1>3
  <2>2. SameChildren(size, deps, deps')
    BY <1>5 DEF SameChildren, Labels
  <2>3. AreUnder(LeavesUnder, size, deps, LeavesUnder', size + 1, deps')
    BY <1>3, <1>4, <2>1, <2>2 DEF AreUnder
  <2> QED BY <2>3, UnderAgrees DEF Labels
<1>7. LeavesUnder'[size] = LeavesUnder[a] \cup LeavesUnder[b]
  <2>1. size \in 0 .. (size + 1) - 1
    BY <1>3
  <2>2. a # NO_VALUE
    BY <1>1, <1>2, TreeFacts
  <2>3. LeavesUnder'[size] = LeavesUnder'[a] \cup LeavesUnder'[b]
    BY <1>2, <1>4, <2>1, <2>2 DEF IsUnder
  <2> QED BY <1>2, <1>6, <2>3
<1>8. Spills(o, {a, b})
  <2>1. \A d \in Labels' \ Labels : d = size
    BY <1>2
  <2>2. \A d \in Labels' \ Labels : d > NLeaf /\ deps'[d].parent = NO_VALUE
    BY <1>2, <1>3, <2>1
  <2> QED BY <1>1, <1>2, <1>5, <1>6, <2>2 DEF Spills
<1> QED BY <1>7, <1>8 DEF a, b

\* A round that skips writes nothing.
LEMMA SkipSpills ==
  ASSUME SpillInv, NEW o \in Lowest, Skip(o)
  PROVE  Spills(o, {}) /\ Labels' = Labels
<1>1. size' = size /\ deps' = deps /\ outlets' = outlets /\ todo' = todo \ {o}
  BY DEF Skip
<1>2. LeavesUnder' = LeavesUnder
  BY <1>1 DEF LeavesUnder, Labels
<1>3. Labels' = Labels
  BY <1>1 DEF Labels
<1> QED BY <1>1, <1>2, <1>3 DEF Spills

\* The outlet visited next is lowest, and of the lowest ones that of the lowest cell.
LEMMA LowestIsFirst ==
  ASSUME TypeOK, NEW o \in Lowest, NEW p \in todo
  PROVE  o.out_elev < p.out_elev \/ (o.out_elev = p.out_elev /\ o.out_cell <= p.out_cell)
<1>1. o \in Outlet /\ p \in Outlet
  BY DEF Lowest, TypeOK
<1>2. /\ o.out_elev \in Int /\ p.out_elev \in Int /\ o.out_cell \in Nat /\ p.out_cell \in Nat
  BY <1>1, OutletFacts, CellAssumption
<1>3. ~ (p.out_elev < o.out_elev) /\ ~ (p.out_elev = o.out_elev /\ p.out_cell < o.out_cell)
  BY DEF Lowest, Before
<1> QED BY <1>2, <1>3

\* Who gets a parent spills over the outlet being visited.  An outlet that leads out
\* of it was not visited, since a visit would have joined its ends: it is no lower.
LEMMA SpillsKeepOutlets ==
  ASSUME SpillInv, NEW o \in Lowest, NEW W, Spills(o, W)
  PROVE  VisitedAreLow' /\ SpillsAtOutlets' /\ SpillsOverLowestOutlet'
<1>1. TypeOK /\ o \in Outlet /\ o \in todo /\ todo \subseteq outlets /\ outlets \subseteq Outlet
  BY LowestIsLow DEF SpillInv, TreesInv, SinkInv, OpenInv, TypeOK
<1>2. \A d \in Labels' : deps'[d].parent # NO_VALUE => d \in Labels
  BY DEF Spills
<1>3. VisitedAreLow'
  <2>1. Visited' = Visited \cup {o} /\ todo' \subseteq todo
    BY <1>1 DEF Spills, Visited
  <2>2. \A p \in todo : o.out_elev <= p.out_elev
    BY <1>1, LowestIsLow
  <2> QED BY <2>1, <2>2 DEF SpillInv, VisitedAreLow
<1>4. SpillsAtOutlets'
  <2>1. o.out_elev \in Elevations
    BY <1>1 DEF Outlet
  <2>2. ASSUME NEW d \in Labels', deps'[d].parent # NO_VALUE PROVE deps'[d].out_elev \in Elevations
    <3>1. CASE d \in W
      BY <2>1, <3>1 DEF Spills
    <3>2. CASE d \notin W
      BY <1>2, <2>2, <3>2 DEF Spills, SpillInv, SpillsAtOutlets
    <3> QED BY <3>1, <3>2
  <2> QED BY <2>2 DEF SpillsAtOutlets, Elevations
<1>5. ASSUME NEW d \in Labels', deps'[d].parent # NO_VALUE, NEW p \in outlets,
             (p.depa \in LeavesUnder[d]) # (p.depb \in LeavesUnder[d])
      PROVE  \/ deps'[d].out_elev < p.out_elev
             \/ deps'[d].out_elev = p.out_elev /\ deps'[d].out_cell <= p.out_cell
  <2>1. CASE d \in W
    <3>1. d \in Labels /\ rep[d] = d /\ d # OCEAN /\ deps'[d].out_elev = o.out_elev /\ deps'[d].out_cell = o.out_cell
      BY <2>1 DEF Spills
    <3>2. LeavesUnder[d] = {l \in LeafLabels : rep[l] = d}
      BY <3>1 DEF SpillInv, MembersAreUnder
    <3>3. p.depa \in LeafLabels /\ p.depb \in LeafLabels
      BY <1>1, OutletFacts
    <3>4. p \notin Visited
      BY <1>5, <3>2, <3>3 DEF SpillInv, SetsInv, VisitedAreJoined
    <3>5. p \in todo
      BY <3>4 DEF Visited
    <3> QED BY <1>1, <3>1, <3>5, LowestIsFirst
  <2>2. CASE d \notin W
    <3>1. /\ d \in Labels /\ deps'[d].out_elev = deps[d].out_elev /\ deps'[d].out_cell = deps[d].out_cell
          /\ deps[d].parent # NO_VALUE
      BY <1>2, <1>5, <2>2 DEF Spills
    <3> QED BY <1>5, <3>1 DEF SpillInv, SpillsOverLowestOutlet
  <2> QED BY <2>1, <2>2
<1>6. SpillsOverLowestOutlet'
  <2>1. \A d \in Labels : LeavesUnder'[d] = LeavesUnder[d]
    BY DEF Spills
  <2>2. outlets' = outlets
    BY DEF Spills
  <2> QED BY <1>2, <1>5, <2>1, <2>2 DEF SpillsOverLowestOutlet
<1> QED BY <1>3, <1>4, <1>6

\* Who is joined stays joined.
LEMMA SpillsKeepJoins ==
  ASSUME SpillInv, NEW o \in Lowest, NEW W, Spills(o, W)
  PROVE  /\ \A d \in Labels : d > NLeaf => JoinedAt(d)'
         /\ \A d \in Labels \ W : deps[d].ocean_parent => SunkAt(d)'
<1>1. \A e : OutletsUpTo(e)' = OutletsUpTo(e)
  BY DEF Spills, OutletsUpTo
<1>2. \A d \in Labels : LeavesUnder'[d] = LeavesUnder[d]
  BY DEF Spills
<1>3. ASSUME NEW d \in Labels, d > NLeaf PROVE JoinedAt(d)'
  <2> DEFINE l == deps[d].lchild
             r == deps[d].rchild
  <2>1. TreesInv /\ l \in Labels /\ r \in Labels /\ rep[l] # l
    BY <1>3, ChildrenAreClosed DEF SpillInv
  <2>2. l \notin W /\ deps'[d].lchild = l /\ deps'[d].rchild = r
    BY <2>1 DEF Spills
  <2>3. deps'[l].out_elev = deps[l].out_elev
    BY <2>1, <2>2 DEF Spills
  <2>4. /\ LeavesUnder[l] \cap LeavesUnder[r] = {}
        /\ \A a, b \in LeavesUnder[d] : Connected(a, b, OutletsUpTo(deps[l].out_elev))
    BY <1>3 DEF SpillInv, MetasAreJoined, JoinedAt
  <2> HIDE DEF l, r
  <2>5. PICK i, j, e : i = l /\ j = r /\ e = deps[l].out_elev
    OBVIOUS
  <2>6. /\ LeavesUnder'[i] \cap LeavesUnder'[j] = {}
        /\ \A a, b \in LeavesUnder'[d] : Connected(a, b, OutletsUpTo(e)')
    BY <1>1, <1>2, <2>1, <2>4, <2>5
  <2>7. deps'[d].lchild = i /\ deps'[d].rchild = j /\ deps'[i].out_elev = e
    BY <2>2, <2>3, <2>5
  <2> QED BY <2>6, <2>7 DEF JoinedAt, OutletsUpTo
<1>4. ASSUME NEW d \in Labels \ W, deps[d].ocean_parent PROVE SunkAt(d)'
  <2>1. deps'[d].out_elev = deps[d].out_elev
    BY DEF Spills
  <2>2. \A l \in LeavesUnder[d] : Connected(l, OCEAN, OutletsUpTo(deps[d].out_elev))
    BY <1>4 DEF SpillInv, SunkAreJoined, SunkAt
  <2> QED BY <1>1, <1>2, <2>1, <2>2 DEF SunkAt
<1> QED BY <1>3, <1>4

\* The sets are the components after the step.
LEMMA ComponentsHoldNext == SetsInv' => SetsAreComponents'
BY ComponentsHold, PTL

\* More outlets disconnect nothing.
LEMMA ConnectedMore ==
  ASSUME NEW S, NEW T, S \subseteq T, NEW a, NEW b, Connected(a, b, S)
  PROVE  Connected(a, b, T)
BY DEF Connected

\* What the union-find has joined is joined by outlets no higher than the one just
\* visited.
LEMMA JoinedByLow ==
  ASSUME SpillInv, NEW o \in Lowest, Visit(o), NEW a \in LeafLabels, NEW b \in LeafLabels,
         rep'[a] = rep'[b]
  PROVE  Connected(a, b, OutletsUpTo(o.out_elev))
<1>1. TypeOK /\ OpenInv /\ o \in todo /\ o \in Outlet /\ todo \subseteq outlets
  BY LowestIsLow DEF SpillInv, SetsInv, OpenInv, TypeOK
<1>2. SetsAreComponents'
  <2>1. SetsInv'
    BY SetsNext DEF SpillInv, Next
  <2> QED BY <2>1, ComponentsHoldNext
<1>3. Connected(a, b, Visited')
  BY <1>2 DEF SetsAreComponents, Visited
<1>4. Visited' = Visited \cup {o}
  BY <1>1, VisitJoinsEnds
<1>5. \A p \in Visited : p.out_elev <= o.out_elev
  BY <1>1 DEF SpillInv, VisitedAreLow
<1>6. o.out_elev <= o.out_elev
  BY <1>1, OutletFacts
<1>7. Visited' \subseteq OutletsUpTo(o.out_elev)
  BY <1>1, <1>4, <1>5, <1>6 DEF Visited, OutletsUpTo
<1> QED BY <1>3, <1>7, ConnectedMore

\* Where the water of the others lands stays.
LEMMA SpillsKeepLandings ==
  ASSUME SpillInv, NEW o \in Lowest, NEW W, Spills(o, W)
  PROVE  \A d \in Labels' \ W : LandsAt(d)'
<1>1. ASSUME NEW d \in Labels' \ W PROVE LandsAt(d)'
  <2>1. CASE d \notin Labels
    BY <2>1 DEF Spills, LandsAt
  <2>2. CASE d \in Labels
    <3>1. /\ deps'[d].parent = deps[d].parent /\ deps'[d].odep = deps[d].odep
          /\ deps'[d].geolink = deps[d].geolink /\ deps'[d].ocean_parent = deps[d].ocean_parent
      BY <2>2 DEF Spills
    <3>2. LandsAt(d)
      BY <2>2 DEF SpillInv, GeolinksLand
    <3>3. Labels \subseteq Labels' /\ \A e \in Labels : LeavesUnder'[e] = LeavesUnder[e]
      BY DEF Spills
    <3> QED BY <3>1, <3>2, <3>3 DEF LandsAt
  <2> QED BY <2>1, <2>2
<1> QED BY <1>1

\* A round that skips.
LEMMA SkipKeepsSpills ==
  ASSUME SpillInv, NEW o \in Lowest, Skip(o), TreesInv', SetsInv'
  PROVE  SpillInv'
<1>1. Spills(o, {}) /\ Labels' = Labels /\ deps' = deps /\ rep' = rep
  BY SkipSpills DEF Skip
<1>2. VisitedAreLow' /\ SpillsAtOutlets' /\ SpillsOverLowestOutlet'
  BY <1>1, SpillsKeepOutlets
<1>3. \A d \in Labels : LeavesUnder'[d] = LeavesUnder[d]
  BY <1>1 DEF Spills
<1>4. GeolinksLand'
  <2>1. \A d \in Labels' : LandsAt(d)'
    BY <1>1, SpillsKeepLandings
  <2> QED BY <2>1 DEF GeolinksLand
<1>5. MetasAreJoined' /\ SunkAreJoined'
  <2>1. /\ \A d \in Labels : d > NLeaf => JoinedAt(d)'
        /\ \A d \in Labels : deps[d].ocean_parent => SunkAt(d)'
    BY <1>1, SpillsKeepJoins
  <2> QED BY <1>1, <2>1 DEF MetasAreJoined, SunkAreJoined
<1>6. MembersAreUnder' /\ UnderIsLand'
  BY <1>1, <1>3 DEF SpillInv, MembersAreUnder, UnderIsLand
<1>7. SunkAreUnder'
  BY <1>1, <1>3 DEF SpillInv, SunkAreUnder
<1> QED BY <1>2, <1>4, <1>5, <1>6, <1>7 DEF SpillInv

\* A link to the ocean.
LEMMA LinkKeepsSpills ==
  ASSUME SpillInv, NEW o \in Lowest, Visit(o), NEW a \in LeafLabels, NEW b \in LeafLabels,
         LinkToOcean(o, a, b), TreesInv', SetsInv'
  PROVE  SpillInv'
<1>0. PICK r : r = rep[a]
  OBVIOUS
<1>1. Spills(o, {r}) /\ Labels' = Labels
  BY <1>0, LinkSpills
<1>2. VisitedAreLow' /\ SpillsAtOutlets' /\ SpillsOverLowestOutlet'
  BY <1>1, SpillsKeepOutlets
<1>3. \A d \in Labels : LeavesUnder'[d] = LeavesUnder[d]
  BY <1>1 DEF Spills
<1>4. /\ deps'[r].parent = b /\ deps'[r].ocean_parent = TRUE /\ deps'[r].geolink = b
      /\ deps'[r].out_elev = o.out_elev
      /\ r \in Labels /\ rep[r] = r
      /\ \A d \in Labels : d # r => deps'[d].ocean_parent = deps[d].ocean_parent
  <2>1. LinkWritesOnly(r, b, o)
    BY <1>0, LinkWrites DEF SpillInv
  <2> QED BY <2>1 DEF LinkWritesOnly
<1>5. /\ r # OCEAN /\ OCEAN \in LeafLabels /\ LeafLabels \subseteq Labels
      /\ Leaves \subseteq LeafLabels /\ rep[OCEAN] = OCEAN
      /\ rep' = [i \in Labels |-> IF rep[i] = r THEN OCEAN ELSE rep[i]]
  <2>1. TypeOK /\ rep[OCEAN] = OCEAN
    BY DEF SpillInv, SetsInv, OpenInv
  <2>2. OCEAN \in LeafLabels /\ Leaves \subseteq LeafLabels
    BY LeafAssumption DEF OCEAN, LeafLabels, Leaves
  <2>3. LeafLabels \subseteq Labels
    BY <2>1, LabelFacts
  <2>4. r # OCEAN
    BY <1>0 DEF LinkToOcean
  <2>5. rep' = [i \in Labels |-> IF rep[i] = rep[a] THEN OCEAN ELSE rep[i]]
    BY <2>1, RepAfterLink
  <2> QED BY <1>0, <2>1, <2>2, <2>3, <2>4, <2>5
<1>6. LeavesUnder[r] = {l \in LeafLabels : rep[l] = r}
  BY <1>4, <1>5 DEF SpillInv, MembersAreUnder
<1>7. GeolinksLand'
  <2>1. LandsAt(r)'
    BY <1>4 DEF LandsAt
  <2>2. \A d \in Labels' \ {r} : LandsAt(d)'
    BY <1>1, SpillsKeepLandings
  <2> QED BY <2>1, <2>2 DEF GeolinksLand
<1>8. MetasAreJoined' /\ SunkAreJoined'
  <2>1. /\ \A d \in Labels : d > NLeaf => JoinedAt(d)'
        /\ \A d \in Labels \ {r} : deps[d].ocean_parent => SunkAt(d)'
    BY <1>1, SpillsKeepJoins
  <2>2. SunkAt(r)'
    <3>1. PICK e : e = o.out_elev
      OBVIOUS
    <3>2. ASSUME NEW l \in LeavesUnder'[r] PROVE Connected(l, OCEAN, OutletsUpTo(e)')
      <4>1. l \in LeafLabels /\ rep[l] = r
        BY <1>3, <1>4, <1>6
      <4>2. rep'[l] = rep'[OCEAN]
        BY <1>5, <4>1
      <4>3. Connected(l, OCEAN, OutletsUpTo(e))
        BY <1>5, <3>1, <4>1, <4>2, JoinedByLow
      <4>4. OutletsUpTo(e)' = OutletsUpTo(e)
        BY <1>1 DEF OutletsUpTo, Spills
      <4> QED BY <4>3, <4>4
    <3> QED BY <1>4, <3>1, <3>2 DEF SunkAt, OutletsUpTo
  <2> QED BY <1>1, <1>4, <2>1, <2>2 DEF MetasAreJoined, SunkAreJoined
<1>9. MembersAreUnder'
  <2>1. ASSUME NEW d \in Labels, rep'[d] = d, d # OCEAN
        PROVE  LeavesUnder'[d] = {l \in LeafLabels : rep'[l] = d}
    <3>1. rep[d] = d /\ d # r
      BY <1>5, <2>1
    <3>2. LeavesUnder[d] = {l \in LeafLabels : rep[l] = d}
      BY <2>1, <3>1 DEF SpillInv, MembersAreUnder
    <3>3. \A l \in LeafLabels : rep'[l] = d <=> rep[l] = d
      BY <1>5, <2>1, <3>1
    <3> QED BY <1>3, <3>2, <3>3
  <2> QED BY <1>1, <2>1 DEF MembersAreUnder, LeafLabels
<1>10. UnderIsLand'
  BY <1>1, <1>3 DEF SpillInv, UnderIsLand
<1>11. SunkAreUnder'
  <2>1. ASSUME NEW l \in Leaves, rep'[l] = OCEAN
        PROVE  \E d \in Labels : l \in LeavesUnder'[d] /\ deps'[d].ocean_parent
    <3>1. l \in LeafLabels /\ l \in Labels
      BY <1>5
    <3>2. CASE rep[l] = r
      BY <1>3, <1>4, <1>6, <3>1, <3>2
    <3>3. CASE rep[l] # r
      <4>1. rep[l] = OCEAN
        BY <1>5, <2>1, <3>1, <3>3
      <4>2. PICK d \in Labels : l \in LeavesUnder[d] /\ deps[d].ocean_parent
        BY <4>1 DEF SpillInv, SunkAreUnder
      <4>3. deps'[d].ocean_parent
        BY <1>4, <4>2
      <4> QED BY <1>3, <4>2, <4>3
    <3> QED BY <3>2, <3>3
  <2> QED BY <1>1, <2>1 DEF SunkAreUnder
<1> QED BY <1>2, <1>7, <1>8, <1>9, <1>10, <1>11 DEF SpillInv

\* A merge.
LEMMA MergeKeepsSpills ==
  ASSUME SpillInv, NEW o \in Lowest, Visit(o), Merge(o), TreesInv', SetsInv'
  PROVE  SpillInv'
<1>0. PICK a, b, n : a = rep[o.depa] /\ b = rep[o.depb] /\ n = size
  OBVIOUS
<1>1. Spills(o, {a, b}) /\ LeavesUnder'[n] = LeavesUnder[a] \cup LeavesUnder[b]
  BY <1>0, MergeSpills
<1>2. VisitedAreLow' /\ SpillsAtOutlets' /\ SpillsOverLowestOutlet'
  BY <1>1, SpillsKeepOutlets
<1>3. \A d \in Labels : LeavesUnder'[d] = LeavesUnder[d]
  BY <1>1 DEF Spills
<1>4. /\ Labels' = Labels \cup {n} /\ n \notin Labels
      /\ a \in Labels \ {OCEAN} /\ b \in Labels \ {OCEAN} /\ a # b
      /\ rep[a] = a /\ rep[b] = b
      /\ \A l \in Labels : l \notin {a, b} => deps'[l] = deps[l]
      /\ \A l \in {a, b} :
           /\ deps'[l].parent = n /\ deps'[l].out_elev = o.out_elev
           /\ deps'[l].ocean_parent = deps[l].ocean_parent
      /\ deps'[a].odep = b /\ deps'[b].odep = a
      /\ deps'[a].geolink = o.depb /\ deps'[b].geolink = o.depa
      /\ deps'[n].parent = NO_VALUE
      /\ deps'[n].lchild = a /\ deps'[n].rchild = b
      /\ ~ deps'[n].ocean_parent
  BY <1>0, MergeWrites DEF SpillInv
<1>5. /\ TypeOK /\ o \in Outlet /\ o.depa \in LeafLabels /\ o.depb \in LeafLabels
      /\ rep \in [Labels -> Labels] /\ rep'[n] = n
      /\ \A i \in Labels : rep'[i] = IF rep[i] = a \/ rep[i] = b THEN n ELSE rep[i]
      /\ LeafLabels \subseteq Labels /\ OCEAN \in Labels
  <2>1. TypeOK
    BY DEF SpillInv, SetsInv, OpenInv
  <2>2. o \in Outlet
    BY <2>1, LowestIsLow
  <2>3. rep \in [Labels -> Labels]
    BY <2>1 DEF TypeOK
  <2> QED BY <1>0, <2>1, <2>2, <2>3, RepAfterMerge, LabelFacts, OutletFacts
<1>6. rep[o.depa] = a /\ rep[o.depb] = b
  BY <1>0
<1>7. /\ LeavesUnder[a] = {l \in LeafLabels : rep[l] = a}
      /\ LeavesUnder[b] = {l \in LeafLabels : rep[l] = b}
  BY <1>4 DEF SpillInv, MembersAreUnder
<1>8. ~ deps[a].ocean_parent /\ ~ deps[b].ocean_parent
  BY <1>4, TreeFacts DEF SpillInv, TreesInv, LinkedHaveParents
<1>9. GeolinksLand'
  <2>1. LandsAt(a)' /\ LandsAt(b)'
    <3>1. o.depb \in LeavesUnder'[b] /\ o.depa \in LeavesUnder'[a]
      BY <1>3, <1>4, <1>5, <1>6, <1>7
    <3> QED BY <1>4, <1>8, <3>1 DEF LandsAt
  <2>2. \A d \in Labels' \ {a, b} : LandsAt(d)'
    BY <1>1, SpillsKeepLandings
  <2> QED BY <2>1, <2>2 DEF GeolinksLand
<1>10. JoinedAt(n)'
  <2>1. PICK e : e = o.out_elev
    OBVIOUS
  <2>2. LeavesUnder'[a] \cap LeavesUnder'[b] = {}
    BY <1>3, <1>4, <1>7
  <2>3. ASSUME NEW x \in LeavesUnder'[n], NEW y \in LeavesUnder'[n]
        PROVE  Connected(x, y, OutletsUpTo(e)')
    <3>1. x \in LeafLabels /\ y \in LeafLabels /\ rep'[x] = rep'[y]
      BY <1>1, <1>5, <1>7
    <3>2. Connected(x, y, OutletsUpTo(e))
      BY <2>1, <3>1, JoinedByLow
    <3>3. OutletsUpTo(e)' = OutletsUpTo(e)
      BY <1>1 DEF OutletsUpTo, Spills
    <3> QED BY <3>2, <3>3
  <2>4. deps'[n].lchild = a /\ deps'[n].rchild = b /\ deps'[a].out_elev = e
    BY <1>4, <2>1
  <2> QED BY <2>2, <2>3, <2>4 DEF JoinedAt, OutletsUpTo
<1>11. MetasAreJoined' /\ SunkAreJoined'
  <2>1. /\ \A d \in Labels : d > NLeaf => JoinedAt(d)'
        /\ \A d \in Labels \ {a, b} : deps[d].ocean_parent => SunkAt(d)'
    BY <1>1, SpillsKeepJoins
  <2> QED BY <1>4, <1>8, <1>10, <2>1 DEF MetasAreJoined, SunkAreJoined
<1>12. MembersAreUnder'
  <2>1. ASSUME NEW d \in Labels', rep'[d] = d, d # OCEAN
        PROVE  LeavesUnder'[d] = {l \in LeafLabels : rep'[l] = d}
    <3>1. CASE d = n
      <4>1. \A l \in LeafLabels : rep'[l] = n <=> rep[l] = a \/ rep[l] = b
        BY <1>4, <1>5
      <4> QED BY <1>1, <1>7, <3>1, <4>1
    <3>2. CASE d \in Labels
      <4>1. rep[d] = d /\ d # a /\ d # b /\ d # n
        BY <1>4, <1>5, <2>1, <3>2
      <4>2. LeavesUnder[d] = {l \in LeafLabels : rep[l] = d}
        BY <2>1, <3>2, <4>1 DEF SpillInv, MembersAreUnder
      <4>3. \A l \in LeafLabels : rep'[l] = d <=> rep[l] = d
        BY <1>5, <4>1
      <4> QED BY <1>3, <3>2, <4>2, <4>3
    <3> QED BY <1>4, <3>1, <3>2
  <2> QED BY <2>1 DEF MembersAreUnder, LeafLabels
<1>13. UnderIsLand'
  <2>1. \A d \in Labels \ {OCEAN} : LeavesUnder'[d] \subseteq Leaves
    BY <1>3 DEF SpillInv, UnderIsLand
  <2>2. LeavesUnder'[n] \subseteq Leaves
    BY <1>1, <1>4 DEF SpillInv, UnderIsLand
  <2> QED BY <1>4, <2>1, <2>2 DEF UnderIsLand
<1>14. SunkAreUnder'
  <2>1. ASSUME NEW l \in Leaves, rep'[l] = OCEAN
        PROVE  \E d \in Labels' : l \in LeavesUnder'[d] /\ deps'[d].ocean_parent
    <3>1. l \in Labels
      BY <1>5, LeafAssumption DEF Leaves, LeafLabels
    <3>2. rep[l] = OCEAN
      BY <1>4, <1>5, <2>1, <3>1
    <3>3. PICK d \in Labels : l \in LeavesUnder[d] /\ deps[d].ocean_parent
      BY <3>2 DEF SpillInv, SunkAreUnder
    <3>4. deps'[d].ocean_parent
      BY <1>4, <3>3
    <3> QED BY <1>3, <1>4, <3>3, <3>4
  <2> QED BY <2>1 DEF SunkAreUnder
<1> QED BY <1>2, <1>9, <1>11, <1>12, <1>13, <1>14 DEF SpillInv

\* Leaves stand for themselves and nothing has a parent.
LEMMA SpillInit == Init => SpillInv
<1> SUFFICES ASSUME Init PROVE SpillInv
  OBVIOUS
<1>1. TreesInv /\ SetsInv
  BY TreesInit, SetsInit
<1>2. Labels = LeafLabels /\ \A l \in LeafLabels : rep[l] = l
  BY LeafAssumption DEF Init, Labels, LeafLabels, Singletons
<1>3. ASSUME NEW d \in Labels
      PROVE  deps[d].parent = NO_VALUE /\ deps[d].lchild = NO_VALUE /\ ~ deps[d].ocean_parent
  <2>1. deps[d] = IF d = OCEAN THEN OceanDepression ELSE LeafDepression(d)
    BY <1>2 DEF Init, LeafVector
  <2> QED BY <2>1 DEF OceanDepression, LeafDepression, NewDepression
<1>4. \A d \in Labels : LeavesUnder[d] = {d}
  <2>1. IsUnder(LeavesUnder, size, deps)
    BY <1>1, UnderHolds DEF UnderDefined
  <2> QED BY <1>3, <2>1 DEF IsUnder, Labels
<1>5. \A d \in Labels : d \in Nat /\ d <= NLeaf /\ (d # OCEAN => d \in Leaves)
  BY <1>2, LeafAssumption DEF LeafLabels, Leaves, OCEAN
<1>6. MembersAreUnder /\ UnderIsLand
  BY <1>2, <1>4, <1>5 DEF MembersAreUnder, UnderIsLand
<1>7. VisitedAreLow
  BY DEF Init, Visited, VisitedAreLow
<1>8. SpillsAtOutlets /\ SpillsOverLowestOutlet /\ GeolinksLand
  BY <1>3 DEF SpillsAtOutlets, SpillsOverLowestOutlet, GeolinksLand, LandsAt
<1>9. MetasAreJoined
  <2>1. \A d \in Labels : ~ (d > NLeaf)
    BY <1>5, LeafAssumption
  <2> QED BY <2>1 DEF MetasAreJoined
<1>10. SunkAreJoined
  BY <1>3 DEF SunkAreJoined
<1>11. SunkAreUnder
  <2>1. \A l \in Leaves : l \in LeafLabels /\ l # OCEAN
    BY LeafAssumption DEF Leaves, LeafLabels, OCEAN
  <2> QED BY <1>2, <2>1 DEF SunkAreUnder
<1> QED BY <1>1, <1>6, <1>7, <1>8, <1>9, <1>10, <1>11 DEF SpillInv

\* The invariant after a step.
LEMMA SpillNext == SpillInv /\ [Next]_vars => SpillInv'
<1> SUFFICES ASSUME SpillInv, [Next]_vars PROVE SpillInv'
  OBVIOUS
<1>1. TreesInv' /\ SetsInv'
  BY TreesNext, SetsNext DEF SpillInv
<1>2. CASE UNCHANGED vars
  <2>1. LeavesUnder' = LeavesUnder /\ Labels' = Labels /\ Visited' = Visited
    BY <1>2 DEF vars, LeavesUnder, Labels, Visited
  <2>2. deps' = deps /\ rep' = rep /\ outlets' = outlets /\ todo' = todo
    BY <1>2 DEF vars
  <2>3. MembersAreUnder' /\ UnderIsLand' /\ SunkAreUnder'
    BY <2>1, <2>2 DEF SpillInv, MembersAreUnder, UnderIsLand, SunkAreUnder
  <2>4. VisitedAreLow' /\ SpillsAtOutlets' /\ SpillsOverLowestOutlet'
    BY <2>1, <2>2 DEF SpillInv, VisitedAreLow, SpillsAtOutlets, SpillsOverLowestOutlet
  <2>5. MetasAreJoined' /\ SunkAreJoined'
    BY <2>1, <2>2 DEF SpillInv, MetasAreJoined, SunkAreJoined, JoinedAt, SunkAt, OutletsUpTo
  <2>6. GeolinksLand'
    BY <2>1, <2>2 DEF SpillInv, GeolinksLand, LandsAt
  <2> QED BY <1>1, <2>3, <2>4, <2>5, <2>6 DEF SpillInv
<1>3. ASSUME NEW o \in Lowest, Visit(o) PROVE SpillInv'
  <2>1. o.depa \in LeafLabels /\ o.depb \in LeafLabels
    BY LowestIsLow, OutletFacts DEF SpillInv, SetsInv, OpenInv
  <2>2. CASE Skip(o)
    BY <1>1, <2>2, SkipKeepsSpills
  <2>3. CASE LinkToOcean(o, o.depa, o.depb)
    BY <1>1, <1>3, <2>1, <2>3, LinkKeepsSpills
  <2>4. CASE LinkToOcean(o, o.depb, o.depa)
    BY <1>1, <1>3, <2>1, <2>4, LinkKeepsSpills
  <2>5. CASE Merge(o)
    BY <1>1, <1>3, <2>5, MergeKeepsSpills
  <2> QED BY <1>3, <2>2, <2>3, <2>4, <2>5 DEF Visit
<1> QED BY <1>2, <1>3 DEF Next

\* What the outlets join at e, and at nothing lower, passes at e.
LEMMA PassIs ==
  ASSUME NEW a, NEW b, NEW e \in Elevations, Connected(a, b, OutletsUpTo(e)),
         \A f \in Elevations : Connected(a, b, OutletsUpTo(f)) => e <= f
  PROVE  PassElevation(a, b) = e
<1> DEFINE joins == {f \in Elevations : Connected(a, b, OutletsUpTo(f))}
<1>1. Elevations \subseteq Int
  BY CellAssumption DEF Elevations
<1>2. e \in joins /\ \A f \in joins : e <= f
  OBVIOUS
<1>3. PassElevation(a, b) = IF joins = {} THEN INF ELSE CHOOSE f \in joins : \A g \in joins : f <= g
  BY DEF PassElevation, OutletsUpTo
<1>4. joins \subseteq Int
  BY <1>1
<1> HIDE DEF joins
<1>5. ASSUME NEW f \in joins, \A g \in joins : f <= g PROVE f = e
  <2>1. f <= e /\ e <= f /\ f \in Int /\ e \in Int
    BY <1>2, <1>4, <1>5
  <2> QED BY <2>1
<1> QED BY <1>2, <1>3, <1>5

\* What leads out of a depression is no lower than where it spills, so whatever
\* joins a leaf below it to one that is not is no lower.
LEMMA OutIsHigh ==
  ASSUME SpillInv, NEW d \in Labels, d # OCEAN, deps[d].parent # NO_VALUE,
         NEW a \in LeavesUnder[d], NEW b \in LeafLabels, b \notin LeavesUnder[d],
         NEW f \in Elevations, Connected(a, b, OutletsUpTo(f))
  PROVE  deps[d].out_elev <= f
<1>1. LeavesUnder[d] \subseteq LeafLabels
  BY LeafAssumption DEF SpillInv, UnderIsLand, Leaves, LeafLabels
<1>2. a \in LeafLabels /\ a # b
  BY <1>1
<1>3. ~ Closed(LeavesUnder[d], OutletsUpTo(f))
  BY <1>1, <1>2, ConnectedMeansNoCut
<1>4. PICK o \in OutletsUpTo(f) : (o.depa \in LeavesUnder[d]) # (o.depb \in LeavesUnder[d])
  BY <1>3 DEF Closed
<1>5. o \in outlets /\ o.out_elev <= f
  BY <1>4 DEF OutletsUpTo
<1>6. deps[d].out_elev <= o.out_elev
  <2>1. deps[d].out_elev < o.out_elev \/ deps[d].out_elev = o.out_elev
    BY <1>4, <1>5 DEF SpillInv, SpillsOverLowestOutlet
  <2>2. deps[d].out_elev \in Int /\ o.out_elev \in Int
    <3>1. deps[d].out_elev \in Elevations
      BY DEF SpillInv, SpillsAtOutlets
    <3>2. o \in Outlet
      BY <1>5 DEF SpillInv, SetsInv, OpenInv, TypeOK
    <3> QED BY <3>1, <3>2, OutletFacts, CellAssumption DEF Elevations
  <2> QED BY <2>1, <2>2
<1>7. deps[d].out_elev \in Int /\ o.out_elev \in Int /\ f \in Int
  <2>1. deps[d].out_elev \in Elevations
    BY DEF SpillInv, SpillsAtOutlets
  <2>2. o \in Outlet
    BY <1>5 DEF SpillInv, SetsInv, OpenInv, TypeOK
  <2>3. Elevations \subseteq Int
    BY CellAssumption DEF Elevations
  <2>4. o.out_elev \in Int
    BY <2>2, OutletFacts
  <2> QED BY <2>1, <2>3, <2>4
<1> QED BY <1>5, <1>6, <1>7

\* Two leaves below the two children of a meta-depression pass where these spill.
LEMMA SiblingsPass ==
  ASSUME SpillInv, NEW d \in Labels, d > NLeaf,
         NEW a \in LeavesUnder[deps[d].lchild], NEW b \in LeavesUnder[deps[d].rchild]
  PROVE  deps[deps[d].lchild].out_elev = PassElevation(a, b)
<1> DEFINE l == deps[d].lchild
           r == deps[d].rchild
<1>1. TreesInv /\ NO_VALUE \notin Labels /\ ChildrenAgree(d) /\ LeafShape(d) /\ NLeaf \in Nat
  BY TreeFacts, ForestParts DEF SpillInv, TreesInv
<1>2. l \in Labels /\ r \in Labels /\ l # OCEAN /\ r # OCEAN /\ deps[l].parent # NO_VALUE
  <2>1. l \in 1 .. d - 1 /\ r \in 1 .. d - 1 /\ deps[l].parent = d
    BY <1>1 DEF ChildrenAgree
  <2> QED BY <1>1, <2>1, TreeFacts
<1>3. LeavesUnder[d] = LeavesUnder[l] \cup LeavesUnder[r]
  <2>1. IsUnder(LeavesUnder, size, deps)
    BY <1>1, UnderHolds DEF UnderDefined
  <2>2. deps[d].lchild # NO_VALUE
    BY <1>1, <1>2
  <2> QED BY <2>1, <2>2 DEF IsUnder, Labels
<1>4. /\ LeavesUnder[l] \cap LeavesUnder[r] = {}
      /\ Connected(a, b, OutletsUpTo(deps[l].out_elev))
  <2>1. JoinedAt(d)
    BY DEF SpillInv, MetasAreJoined
  <2> QED BY <1>3, <2>1 DEF JoinedAt
<1>5. b \in LeafLabels /\ b \notin LeavesUnder[l] /\ deps[l].out_elev \in Elevations
  <2>1. b \in Leaves
    BY <1>2 DEF SpillInv, UnderIsLand
  <2> QED BY <1>2, <1>4, <2>1, LeafAssumption DEF Leaves, LeafLabels, SpillInv, SpillsAtOutlets
<1>6. \A f \in Elevations : Connected(a, b, OutletsUpTo(f)) => deps[l].out_elev <= f
  <2> HIDE DEF l
  <2> QED BY <1>2, <1>5, OutIsHigh DEF l
<1> QED BY <1>4, <1>5, <1>6, PassIs

\* A leaf below a depression that is linked to the ocean passes to it where that
\* spills.
LEMMA SunkPass ==
  ASSUME SpillInv, NEW d \in Labels, deps[d].ocean_parent, NEW l \in LeavesUnder[d]
  PROVE  deps[d].out_elev = PassElevation(l, OCEAN)
<1>1. deps[d].parent # NO_VALUE /\ d # OCEAN
  <2>1. deps[d].parent # NO_VALUE
    BY DEF SpillInv, TreesInv, LinkedHaveParents
  <2>2. rep[OCEAN] = OCEAN /\ RepresentativesAreOpen
    BY DEF SpillInv, SetsInv, OpenInv
  <2> QED BY <2>1, <2>2 DEF RepresentativesAreOpen
<1>2. Connected(l, OCEAN, OutletsUpTo(deps[d].out_elev))
  BY DEF SpillInv, SunkAreJoined, SunkAt
<1>3. OCEAN \in LeafLabels /\ OCEAN \notin LeavesUnder[d] /\ deps[d].out_elev \in Elevations
  BY <1>1, LeafAssumption DEF LeafLabels, Leaves, OCEAN, SpillInv, UnderIsLand, SpillsAtOutlets
<1>4. \A f \in Elevations : Connected(l, OCEAN, OutletsUpTo(f)) => deps[d].out_elev <= f
  BY <1>1, <1>3, OutIsHigh
<1> QED BY <1>2, <1>3, <1>4, PassIs

\* It says where the water leaves.
LEMMA SpillsHold == SpillInv => SpillElevations
<1> SUFFICES ASSUME SpillInv, todo = {} PROVE
      /\ \A l \in Leaves : OceanSpill(l) = PassElevation(l, OCEAN)
      /\ \A d \in Labels \ LeafLabels :
           \A a \in LeavesUnder[deps[d].lchild], b \in LeavesUnder[deps[d].rchild] :
             deps[deps[d].lchild].out_elev = PassElevation(a, b)
  BY DEF SpillElevations
<1>1. ASSUME NEW l \in Leaves PROVE OceanSpill(l) = PassElevation(l, OCEAN)
  <2> DEFINE tops == {d \in Labels : l \in LeavesUnder[d] /\ deps[d].ocean_parent}
  <2>1. OceanSpill(l) = IF tops = {} THEN INF ELSE deps[CHOOSE d \in tops : TRUE].out_elev
    BY DEF OceanSpill
  <2>2. CASE tops # {}
    <3>1. PICK d \in tops : d = CHOOSE e \in tops : TRUE
      BY <2>2
    <3>2. deps[d].out_elev = PassElevation(l, OCEAN)
      BY <3>1, SunkPass
    <3> HIDE DEF tops
    <3> QED BY <2>1, <2>2, <3>1, <3>2
  <2>3. CASE tops = {}
    <3>1. l \in LeafLabels /\ OCEAN \in LeafLabels
      BY LeafAssumption DEF LeafLabels, Leaves, OCEAN
    <3>2. rep[l] # OCEAN /\ rep[OCEAN] = OCEAN
      BY <2>3 DEF SpillInv, SunkAreUnder, SetsInv, OpenInv
    <3>3. ~ Connected(l, OCEAN, outlets \ todo)
      BY <3>1, <3>2, ComponentsHold DEF SpillInv, SetsAreComponents
    <3>4. \A e : OutletsUpTo(e) \subseteq outlets \ todo
      BY DEF OutletsUpTo
    <3>5. \A e : ~ Connected(l, OCEAN, OutletsUpTo(e))
      BY <3>3, <3>4, ConnectedMore
    <3>6. PassElevation(l, OCEAN) = INF
      BY <3>5 DEF PassElevation, OutletsUpTo
    <3> QED BY <2>1, <2>3, <3>6
  <2> QED BY <2>2, <2>3
<1>2. ASSUME NEW d \in Labels \ LeafLabels PROVE d > NLeaf
  BY TreeFacts DEF SpillInv, LeafLabels
<1> QED BY <1>1, <1>2, SiblingsPass

\* Once every outlet is visited, a depression spills to the ocean, and two that
\* share an ancestor into each other, at the lowest level any chain of outlets
\* allows; at every moment the outlet recorded is the lowest that leads out, and
\* of equally low ones the one with the lowest cell.
THEOREM SpillsFollowPasses == Spec => []SpillsAreLowest
<1>1. SpillInv => SpillsAreLowest
  BY SpillsHold DEF SpillInv, SpillsAreLowest
<1>2. QED
  BY <1>1, SpillInit, SpillNext, PTL DEF Spec

\* What runs over an outlet lands in a leaf of the depression it overflows into,
\* or in the leaf through which it is linked to the ocean.
THEOREM GeolinksLandInSiblings == Spec => []GeolinkLandsInSibling
<1>1. SpillInv => GeolinkLandsInSibling
  BY DEF SpillInv, GeolinksLand, LandsAt, GeolinkLandsInSibling
<1>2. QED
  BY <1>1, SpillInit, SpillNext, PTL DEF Spec

-----------------------------------------------------------------------------
(***************************************************************************)
(* Who walks up the parents, over ocean links as well as up a tree, passes *)
(* nothing twice: where the parent of a depression leads is a part of its  *)
(* set of the union-find that does not hold the depression.                *)
(***************************************************************************)
LeadsOn(d) ==
  \E S \in SUBSET (Labels \ {d}) :
    /\ deps[d].parent \in S
    /\ \A m \in S : rep[m] = rep[d] /\ (deps[m].parent = NO_VALUE \/ deps[m].parent \in S)

NothingComesBack == \A d \in Labels : deps[d].parent # NO_VALUE => LeadsOn(d)

\* Whoever has no parent speaks for its set.
OpenAreRepresentatives == \A d \in Labels : deps[d].parent = NO_VALUE => rep[d] = d

LeavesHaveNoChildren == \A d \in LeafLabels : deps[d].rchild = NO_VALUE

WalkInv ==
  /\ SpillInv
  /\ LeavesHaveNoChildren
  /\ OceanWalk
  /\ OpenAreRepresentatives
  /\ NothingComesBack

\* Nothing has a parent yet.
LEMMA WalkInit == Init => WalkInv
<1> SUFFICES ASSUME Init PROVE WalkInv
  OBVIOUS
<1>1. Labels = LeafLabels
  BY LeafAssumption DEF Init, Labels, LeafLabels
<1>2. ASSUME NEW l \in Labels PROVE /\ deps[l].parent = NO_VALUE /\ ~ deps[l].ocean_parent
                                      /\ deps[l].rchild = NO_VALUE
  <2>1. deps[l] = IF l = OCEAN THEN OceanDepression ELSE LeafDepression(l)
    BY <1>1 DEF Init, LeafVector
  <2> QED BY <2>1 DEF OceanDepression, LeafDepression, NewDepression
<1>3. \A l \in Labels : rep[l] = l
  BY <1>1 DEF Init, Singletons
<1> QED BY <1>1, <1>2, <1>3, SpillInit DEF WalkInv, OceanWalk, OpenAreRepresentatives, NothingComesBack,
                                    LeavesHaveNoChildren

\* A step that gives the representatives W the parent n: the sets of W become that of
\* n, which is either new or leads on within a set of its own.
Rises(W, n) ==
  /\ Labels' = Labels \cup {n} /\ W \subseteq Labels \ {n}
  /\ \A w \in W : rep[w] = w /\ deps'[w].parent = n
  /\ \A d \in Labels \ W : deps'[d].parent = deps[d].parent
  /\ n \in Labels => rep[n] \notin W
  /\ n \notin Labels => deps'[n].parent = NO_VALUE /\ rep'[n] = n
  /\ \A d \in Labels : rep'[d] = IF rep[d] \in W THEN rep'[n] ELSE rep[d]
  /\ rep'[n] \notin W

\* LinkToOcean gives the representative of the side that sinks a parent in the ocean's
\* set.
LEMMA LinkRises ==
  ASSUME TreesInv, NEW o \in Lowest, NEW a \in LeafLabels, NEW b \in LeafLabels, LinkToOcean(o, a, b)
  PROVE  Rises({rep[a]}, b)
<1>1. TypeOK /\ rep[OCEAN] = OCEAN
  BY DEF TreesInv, SinkInv, OpenInv
<1>2. /\ rep' = [i \in Labels |-> IF rep[i] = rep[a] THEN OCEAN ELSE rep[i]]
      /\ a \in Labels /\ b \in Labels /\ OCEAN \in Labels
  BY <1>1, RepAfterLink
<1>3. rep[a] # OCEAN /\ rep[b] = OCEAN
  BY DEF LinkToOcean
<1>4. LinkWritesOnly(rep[a], b, o)
  BY LinkWrites
<1>5. rep'[b] = OCEAN /\ rep[a] # b /\ rep[rep[a]] = rep[a] /\ rep[a] \in Labels
  BY <1>2, <1>3, <1>4 DEF LinkWritesOnly
<1>6. Labels' = Labels /\ deps'[rep[a]].parent = b /\ \A d \in Labels : d # rep[a] => deps'[d].parent = deps[d].parent
  BY <1>4 DEF LinkWritesOnly
<1> QED BY <1>2, <1>3, <1>5, <1>6 DEF Rises

\* Merge gives both representatives the new depression as their parent.
LEMMA MergeRises ==
  ASSUME TreesInv, NEW o \in Lowest, Merge(o)
  PROVE  Rises({rep[o.depa], rep[o.depb]}, size)
<1>1. TypeOK /\ o \in Outlet
  BY LowestIsLow DEF TreesInv, SinkInv, OpenInv
<1>2. /\ rep'[size] = size
      /\ \A i \in Labels :
           rep'[i] = IF rep[i] = rep[o.depa] \/ rep[i] = rep[o.depb] THEN size ELSE rep[i]
  BY <1>1, RepAfterMerge
<1> DEFINE a == rep[o.depa]
           b == rep[o.depb]
<1>3. /\ Labels' = Labels \cup {size} /\ size \notin Labels
      /\ a \in Labels /\ b \in Labels
      /\ rep[a] = a /\ rep[b] = b
      /\ \A l \in Labels : l \notin {a, b} => deps'[l] = deps[l]
      /\ \A l \in {a, b} : deps'[l].parent = size
      /\ deps'[size].parent = NO_VALUE
  BY MergeWrites
<1>4. \A i \in Labels : rep'[i] = IF rep[i] \in {a, b} THEN rep'[size] ELSE rep[i]
  BY <1>2
<1> HIDE DEF a, b
<1>5. Rises({a, b}, size)
  BY <1>2, <1>3, <1>4 DEF Rises
<1> QED BY <1>5 DEF a, b

\* After such a step the way from every depression still leads on: from W into the set
\* of n, which holds none of W, and from elsewhere as before, or through W and on.
LEMMA RisesLeadOn ==
  ASSUME TreesInv, OpenAreRepresentatives, NothingComesBack, NEW W, NEW n, Rises(W, n),
         NO_VALUE \notin Labels'
  PROVE  OpenAreRepresentatives' /\ NothingComesBack'
<1>1. /\ Labels' = Labels \cup {n} /\ W \subseteq Labels \ {n}
      /\ \A w \in W : rep[w] = w /\ deps'[w].parent = n
      /\ \A d \in Labels \ W : deps'[d].parent = deps[d].parent
      /\ n \in Labels => rep[n] \notin W
      /\ n \notin Labels => deps'[n].parent = NO_VALUE /\ rep'[n] = n
      /\ \A d \in Labels : rep'[d] = IF rep[d] \in W THEN rep'[n] ELSE rep[d]
      /\ rep'[n] \notin W
  BY DEF Rises
<1>2. /\ NO_VALUE \notin Labels
      /\ rep \in [Labels -> Labels]
      /\ \A l \in Labels : rep[l] = l => deps[l].parent = NO_VALUE
      /\ \A l \in Labels : rep[l] # l => deps[l].parent \in Labels /\ rep[deps[l].parent] = rep[l]
  BY TreeFacts DEF TreesInv, SinkInv, ParentsStayInside
<1>3. n # NO_VALUE /\ n \in Labels'
  BY <1>1
<1>4. OpenAreRepresentatives'
  <2>1. ASSUME NEW d \in Labels', deps'[d].parent = NO_VALUE PROVE rep'[d] = d
    <3>1. CASE d \in Labels
      <4>1. d \notin W
        BY <1>1, <1>3, <2>1
      <4>2. rep[d] = d
        BY <1>1, <2>1, <3>1, <4>1 DEF OpenAreRepresentatives
      <4> QED BY <1>1, <3>1, <4>1, <4>2
    <3> QED BY <1>1, <3>1
  <2> QED BY <2>1 DEF OpenAreRepresentatives
<1> DEFINE B == IF n \in Labels THEN {m \in Labels : rep[m] = rep[n]} ELSE {n}
<1>5. /\ n \in B /\ B \subseteq Labels'
      /\ \A m \in B : m \notin W /\ (m \in Labels => rep[m] \notin W)
      /\ \A m \in B : rep'[m] = rep'[n]
      /\ \A m \in B : deps'[m].parent = NO_VALUE \/ deps'[m].parent \in B
  <2>1. CASE n \in Labels
    <3>1. B = {m \in Labels : rep[m] = rep[n]} /\ rep[n] \notin W
      BY <1>1, <2>1
    <3> HIDE DEF B
    <3>2. \A m \in B : m \in Labels /\ rep[m] = rep[n] /\ m \notin W
      BY <1>1, <3>1
    <3>3. \A m \in B : rep'[m] = rep'[n]
      BY <1>1, <2>1, <3>1, <3>2
    <3>4. \A m \in B : deps'[m].parent = NO_VALUE \/ deps'[m].parent \in B
      <4> TAKE m \in B
      <4>1. deps'[m].parent = deps[m].parent
        BY <1>1, <3>2
      <4>2. rep[m] # m => deps[m].parent \in B
        BY <1>2, <3>1, <3>2
      <4> QED BY <1>2, <3>2, <4>1, <4>2
    <3> QED BY <1>1, <2>1, <3>1, <3>2, <3>3, <3>4
  <2>2. CASE n \notin Labels
    <3>1. B = {n}
      BY <2>2
    <3> HIDE DEF B
    <3> QED BY <1>1, <2>2, <3>1
  <2> QED BY <2>1, <2>2
<1> HIDE DEF B
<1>6. ASSUME NEW d \in Labels', deps'[d].parent # NO_VALUE PROVE LeadsOn(d)'
  <2>1. d \in Labels
    BY <1>1, <1>6
  <2>2. CASE d \in W
    <3>1. deps'[d].parent = n /\ rep[d] = d /\ rep'[d] = rep'[n] /\ d \notin B
      BY <1>1, <1>5, <2>1, <2>2
    <3>2. B \in SUBSET (Labels' \ {d}) /\ deps'[d].parent \in B
      BY <1>5, <3>1
    <3>3. \A m \in B : rep'[m] = rep'[d] /\ (deps'[m].parent = NO_VALUE \/ deps'[m].parent \in B)
      BY <1>5, <3>1
    <3> QED BY <3>2, <3>3 DEF LeadsOn
  <2>3. CASE d \notin W
    <3>1. deps'[d].parent = deps[d].parent
      BY <1>1, <2>1, <2>3
    <3>2. PICK S \in SUBSET (Labels \ {d}) :
            /\ deps[d].parent \in S
            /\ \A m \in S : rep[m] = rep[d] /\ (deps[m].parent = NO_VALUE \/ deps[m].parent \in S)
      BY <1>6, <2>1, <3>1 DEF NothingComesBack, LeadsOn
    <3>3. \A m \in S : rep'[m] = rep'[d]
      BY <1>1, <2>1, <3>2
    <3>4. CASE W \cap S = {}
      <4>1. S \in SUBSET (Labels' \ {d}) /\ deps'[d].parent \in S
        BY <1>1, <3>1, <3>2
      <4>2. \A m \in S : deps'[m].parent = NO_VALUE \/ deps'[m].parent \in S
        BY <1>1, <3>2, <3>4
      <4> QED BY <3>3, <4>1, <4>2 DEF LeadsOn
    <3>5. CASE W \cap S # {}
      <4>1. rep[d] \in W /\ rep'[d] = rep'[n]
        BY <1>1, <2>1, <3>2, <3>5
      <4>2. d \notin B
        BY <1>5, <2>1, <4>1
      <4>3. S \cup B \in SUBSET (Labels' \ {d}) /\ deps'[d].parent \in S \cup B
        BY <1>1, <1>5, <3>1, <3>2, <4>2
      <4>4. \A m \in S \cup B : rep'[m] = rep'[d]
        BY <1>5, <3>3, <4>1
      <4>5. \A m \in S \cup B : deps'[m].parent = NO_VALUE \/ deps'[m].parent \in S \cup B
        <5>1. \A m \in S \ W : deps'[m].parent = NO_VALUE \/ deps'[m].parent \in S
          BY <1>1, <3>2
        <5>2. \A m \in S \cap W : deps'[m].parent \in B
          BY <1>1, <1>5
        <5> QED BY <1>5, <5>1, <5>2
      <4> QED BY <4>3, <4>4, <4>5 DEF LeadsOn
    <3> QED BY <3>4, <3>5
  <2> QED BY <2>2, <2>3
<1> QED BY <1>4, <1>6 DEF NothingComesBack

\* A step writes no children to what there was.
LEMMA LeavesStayLeaves == WalkInv /\ [Next]_vars => LeavesHaveNoChildren'
<1> SUFFICES ASSUME WalkInv, [Next]_vars PROVE LeavesHaveNoChildren'
  OBVIOUS
<1>1. CASE UNCHANGED vars
  BY <1>1 DEF vars, WalkInv, LeavesHaveNoChildren, LeafLabels
<1>2. ASSUME NEW o \in Lowest, NEW W, Spills(o, W) PROVE LeavesHaveNoChildren'
  <2>1. TypeOK
    BY DEF WalkInv, SpillInv, SetsInv, OpenInv
  <2> QED BY <1>2, <2>1, LabelFacts DEF Spills, WalkInv, LeavesHaveNoChildren, LeafLabels
<1>3. TreesInv'
  BY TreesNext DEF WalkInv, SpillInv
<1>4. ASSUME NEW o \in Lowest, Visit(o) PROVE LeavesHaveNoChildren'
  <2>1. o.depa \in LeafLabels /\ o.depb \in LeafLabels
    BY LowestIsLow, OutletFacts DEF WalkInv, SpillInv, SetsInv, OpenInv
  <2> QED BY <1>2, <1>3, <1>4, <2>1, SkipSpills, LinkSpills, MergeSpills DEF Visit, WalkInv
<1> QED BY <1>1, <1>4 DEF Next

\* The walks after a step.
LEMMA WalksNext == WalkInv /\ [Next]_vars => WalkInv'
<1> SUFFICES ASSUME WalkInv, [Next]_vars PROVE WalkInv'
  OBVIOUS
<1>1. SpillInv' /\ OceanWalk' /\ LeavesHaveNoChildren' /\ TreesInv /\ NO_VALUE \notin Labels'
  BY SpillNext, WalkNext, StaysClear, LeavesStayLeaves DEF WalkInv, SpillInv, TreesInv, Clear
<1>2. ASSUME size' = size, deps' = deps, rep' = rep PROVE OpenAreRepresentatives' /\ NothingComesBack'
  BY <1>2 DEF WalkInv, OpenAreRepresentatives, NothingComesBack, LeadsOn, Labels
<1>3. ASSUME NEW o \in Lowest, Visit(o) PROVE OpenAreRepresentatives' /\ NothingComesBack'
  <2>1. o.depa \in LeafLabels /\ o.depb \in LeafLabels
    BY LowestIsLow, OutletFacts DEF WalkInv, SpillInv, SetsInv, OpenInv
  <2>2. CASE Skip(o)
    BY <1>2, <2>2 DEF Skip
  <2>3. ASSUME NEW a \in LeafLabels, NEW b \in LeafLabels, LinkToOcean(o, a, b)
        PROVE  OpenAreRepresentatives' /\ NothingComesBack'
    BY <1>1, <2>3, LinkRises, RisesLeadOn DEF WalkInv
  <2>4. CASE Merge(o)
    BY <1>1, <2>4, MergeRises, RisesLeadOn DEF WalkInv
  <2> QED BY <1>3, <2>1, <2>2, <2>3, <2>4 DEF Visit
<1>4. ASSUME UNCHANGED vars PROVE OpenAreRepresentatives' /\ NothingComesBack'
  BY <1>2, <1>4 DEF vars
<1>5. OpenAreRepresentatives' /\ NothingComesBack'
  BY <1>3, <1>4 DEF Next
<1> QED BY <1>1, <1>5 DEF WalkInv

-----------------------------------------------------------------------------
\* What is below a leaf and below a meta-depression, and how its children spill.
LEMMA Below ==
  ASSUME TreesInv, NEW d \in Labels
  PROVE  /\ d <= NLeaf => LeavesUnder[d] = {d}
         /\ d > NLeaf =>
              \A c \in {deps[d].lchild, deps[d].rchild} :
                /\ c \in Labels \ {OCEAN} /\ c < d
                /\ deps[c].parent = d /\ ~ deps[c].ocean_parent
                /\ deps[c].out_elev <= deps[d].out_elev
                /\ deps[c].out_elev = deps[deps[d].lchild].out_elev
         /\ d > NLeaf =>
              LeavesUnder[d] = LeavesUnder[deps[d].lchild] \cup LeavesUnder[deps[d].rchild]
<1>1. NO_VALUE \notin Labels /\ ChildrenAgree(d) /\ LeafShape(d) /\ NLeaf \in Nat /\ d \in Nat
      /\ 1 .. d - 1 \subseteq Labels \ {OCEAN}
  BY TreeFacts, ForestParts DEF TreesInv
<1>2. LeavesUnder[d] = IF deps[d].lchild = NO_VALUE THEN {d}
                       ELSE LeavesUnder[deps[d].lchild] \cup LeavesUnder[deps[d].rchild]
  BY UnderHolds DEF UnderDefined, IsUnder, Labels
<1>3. d <= NLeaf <=> deps[d].lchild = NO_VALUE
  BY <1>1 DEF LeafShape
<1>4. ASSUME d > NLeaf, NEW c \in {deps[d].lchild, deps[d].rchild}
      PROVE  /\ c \in Labels \ {OCEAN} /\ c < d
             /\ deps[c].parent = d /\ ~ deps[c].ocean_parent
             /\ deps[c].out_elev <= deps[d].out_elev
             /\ deps[c].out_elev = deps[deps[d].lchild].out_elev
  <2>1. c \in 1 .. d - 1
    BY <1>1, <1>4 DEF ChildrenAgree
  <2>2. c \in Labels \ {OCEAN} /\ c < d
    BY <1>1, <2>1
  <2> QED BY <1>1, <1>4, <2>2 DEF ChildrenAgree
<1>5. ~ (d > NLeaf /\ d <= NLeaf) /\ (d > NLeaf \/ d <= NLeaf)
  BY <1>1
<1> QED BY <1>2, <1>3, <1>4, <1>5

\* Whoever has a parent in the tree has what is below it below the parent, too.
LEMMA BelowParent ==
  ASSUME TreesInv, LeavesHaveNoChildren,
         NEW d \in Labels \ {OCEAN}, deps[d].parent # NO_VALUE, ~ deps[d].ocean_parent
  PROVE  /\ deps[d].parent \in Labels \ {OCEAN} /\ d < deps[d].parent
         /\ LeavesUnder[d] \subseteq LeavesUnder[deps[d].parent]
<1> DEFINE p == deps[d].parent
<1>1. p \in Labels /\ ParentOwns(d) /\ LeafShape(p) /\ NO_VALUE \notin Labels
  BY TreeFacts, ForestParts DEF TreesInv
<1>2. d \in {deps[p].lchild, deps[p].rchild}
  BY <1>1 DEF ParentOwns
<1>3. p > NLeaf
  <2>1. p \in Nat /\ NLeaf \in Nat
    BY <1>1, TreeFacts
  <2>2. CASE p <= NLeaf
    <3>1. p \in LeafLabels
      BY <2>1, <2>2 DEF LeafLabels
    <3>2. deps[p].lchild = NO_VALUE /\ deps[p].rchild = NO_VALUE
      BY <1>1, <2>2, <3>1 DEF LeafShape, LeavesHaveNoChildren
    <3> QED BY <1>1, <1>2, <3>2
  <2> QED BY <2>1, <2>2
<1> HIDE DEF p
<1>4. d < p /\ LeavesUnder[d] \subseteq LeavesUnder[p]
  BY <1>1, <1>2, <1>3, Below
<1>5. p # OCEAN
  BY <1>3, LeafAssumption DEF OCEAN
<1> QED BY <1>1, <1>4, <1>5 DEF p

\* Of two depressions above one leaf the lower spills into one no higher than the
\* other, which spills no lower.
InChain(e, d) ==
  /\ ~ deps[e].ocean_parent /\ deps[e].parent \in Labels
  /\ deps[e].parent <= d /\ deps[e].out_elev <= deps[d].out_elev

LEMMA Chain ==
  ASSUME TreesInv, NEW d \in Labels \ {OCEAN}, NEW e \in Labels \ {OCEAN}, e < d,
         NEW x \in LeavesUnder[d], x \in LeavesUnder[e]
  PROVE  InChain(e, d)
<1> DEFINE Meet(a, b) == \E y : y \in LeavesUnder[a] /\ y \in LeavesUnder[b]
           T == {n \in 0 .. size : \A b \in 1 .. n - 1 : \A a \in 1 .. b - 1 : Meet(a, b) => InChain(a, b)}
<1>1. /\ size \in Nat /\ NLeaf \in Nat /\ NO_VALUE \notin Labels
      /\ \A l \in Labels : l \in Nat /\ l < size
      /\ \A l \in Labels : deps[l].out_elev \in Int
  <2>1. deps \in [Labels -> Depression]
    BY TreeFacts
  <2>2. \A l \in Labels : deps[l].out_elev \in Int
    BY <2>1 DEF Depression
  <2> QED BY <2>2, TreeFacts
<1>2. 0 \in T
  BY <1>1
<1>3. ASSUME NEW n \in 0 .. size - 1, n \in T PROVE n + 1 \in T
  <2>1. n + 1 \in 0 .. size /\ (n + 1) - 1 = n /\ n \in Labels /\ n \in Nat
    BY <1>1 DEF Labels
  <2>2. ASSUME NEW a \in 1 .. n - 1, Meet(a, n) PROVE InChain(a, n)
    <3>1. a \in Labels \ {OCEAN} /\ a < n /\ a \in Nat
      BY <1>1, <2>1 DEF Labels, OCEAN
    <3>2. PICK y : y \in LeavesUnder[a] /\ y \in LeavesUnder[n]
      BY <2>2
    <3>3. n > NLeaf
      <4>1. CASE n <= NLeaf
        <5>1. a <= NLeaf
          BY <1>1, <2>1, <3>1, <4>1
        <5>2. LeavesUnder[a] = {a} /\ LeavesUnder[n] = {n}
          BY <2>1, <3>1, <4>1, <5>1, Below
        <5>3. a = n
          BY <3>2, <5>2
        <5> QED BY <3>1, <5>3
      <4> QED BY <1>1, <2>1, <4>1
    <3>4. PICK c \in {deps[n].lchild, deps[n].rchild} : y \in LeavesUnder[c]
      BY <2>1, <3>2, <3>3, Below
    <3>5. /\ c \in Labels \ {OCEAN} /\ c < n /\ deps[c].parent = n /\ ~ deps[c].ocean_parent
          /\ deps[c].out_elev <= deps[n].out_elev
      BY <2>1, <3>3, Below
    <3>6. c \in Nat /\ c # 0
      BY <1>1, <3>5 DEF OCEAN
    <3>7. CASE a = c
      BY <2>1, <3>5, <3>7 DEF InChain
    <3>8. CASE a < c
      <4>1. c \in 1 .. n - 1 /\ a \in 1 .. c - 1
        BY <2>1, <3>1, <3>5, <3>6, <3>8
      <4>2. InChain(a, c)
        BY <1>3, <3>2, <3>4, <4>1
      <4>3. deps[a].parent \in Nat
        BY <1>1, <4>2 DEF InChain
      <4> QED BY <1>1, <2>1, <3>1, <3>5, <3>6, <4>2, <4>3 DEF InChain
    <3>9. CASE c < a
      <4>1. a \in 1 .. n - 1 /\ c \in 1 .. a - 1
        BY <2>1, <3>1, <3>6, <3>9
      <4>2. InChain(c, a)
        BY <1>3, <3>2, <3>4, <4>1
      <4> QED BY <2>1, <3>1, <3>5, <4>2 DEF InChain
    <3> QED BY <3>1, <3>6, <3>7, <3>8, <3>9
  <2>3. \A b \in 1 .. n : b = n \/ b \in 1 .. n - 1
    BY <2>1
  <2> HIDE DEF Meet
  <2> QED BY <1>3, <2>1, <2>2, <2>3
<1>4. size \in T
  <2> HIDE DEF T
  <2>1. size \in Nat
    BY <1>1
  <2>2. 0 .. size \subseteq T
    BY <1>2, <1>3, <2>1, Upwards
  <2> QED BY <2>1, <2>2
<1>5. d \in 1 .. size - 1 /\ e \in 1 .. d - 1
  BY <1>1 DEF OCEAN
<1> QED BY <1>4, <1>5

\* Who spills at a level has a parent, who has none does not spill.
LEMMA SpillsHaveParents ==
  ASSUME WalkInv, NEW d \in Labels
  PROVE  deps[d].parent # NO_VALUE <=> deps[d].out_elev < INF
<1>1. ASSUME deps[d].parent = NO_VALUE PROVE deps[d].out_elev = INF
  BY <1>1 DEF WalkInv, OpenAreRepresentatives, SpillInv, SetsInv, OpenInv, RepresentativesAreOpen
<1>2. ASSUME deps[d].parent # NO_VALUE PROVE deps[d].out_elev < INF
  BY <1>2, SentinelAssumption DEF WalkInv, SpillInv, SpillsAtOutlets, Elevations
<1> QED BY <1>1, <1>2, SentinelAssumption

-----------------------------------------------------------------------------
(***************************************************************************)
(* The sweep as a function.  Every visit is the round that the function    *)
(* makes of the state, so behind every state lies a history of rounds, and *)
(* when no outlet is left it is the whole run of the fold.                 *)
(***************************************************************************)
SweepState == [deps |-> deps, rep |-> rep, todo |-> todo]
SweepStart == [deps |-> LeafVector, rep |-> Singletons(LeafLabels), todo |-> outlets]

\* The choices of the instance are those of the sweep.
LEMMA SameMinMax ==
  ASSUME NEW a \in Nat, NEW b \in Nat
  PROVE  /\ Function!Min({a, b}) = IF b < a THEN b ELSE a
         /\ Function!Max({a, b}) = IF b < a THEN a ELSE b
<1>1. \E x \in {a, b} : \A y \in {a, b} : x <= y
  OBVIOUS
<1>2. Function!Min({a, b}) \in {a, b} /\ \A y \in {a, b} : Function!Min({a, b}) <= y
  BY <1>1 DEF Function!Min
<1>3. \E x \in {a, b} : \A y \in {a, b} : x >= y
  OBVIOUS
<1>4. Function!Max({a, b}) \in {a, b} /\ \A y \in {a, b} : Function!Max({a, b}) >= y
  BY <1>3 DEF Function!Max
<1> QED BY <1>2, <1>4

\* The pits of the leaf vector are those the comparison of the sweep looks at.
LEMMA SameOrder ==
  ASSUME NEW o \in Outlet, NEW p \in Outlet
  PROVE  Function!SweptBefore(LeafVector, o, p) <=> Before(o, p)
<1>1. \A l \in LeafLabels : LeafVector[l].pit_cell = PitOf(l) /\ PitOf(l) \in Nat
  <2> TAKE l \in LeafLabels
  <2>1. CASE l = OCEAN
    BY <2>1, SentinelAssumption DEF LeafVector, OceanDepression, NewDepression, PitOf
  <2>2. CASE l # OCEAN
    <3>1. l \in Leaves
      BY <2>2, LeafAssumption DEF LeafLabels, Leaves, OCEAN
    <3>2. Pit[l] \in Nat
      BY <3>1, CellAssumption
    <3> QED BY <2>2, <3>2 DEF LeafVector, LeafDepression, NewDepression, PitOf
  <2> QED BY <2>1, <2>2
<1>2. \A x \in {o, p} : x.depa \in LeafLabels /\ x.depb \in LeafLabels
  BY DEF Outlet
<1>3. ASSUME NEW x \in {o, p}
      PROVE  /\ Function!Min({LeafVector[x.depa].pit_cell, LeafVector[x.depb].pit_cell}) = LowPit(x)
             /\ Function!Max({LeafVector[x.depa].pit_cell, LeafVector[x.depb].pit_cell}) = HighPit(x)
  <2>1. PICK a, b : a = PitOf(x.depa) /\ b = PitOf(x.depb)
    OBVIOUS
  <2>2. a \in Nat /\ b \in Nat /\ LeafVector[x.depa].pit_cell = a /\ LeafVector[x.depb].pit_cell = b
    BY <1>1, <1>2, <2>1
  <2>3. /\ Function!Min({a, b}) = IF b < a THEN b ELSE a
        /\ Function!Max({a, b}) = IF b < a THEN a ELSE b
    BY <2>2, SameMinMax
  <2> QED BY <2>1, <2>2, <2>3 DEF LowPit, HighPit
<1> QED BY <1>3 DEF Before, Function!SweptBefore

\* Of two outlets not both come first.
LEMMA BeforeOneWay ==
  ASSUME NEW o \in Outlet, NEW p \in Outlet, Before(o, p)
  PROVE  ~ Before(p, o)
<1>1. \A l \in LeafLabels : PitOf(l) \in Nat
  <2> TAKE l \in LeafLabels
  <2>1. CASE l = OCEAN
    BY <2>1, SentinelAssumption DEF PitOf
  <2>2. CASE l # OCEAN
    <3>1. l \in Leaves
      BY <2>2, LeafAssumption DEF LeafLabels, Leaves, OCEAN
    <3> QED BY <2>2, <3>1, CellAssumption DEF PitOf
  <2> QED BY <2>1, <2>2
<1>2. \A x \in {o, p} : /\ x.depa \in LeafLabels /\ x.depb \in LeafLabels
                        /\ x.out_cell \in Nat /\ x.out_elev \in Int
  BY CellAssumption DEF Outlet, Elevations
<1>3. \A x \in {o, p} : LowPit(x) \in Nat /\ HighPit(x) \in Nat
  BY <1>1, <1>2 DEF LowPit, HighPit
<1> QED BY <1>2, <1>3 DEF Before

\* The outlet visited next is the one the function takes.
LEMMA SameLowest ==
  ASSUME TypeOK, SweepOrderIsTotal, NEW o \in Lowest
  PROVE  Function!LowestOutlet(LeafVector, todo) = o
<1>1. todo \subseteq Outlet /\ todo \subseteq outlets /\ o \in todo
  BY DEF TypeOK, Lowest
<1>2. \A p \in todo \ {o} : Function!SweptBefore(LeafVector, o, p)
  <2> TAKE p \in todo \ {o}
  <2>1. Before(o, p)
    BY <1>1 DEF SweepOrderIsTotal, Lowest
  <2> QED BY <1>1, <2>1, SameOrder
<1>3. ASSUME NEW q \in todo, \A p \in todo \ {q} : Function!SweptBefore(LeafVector, q, p) PROVE q = o
  <2> SUFFICES ASSUME q # o PROVE FALSE
    OBVIOUS
  <2>1. Before(q, o)
    BY <1>1, <1>3, SameOrder
  <2> QED BY <1>1, <2>1 DEF Lowest
<1> QED BY <1>1, <1>2, <1>3 DEF Function!LowestOutlet

\* The partition of the instance is that of the sweep.
LEMMA SameMerge ==
  ASSUME NEW r, NEW a, NEW b
  PROVE  Function!MergeInto(r, a, b) = MergeInto(r, a, b)
BY DEF Function!MergeInto, Function!Grow, MergeInto, Grow

\* And so are its counts.
LEMMA SameCardinality ==
  ASSUME NEW S
  PROVE  Function!Cardinality(S) = Cardinality(S)
BY DEF Function!Cardinality, Cardinality

\* A visit is a round of the function.
LEMMA VisitIsRound ==
  ASSUME TypeOK, RepresentativesAreOpen, rep[OCEAN] = OCEAN, SweepOrderIsTotal,
         NEW o \in Lowest, Visit(o)
  PROVE  /\ SweepState' = Function!SweepRound(LeafVector, SweepState)
         /\ outlets' = outlets /\ todo' = todo \ {o} /\ o \in todo
<1>1. o \in todo /\ o \in Outlet /\ o.depa \in Labels /\ o.depb \in Labels
  BY LabelFacts DEF TypeOK, Lowest, Outlet
<1> DEFINE a == rep[o.depa]
           b == rep[o.depb]
<1>2. Function!LowestOutlet(LeafVector, todo) = o
  BY SameLowest
<1>3. todo' = todo \ {o} /\ outlets' = outlets
  BY DEF Visit, Skip, LinkToOcean, Merge
<1>4. ASSUME NEW t, t = Function!Swept(SweepState, o), t.deps = deps', t.rep = rep'
      PROVE  SweepState' = Function!SweepRound(LeafVector, SweepState)
  BY <1>2, <1>3, <1>4 DEF SweepState, Function!SweepRound
<1>5. CASE Skip(o)
  <2>1. Function!Swept(SweepState, o) = SweepState
    BY <1>5 DEF Skip, Function!Swept, SweepState
  <2> QED BY <1>1, <1>3, <1>4, <1>5, <2>1 DEF Skip, SweepState
<1>6. CASE LinkToOcean(o, o.depa, o.depb)
  <2>1. a # OCEAN /\ b = OCEAN
    BY <1>6 DEF LinkToOcean
  <2>2. Function!Swept(SweepState, o) = Function!LinkedToOcean(SweepState, o, a, o.depb)
    BY <2>1 DEF Function!Swept, SweepState, Function!OceanLabel, OCEAN
  <2>3. /\ Function!LinkedToOcean(SweepState, o, a, o.depb).deps = deps'
        /\ Function!LinkedToOcean(SweepState, o, a, o.depb).rep = rep'
    BY <1>6, SameMerge DEF LinkToOcean, Function!LinkedToOcean, SweepState, Function!OceanLabel, OCEAN
  <2> QED BY <1>1, <1>3, <1>4, <2>2, <2>3
<1>7. CASE LinkToOcean(o, o.depb, o.depa)
  <2>1. b # OCEAN /\ a = OCEAN
    BY <1>7 DEF LinkToOcean
  <2>2. Function!Swept(SweepState, o) = Function!LinkedToOcean(SweepState, o, b, o.depa)
    BY <2>1 DEF Function!Swept, SweepState, Function!OceanLabel, OCEAN
  <2>3. /\ Function!LinkedToOcean(SweepState, o, b, o.depa).deps = deps'
        /\ Function!LinkedToOcean(SweepState, o, b, o.depa).rep = rep'
    BY <1>7, SameMerge DEF LinkToOcean, Function!LinkedToOcean, SweepState, Function!OceanLabel, OCEAN
  <2> QED BY <1>1, <1>3, <1>4, <2>2, <2>3
<1>8. CASE Merge(o)
  <2>1. a # b /\ a # OCEAN /\ b # OCEAN
    BY <1>8 DEF Merge
  <2>2. Function!Swept(SweepState, o) = Function!Joined(SweepState, o, a, b)
    BY <2>1 DEF Function!Swept, SweepState, Function!OceanLabel, OCEAN
  <2>3. DOMAIN deps = 0 .. size - 1 /\ size \in Nat
    BY DEF TypeOK, Labels
  <2>4. Function!Cardinality(DOMAIN deps) = size /\ DOMAIN deps \cup {size} = 0 .. size
    <3>1. Cardinality(DOMAIN deps) = size
      BY <2>3, FS_Interval
    <3> QED BY <2>3, <3>1, SameCardinality
  <2>5. Function!Joined(SweepState, o, a, b).deps = deps'
    BY <1>8, <2>4 DEF Merge, Function!Joined, SweepState, Function!Blank, NewDepression, Spilled
  <2>6. Function!Joined(SweepState, o, a, b).rep = rep'
    BY <1>8, <2>4, SameMerge DEF Merge, Function!Joined, SweepState
  <2> QED BY <1>1, <1>3, <1>4, <2>2, <2>5, <2>6
<1> QED BY <1>1, <1>3, <1>5, <1>6, <1>7, <1>8 DEF Visit

\* A history of k rounds, and that one lies behind the state.
IsHistory(h, k) ==
  /\ h[0] = SweepStart
  /\ \A i \in 1 .. k : h[i] = Function!SweepRound(LeafVector, h[i - 1])

HasHistory ==
  \E k \in Nat : \E h :
    /\ IsHistory(h, k) /\ h[k] = SweepState
    /\ Cardinality(todo) + k = Cardinality(outlets)

HistoryInv == TreesInv /\ SweepOrderIsTotal /\ IsFiniteSet(outlets) /\ HasHistory

\* It is empty at the beginning.
LEMMA HistoryInit == Init => HistoryInv
<1> SUFFICES ASSUME Init PROVE HistoryInv
  OBVIOUS
<1>1. TreesInv /\ TypeOK
  BY TreesInit DEF TreesInv, SinkInv, OpenInv
<1>2. SweepOrderIsTotal
  BY <1>1, OrderIsTotal
<1>3. IsFiniteSet(outlets)
  BY OutletAssumption DEF Init
<1>4. HasHistory
  <2> DEFINE h == [i \in {0} |-> SweepState]
  <2>1. h[0] = SweepState /\ SweepState = SweepStart
    BY DEF Init, SweepState, SweepStart
  <2>2. IsHistory(h, 0)
    BY <2>1 DEF IsHistory
  <2>3. Cardinality(todo) + 0 = Cardinality(outlets)
    BY <1>3, FS_CardinalityType DEF Init
  <2> HIDE DEF h
  <2> QED BY <2>1, <2>2, <2>3 DEF HasHistory
<1> QED BY <1>1, <1>2, <1>3, <1>4 DEF HistoryInv

\* Every visit adds a round.
LEMMA HistoryNext == HistoryInv /\ [Next]_vars => HistoryInv'
<1> SUFFICES ASSUME HistoryInv, [Next]_vars PROVE HistoryInv'
  OBVIOUS
<1>1. TreesInv' /\ TypeOK' /\ TypeOK
  <2>1. TreesInv'
    BY TreesNext DEF HistoryInv
  <2> QED BY <2>1 DEF HistoryInv, TreesInv, SinkInv, OpenInv
<1>2. SweepOrderIsTotal' /\ IsFiniteSet(outlets') /\ outlets' = outlets
  BY DEF HistoryInv, SweepOrderIsTotal, Next, Visit, Skip, LinkToOcean, Merge, vars
<1>3. PICK k \in Nat : \E h : /\ IsHistory(h, k) /\ h[k] = SweepState
                              /\ Cardinality(todo) + k = Cardinality(outlets)
  BY DEF HistoryInv, HasHistory
<1>4. PICK h : /\ IsHistory(h, k) /\ h[k] = SweepState
               /\ Cardinality(todo) + k = Cardinality(outlets)
  BY <1>3
<1>5. CASE UNCHANGED vars
  <2>1. SweepState' = SweepState /\ SweepStart' = SweepStart /\ todo' = todo
    BY <1>5 DEF vars, SweepState, SweepStart
  <2>2. IsHistory(h, k)' 
    BY <1>4, <2>1 DEF IsHistory
  <2> QED BY <1>1, <1>2, <1>4, <2>1, <2>2 DEF HistoryInv, HasHistory
<1>6. CASE Next
  <2>1. PICK o \in Lowest : Visit(o)
    BY <1>6 DEF Next
  <2>2. /\ SweepState' = Function!SweepRound(LeafVector, SweepState)
        /\ todo' = todo \ {o} /\ o \in todo
    BY <1>1, <2>1, VisitIsRound DEF HistoryInv, TreesInv, SinkInv, OpenInv
  <2>3. SweepStart' = SweepStart /\ LeafVector' = LeafVector
    BY <1>2 DEF SweepStart, LeafVector
  <2>4. PICK s : s = SweepState'
    OBVIOUS
  <2> DEFINE g == [i \in 0 .. k + 1 |-> IF i = k + 1 THEN s ELSE h[i]]
  <2>5. g[k + 1] = s /\ g[0] = h[0] /\ \A i \in 0 .. k : g[i] = h[i]
    BY <1>4
  <2> HIDE DEF g
  <2>6. ASSUME NEW i \in 1 .. k + 1 PROVE g[i] = Function!SweepRound(LeafVector, g[i - 1])
    <3>1. i - 1 \in 0 .. k
      BY <1>4
    <3>2. CASE i = k + 1
      BY <1>4, <2>2, <2>4, <2>5, <3>1, <3>2
    <3>3. CASE i # k + 1
      <4>1. i \in 1 .. k /\ i \in 0 .. k
        BY <1>4, <3>3
      <4> QED BY <1>4, <2>5, <3>1, <4>1 DEF IsHistory
    <3> QED BY <3>2, <3>3
  <2>7. IsHistory(g, k + 1)'
    BY <1>4, <2>3, <2>5, <2>6 DEF IsHistory
  <2>8. Cardinality(todo') + (k + 1) = Cardinality(outlets')
    <3>1. IsFiniteSet(todo)
      BY <1>1, FS_Subset DEF TypeOK, HistoryInv
    <3>2. Cardinality(todo') = Cardinality(todo) - 1 /\ Cardinality(todo) \in Nat
      BY <2>2, <3>1, FS_RemoveElement, FS_CardinalityType
    <3> QED BY <1>2, <1>4, <3>2
  <2>9. HasHistory'
    BY <2>4, <2>5, <2>7, <2>8 DEF HasHistory
  <2> QED BY <1>1, <1>2, <2>9 DEF HistoryInv
<1> QED BY <1>5, <1>6

\* When it is over, the history is the run of the fold.
LEMMA HistoryIsFold == HistoryInv => EndsAsFunction
<1> SUFFICES ASSUME HistoryInv, todo = {} PROVE deps = Function!Assembled(LeafVector, outlets)
  BY DEF EndsAsFunction
<1>0. PICK k \in Nat : \E h : /\ IsHistory(h, k) /\ h[k] = SweepState
                              /\ Cardinality(todo) + k = Cardinality(outlets)
  BY DEF HistoryInv, HasHistory
<1>1. PICK h : /\ IsHistory(h, k) /\ h[k] = SweepState
               /\ Cardinality(todo) + k = Cardinality(outlets)
  BY <1>0
<1>2. k = Cardinality(outlets) /\ Function!Cardinality(outlets) = k
  BY <1>1, FS_EmptySet, FS_CardinalityType, SameCardinality DEF HistoryInv
<1> DEFINE s == [i \in 1 .. k |-> i]
           Is(f) == f = [S \in SUBSET DOMAIN s |->
                           IF S = {} THEN SweepStart
                           ELSE LET x == Function!Max(S) IN Function!SweepRound(LeafVector, f[S \ {x}])]
           it == CHOOSE f : Is(f)
           F == [S \in SUBSET (1 .. k) |-> h[Cardinality(S)]]
<1>3. DOMAIN s = 1 .. k
  OBVIOUS
<1>4. ASSUME NEW S \in SUBSET (1 .. k), S # {}
      PROVE  /\ Function!Max(S) \in S
             /\ Cardinality(S) \in 1 .. k /\ Cardinality(S \ {Function!Max(S)}) = Cardinality(S) - 1
  <2>1. S \subseteq 0 .. k /\ IsFiniteSet(S) /\ IsFiniteSet(1 .. k) /\ Cardinality(1 .. k) = k
    <3>1. IsFiniteSet(1 .. k) /\ Cardinality(1 .. k) = IF 1 > k THEN 0 ELSE k - 1 + 1
      BY FS_Interval
    <3>2. IsFiniteSet(S)
      BY <3>1, FS_Subset
    <3> QED BY <3>1, <3>2
  <2>2. PICK m \in S : \A y \in S : y <= m
    BY <1>4, <2>1, Greatest
  <2>3. \E x \in S : \A y \in S : x >= y
    BY <2>2
  <2>4. Function!Max(S) \in S
    BY <2>3 DEF Function!Max
  <2>5. Cardinality(S) <= k /\ Cardinality(S) \in Nat /\ Cardinality(S) > 0
    BY <1>4, <2>1, FS_Subset, NonEmptyCount
  <2>6. Cardinality(S \ {Function!Max(S)}) = Cardinality(S) - 1
    BY <2>1, <2>4, FS_RemoveElement
  <2> QED BY <2>4, <2>5, <2>6
<1>5. Is(F)
  <2>1. \A S \in SUBSET (1 .. k) : S \ {Function!Max(S)} \in SUBSET (1 .. k)
    OBVIOUS
  <2>2. ASSUME NEW S \in SUBSET (1 .. k)
        PROVE  F[S] = IF S = {} THEN SweepStart
                      ELSE Function!SweepRound(LeafVector, F[S \ {Function!Max(S)}])
    <3>1. CASE S = {}
      BY <1>1, <3>1, FS_EmptySet DEF IsHistory
    <3>2. CASE S # {}
      <4>1. F[S] = h[Cardinality(S)] /\ F[S \ {Function!Max(S)}] = h[Cardinality(S) - 1]
        BY <1>4, <2>1, <3>2
      <4>2. h[Cardinality(S)] = Function!SweepRound(LeafVector, h[Cardinality(S) - 1])
        BY <1>1, <1>4, <3>2 DEF IsHistory
      <4> QED BY <3>2, <4>1, <4>2
    <3> QED BY <3>1, <3>2
  <2>3. F = [S \in SUBSET (1 .. k) |-> F[S]]
    OBVIOUS
  <2> HIDE DEF F
  <2> QED BY <1>3, <2>2, <2>3
<1>6. Is(it)
  <2> HIDE DEF Is, F
  <2> QED BY <1>5
<1>7. Function!Assembled(LeafVector, outlets) = it[1 .. k].deps
  <2>1. DOMAIN LeafVector = LeafLabels
    BY DEF LeafVector
  <2>2. SweepStart = [deps |-> LeafVector, rep |-> Function!Singletons(DOMAIN LeafVector), todo |-> outlets]
    BY <2>1 DEF SweepStart, Singletons, Function!Singletons
  <2> QED BY <1>2, <1>3, <2>2 DEF Function!Assembled, Function!FoldLeft, Function!MapThenFoldSet
<1> HIDE DEF it, F
<1> DEFINE T == {i \in 0 .. k : it[1 .. i] = h[i]}
<1>8. 0 \in T
  <2>1. 1 .. 0 = {} /\ it[{}] = SweepStart
    BY <1>6
  <2> QED BY <1>1, <2>1 DEF IsHistory
<1>9. ASSUME NEW i \in 0 .. k - 1, i \in T PROVE i + 1 \in T
  <2>1. i + 1 \in 1 .. k /\ (i + 1) - 1 = i /\ i + 1 \in 0 .. k
    BY <1>1
  <2>2. 1 .. i + 1 \in SUBSET DOMAIN s /\ 1 .. i + 1 # {}
    BY <1>3, <2>1
  <2>3. (1 .. i + 1) \ {Function!Max(1 .. i + 1)} = 1 .. i
    <3>1. \E x \in 1 .. i + 1 : \A y \in 1 .. i + 1 : x >= y
      <4>1. i + 1 \in 1 .. i + 1 /\ \A y \in 1 .. i + 1 : i + 1 >= y
        OBVIOUS
      <4> QED BY <4>1
    <3>2. Function!Max(1 .. i + 1) \in 1 .. i + 1 /\ \A y \in 1 .. i + 1 : Function!Max(1 .. i + 1) >= y
      BY <3>1 DEF Function!Max
    <3>3. i + 1 \in 1 .. i + 1
      OBVIOUS
    <3>4. Function!Max(1 .. i + 1) = i + 1
      BY <3>2, <3>3
    <3> QED BY <3>4
  <2>4. it[1 .. i + 1] = Function!SweepRound(LeafVector, it[1 .. i])
    <3> HIDE DEF s
    <3> QED BY <1>6, <2>2, <2>3
  <2>5. it[1 .. i] = h[i]
    BY <1>9
  <2>6. h[i + 1] = Function!SweepRound(LeafVector, h[i])
    BY <1>1, <2>1 DEF IsHistory
  <2> QED BY <2>1, <2>4, <2>5, <2>6
<1>10. it[1 .. k] = h[k]
  <2> HIDE DEF T
  <2>1. 0 .. k \subseteq T
    BY <1>1, <1>8, <1>9, Upwards
  <2>2. k \in T
    BY <1>1, <2>1
  <2> QED BY <2>2 DEF T
<1> QED BY <1>1, <1>7, <1>10 DEF SweepState

\* The forest is whole at every moment of the sweep, and ends as the function that the
\* distributed driver's model calls.
THEOREM ForestStaysWhole == Spec => []ForestIsWhole
<1>1. Spec => []EndsAsFunction
  BY HistoryInit, HistoryNext, HistoryIsFold, PTL DEF Spec
<1> QED BY <1>1, TreesAreBinary, OceanLinksAreListed, GeolinksLandInSiblings, PTL DEF ForestIsWhole

-----------------------------------------------------------------------------
(***************************************************************************)
(* Where the walk of a cell ends.                                          *)
(***************************************************************************)
Rests(c, l) == l = OCEAN \/ ~ (Dem[c] > deps[l].out_elev)

\* What the walk needs to know of its numbers.
LEMMA WalkFacts ==
  ASSUME WalkInv
  PROVE  /\ TreesInv /\ size \in Nat /\ NO_VALUE \notin Labels /\ OCEAN \in Labels
         /\ IsFiniteSet(Labels) /\ Cardinality(Labels) = size
         /\ \A l \in Labels : l \in Nat /\ deps[l].out_elev \in Int
         /\ \A l \in Labels : deps[l].parent # NO_VALUE => deps[l].parent \in Labels
         /\ \A c \in Cells : Dem[c] \in Int /\ Dem[c] < INF /\ INF \in Int
<1>1. TreesInv /\ TypeOK
  BY DEF WalkInv, SpillInv, SetsInv, OpenInv
<1>2. deps \in [Labels -> Depression]
  BY <1>1, TreeFacts
<1>3. \A l \in Labels : deps[l].out_elev \in Int
  BY <1>2 DEF Depression
<1>4. \A c \in Cells : Dem[c] \in Int /\ Dem[c] < INF /\ INF \in Int
  BY CellAssumption, SentinelAssumption
<1>5. size \in Nat /\ OCEAN \in Labels
  BY <1>1, TreeFacts, LabelFacts
<1>6. IsFiniteSet(Labels) /\ Cardinality(Labels) = size
  <2>1. Cardinality(0 .. size - 1) = IF 0 > size - 1 THEN 0 ELSE (size - 1) - 0 + 1
    BY <1>5, FS_Interval
  <2> QED BY <1>5, <2>1, FS_Interval DEF Labels
<1> QED BY <1>1, <1>3, <1>4, <1>5, <1>6, TreeFacts

\* A walk that does not rest goes to a parent there is.
LEMMA ClimbGoesOn ==
  ASSUME WalkInv, NEW c \in Cells, NEW l \in Labels
  PROVE  /\ Climb(c, l) \in Labels
         /\ Rests(c, l) => Climb(c, l) = l
         /\ ~ Rests(c, l) => /\ l # OCEAN /\ Climb(c, l) = deps[l].parent
                             /\ deps[l].parent # NO_VALUE /\ deps[l].out_elev < Dem[c]
<1>1. CASE Rests(c, l)
  BY <1>1 DEF Rests, Climb
<1>2. CASE ~ Rests(c, l)
  <2>1. l # OCEAN /\ Dem[c] > deps[l].out_elev /\ Climb(c, l) = deps[l].parent
    BY <1>2 DEF Rests, Climb
  <2>2. deps[l].out_elev < INF
    BY <2>1, WalkFacts
  <2> QED BY <1>2, <2>1, <2>2, WalkFacts, SpillsHaveParents
<1> QED BY <1>1, <1>2

\* Holder is where a run of size steps ends.
LEMMA HolderRuns ==
  ASSUME WalkInv, NEW c \in Cells, label[c] \in Labels
  PROVE  \E g : /\ IsRun(g, size, Labels, label[c], [l \in Labels |-> Climb(c, l)])
                /\ g[size] = Holder(c)
<1> DEFINE Step == [l \in Labels |-> Climb(c, l)]
           s == [i \in 1 .. size |-> i]
           Is(f) == f = [S \in SUBSET DOMAIN s |->
                           IF S = {} THEN label[c]
                           ELSE LET x == Max(S) IN Climb(c, f[S \ {x}])]
           it == CHOOSE f : Is(f)
<1>1. DOMAIN s = 1 .. size /\ size \in Nat
  BY WalkFacts
<1>2. Step \in [Labels -> Labels] /\ \A l \in Labels : Step[l] = Climb(c, l)
  BY ClimbGoesOn
<1>3. PICK F : IsRepeat(F, size, Labels, label[c], Step)
  <2> HIDE DEF Step
  <2> QED BY <1>1, <1>2, RepeatExists
<1>4. Is(F)
  <2>1. \A S \in SUBSET (1 .. size) : S \ {Max(S)} \in SUBSET (1 .. size)
    OBVIOUS
  <2>2. \A S \in SUBSET (1 .. size) : F[S] = IF S = {} THEN label[c] ELSE Climb(c, F[S \ {Max(S)}])
    <3> HIDE DEF Step
    <3> QED BY <1>2, <1>3, <2>1 DEF IsRepeat
  <2>3. F = [S \in SUBSET (1 .. size) |-> F[S]]
    BY <1>3 DEF IsRepeat
  <2> QED BY <1>1, <2>2, <2>3
<1>5. Is(it)
  <2> HIDE DEF Is
  <2> QED BY <1>4
<1>6. it[{}] = label[c]
  BY <1>5
<1>7. ASSUME NEW i \in 1 .. size, it[1 .. i - 1] \in Labels PROVE it[1 .. i] = Step[it[1 .. i - 1]]
  <2>1. 1 .. i # {} /\ Max(1 .. i) = i /\ (1 .. i) \ {i} = 1 .. i - 1
    <3>1. i \in Nat \ {0}
      BY <1>1
    <3> QED BY <3>1, Prefix
  <2>2. 1 .. i \in SUBSET DOMAIN s
    BY <1>1
  <2>3. it[1 .. i] = Climb(c, it[1 .. i - 1])
    <3> HIDE DEF it, s
    <3> QED BY <1>5, <2>1, <2>2
  <2> HIDE DEF it, s
  <2> QED BY <1>7, <2>3
<1>8. Holder(c) = it[1 .. size]
  BY <1>1 DEF Holder, FoldLeft, MapThenFoldSet
<1> HIDE DEF it, Step
<1>9. \E g : IsRun(g, size, Labels, label[c], Step) /\ g[size] = it[1 .. size]
  BY <1>1, <1>2, <1>6, <1>7, RunMade
<1> QED BY <1>8, <1>9 DEF Step

\* On its way the walk has passed all that is above the cell's leaf and lower, and
\* none of it covers the cell; or nothing covers the cell and the ocean is ahead.
PassedLower(c, l) ==
  /\ l \in Labels \ {OCEAN} /\ label[c] \in LeavesUnder[l]
  /\ \A e \in Labels \ {OCEAN} : e < l /\ label[c] \in LeavesUnder[e] => deps[e].out_elev < Dem[c]

HeadsForOcean(c, l) ==
  /\ Covering(c) = {}
  /\ \E S \in SUBSET Labels :
       l \in S /\ \A m \in S \ {OCEAN} : deps[m].parent \in S /\ deps[m].out_elev < Dem[c]

OnItsWay(c, l) == PassedLower(c, l) \/ HeadsForOcean(c, l)

\* Nothing but the ocean is below the ocean.
LEMMA BelowOcean ==
  ASSUME WalkInv, NEW d \in Labels \ {OCEAN}
  PROVE  OCEAN \notin LeavesUnder[d]
BY LeafAssumption DEF WalkInv, SpillInv, UnderIsLand, Leaves, OCEAN

\* The walk starts so.
LEMMA WayStarts ==
  ASSUME WalkInv, NEW c \in Cells, label[c] \in LeafLabels
  PROVE  OnItsWay(c, label[c])
<1>1. TypeOK /\ TreesInv
  BY DEF WalkInv, SpillInv, SetsInv, OpenInv
<1>2. CASE label[c] = OCEAN
  <2>1. Covering(c) = {}
    BY <1>2, BelowOcean DEF Covering
  <2>2. HeadsForOcean(c, label[c])
    <3>1. {OCEAN} \in SUBSET Labels
      BY WalkFacts
    <3> QED BY <1>2, <2>1, <3>1 DEF HeadsForOcean
  <2> QED BY <2>2 DEF OnItsWay
<1>3. CASE label[c] # OCEAN
  <2>1. label[c] \in Labels \ {OCEAN} /\ label[c] <= NLeaf
    BY <1>1, <1>3, LabelFacts, LeafAssumption DEF LeafLabels
  <2>2. LeavesUnder[label[c]] = {label[c]}
    BY <1>1, <2>1, Below
  <2>3. ASSUME NEW e \in Labels \ {OCEAN}, e < label[c], label[c] \in LeavesUnder[e] PROVE FALSE
    <3>1. e <= NLeaf
      BY <2>1, <2>3, WalkFacts, LeafAssumption
    <3>2. LeavesUnder[e] = {e}
      BY <1>1, <3>1, Below
    <3>3. e = label[c]
      BY <2>3, <3>2
    <3> QED BY <2>3, <3>3, WalkFacts
  <2> QED BY <2>1, <2>2, <2>3 DEF OnItsWay, PassedLower
<1> QED BY <1>2, <1>3

\* And goes on so.
LEMMA WayGoesOn ==
  ASSUME WalkInv, NEW c \in Cells, NEW l \in Labels, OnItsWay(c, l), ~ Rests(c, l)
  PROVE  OnItsWay(c, Climb(c, l))
<1>1. /\ l # OCEAN /\ Climb(c, l) = deps[l].parent
      /\ deps[l].parent # NO_VALUE /\ deps[l].out_elev < Dem[c]
  BY ClimbGoesOn
<1>2. PICK p \in Labels : p = deps[l].parent
  BY <1>1, WalkFacts
<1>3. /\ TreesInv /\ Dem[c] \in Int
      /\ \A m \in Labels : m \in Nat /\ deps[m].out_elev \in Int
  BY WalkFacts
<1>4. CASE HeadsForOcean(c, l)
  BY <1>1, <1>4 DEF HeadsForOcean, OnItsWay
<1>5. CASE PassedLower(c, l) /\ deps[l].ocean_parent
  <2>1. PICK S \in SUBSET (Labels \ {l}) :
          /\ deps[l].parent \in S
          /\ \A m \in S \ {OCEAN} : deps[m].parent \in S /\ deps[m].out_elev <= deps[l].out_elev
    BY <1>5 DEF WalkInv, OceanWalk, SpillsDownToOcean
  <2>2. \A m \in S \ {OCEAN} : deps[m].parent \in S /\ deps[m].out_elev < Dem[c]
    <3> TAKE m \in S \ {OCEAN}
    <3>1. deps[m].out_elev <= deps[l].out_elev /\ deps[m].out_elev \in Int /\ deps[l].out_elev \in Int
      BY <1>3, <2>1
    <3> QED BY <1>1, <1>3, <2>1, <3>1
  <2>3. ASSUME NEW e \in Covering(c) PROVE FALSE
    <3>1. e \in Labels \ {OCEAN} /\ label[c] \in LeavesUnder[e] /\ Dem[c] <= deps[e].out_elev
      BY <2>3 DEF Covering
    <3>2. label[c] \in LeavesUnder[l] /\ l \in Labels \ {OCEAN}
      BY <1>5 DEF PassedLower
    <3>3. CASE e < l
      <4>1. deps[e].out_elev < Dem[c]
        BY <1>5, <3>1, <3>3 DEF PassedLower
      <4> QED BY <1>3, <3>1, <4>1
    <3>4. CASE e = l
      BY <1>1, <1>3, <3>1, <3>4
    <3>5. CASE l < e
      <4>1. InChain(l, e)
        BY <1>3, <3>1, <3>2, <3>5, Chain
      <4> QED BY <1>5, <4>1 DEF InChain
    <3> QED BY <1>3, <3>1, <3>2, <3>3, <3>4, <3>5
  <2>4. HeadsForOcean(c, p)
    <3>1. S \in SUBSET Labels /\ p \in S
      BY <1>2, <2>1
    <3> QED BY <2>2, <2>3, <3>1 DEF HeadsForOcean
  <2> QED BY <1>1, <1>2, <2>4 DEF OnItsWay
<1>6. CASE PassedLower(c, l) /\ ~ deps[l].ocean_parent
  <2>1. label[c] \in LeavesUnder[l] /\ l \in Labels \ {OCEAN}
    BY <1>6 DEF PassedLower
  <2>2. p \in Labels \ {OCEAN} /\ l < p /\ label[c] \in LeavesUnder[p]
    BY <1>1, <1>2, <1>3, <1>6, <2>1, BelowParent DEF WalkInv
  <2>3. ASSUME NEW e \in Labels \ {OCEAN}, e < p, label[c] \in LeavesUnder[e]
        PROVE  deps[e].out_elev < Dem[c]
    <3>1. CASE e < l
      BY <1>6, <2>3, <3>1 DEF PassedLower
    <3>2. CASE e = l
      BY <1>1, <3>2
    <3>3. CASE l < e
      <4>1. InChain(l, e)
        BY <1>3, <2>1, <2>3, <3>3, Chain
      <4> QED BY <1>2, <1>3, <2>3, <4>1 DEF InChain
    <3> QED BY <1>3, <2>1, <3>1, <3>2, <3>3
  <2>4. PassedLower(c, p)
    BY <2>2, <2>3 DEF PassedLower
  <2> QED BY <1>1, <1>2, <2>4 DEF OnItsWay
<1> QED BY <1>4, <1>5, <1>6 DEF OnItsWay

\* Where it rests is the answer.
LEMMA WayEnds ==
  ASSUME WalkInv, NEW c \in Cells, NEW l \in Labels, OnItsWay(c, l), Rests(c, l)
  PROVE  l = IF Covering(c) = {} THEN OCEAN ELSE Min(Covering(c))
<1>1. /\ TreesInv /\ Dem[c] \in Int
      /\ \A m \in Labels : m \in Nat /\ deps[m].out_elev \in Int
  BY WalkFacts
<1>2. CASE HeadsForOcean(c, l)
  <2>1. l # OCEAN => deps[l].out_elev < Dem[c]
    BY <1>2 DEF HeadsForOcean
  <2>2. l = OCEAN
    BY <1>1, <2>1 DEF Rests
  <2> QED BY <1>2, <2>2 DEF HeadsForOcean
<1>3. CASE PassedLower(c, l)
  <2>1. l \in Labels \ {OCEAN} /\ label[c] \in LeavesUnder[l] /\ Dem[c] <= deps[l].out_elev
    BY <1>1, <1>3 DEF PassedLower, Rests
  <2>2. l \in Covering(c)
    BY <2>1 DEF Covering
  <2>3. ASSUME NEW e \in Covering(c) PROVE l <= e
    <3>1. e \in Labels \ {OCEAN} /\ label[c] \in LeavesUnder[e] /\ Dem[c] <= deps[e].out_elev
      BY <2>3 DEF Covering
    <3>2. ~ (e < l)
      <4> SUFFICES ASSUME e < l PROVE FALSE
        OBVIOUS
      <4>1. deps[e].out_elev < Dem[c]
        BY <1>3, <3>1 DEF PassedLower
      <4> QED BY <1>1, <3>1, <4>1
    <3> QED BY <1>1, <3>1, <3>2
  <2>4. Covering(c) \subseteq Nat
    BY <1>1 DEF Covering
  <2>5. Min(Covering(c)) = l
    BY <2>2, <2>3, <2>4, MinIs
  <2> QED BY <2>2, <2>5
<1> QED BY <1>2, <1>3 DEF OnItsWay

\* The walk is on its way after i steps, and rests unless size - i depressions are
\* left that it has not passed.
WalkedSo(c, g, i) ==
  /\ OnItsWay(c, g[i])
  /\ \/ Rests(c, g[i])
     \/ \E S \in SUBSET Labels :
          /\ g[i] \in S /\ Cardinality(S) <= size - i
          /\ \A m \in S : deps[m].parent = NO_VALUE \/ deps[m].parent \in S

\* Where the walk of a cell ends: at the lowest depression that covers it, or in the
\* ocean if none does.
LEMMA HolderIs ==
  ASSUME WalkInv, NEW c \in Cells, label[c] \in LeafLabels
  PROVE  Holder(c) = IF Covering(c) = {} THEN OCEAN ELSE Min(Covering(c))
<1>1. label[c] \in Labels
  BY LabelFacts DEF WalkInv, SpillInv, SetsInv, OpenInv
<1> DEFINE Step == [l \in Labels |-> Climb(c, l)]
<1>2. PICK g : IsRun(g, size, Labels, label[c], Step) /\ g[size] = Holder(c)
  BY <1>1, HolderRuns
<1> HIDE DEF Step
<1>3. /\ g[0] = label[c]
      /\ \A i \in 0 .. size : g[i] \in Labels
      /\ \A i \in 1 .. size : g[i] = Climb(c, g[i - 1])
  <2>1. g \in [0 .. size -> Labels] /\ g[0] = label[c] /\ \A i \in 1 .. size : g[i] = Step[g[i - 1]]
    BY <1>2 DEF IsRun
  <2>2. size \in Nat
    BY WalkFacts
  <2>3. \A i \in 1 .. size : i - 1 \in 0 .. size
    BY <2>2
  <2>4. \A i \in 1 .. size : g[i - 1] \in Labels
    BY <2>1, <2>3
  <2> QED BY <2>1, <2>4 DEF Step
<1>4. /\ size \in Nat /\ IsFiniteSet(Labels) /\ Cardinality(Labels) = size
      /\ \A l \in Labels : deps[l].parent # NO_VALUE => deps[l].parent \in Labels
  BY WalkFacts
<1> DEFINE T == {i \in 0 .. size : WalkedSo(c, g, i)}
<1>5. 0 \in T
  <2>1. OnItsWay(c, g[0])
    BY <1>3, WayStarts
  <2>2. Cardinality(Labels) <= size - 0 /\ Labels \in SUBSET Labels /\ g[0] \in Labels
    BY <1>1, <1>3, <1>4
  <2>3. WalkedSo(c, g, 0)
    BY <1>4, <2>1, <2>2 DEF WalkedSo
  <2> QED BY <1>4, <2>3
<1>6. ASSUME NEW i \in 0 .. size - 1, i \in T PROVE i + 1 \in T
  <2>1. i + 1 \in 1 .. size /\ (i + 1) - 1 = i /\ i \in 0 .. size /\ i + 1 \in 0 .. size
    BY <1>4
  <2>2. PICK l \in Labels : l = g[i] /\ g[i + 1] = Climb(c, l)
    BY <1>3, <2>1
  <2>3. OnItsWay(c, l)
    BY <1>6, <2>2 DEF WalkedSo
  <2>4. CASE Rests(c, l)
    <3>1. g[i + 1] = l
      BY <2>2, <2>4, ClimbGoesOn
    <3>2. WalkedSo(c, g, i + 1)
      BY <2>3, <2>4, <3>1 DEF WalkedSo
    <3> QED BY <2>1, <3>2
  <2>5. CASE ~ Rests(c, l)
    <3>1. g[i + 1] = deps[l].parent /\ deps[l].parent # NO_VALUE
      BY <2>2, <2>5, ClimbGoesOn
    <3>2. PICK S \in SUBSET Labels :
            /\ l \in S /\ Cardinality(S) <= size - i
            /\ \A m \in S : deps[m].parent = NO_VALUE \/ deps[m].parent \in S
      BY <1>6, <2>2, <2>5 DEF WalkedSo
    <3>3. PICK R \in SUBSET (Labels \ {l}) :
            /\ deps[l].parent \in R
            /\ \A m \in R : deps[m].parent = NO_VALUE \/ deps[m].parent \in R
      BY <3>1 DEF WalkInv, NothingComesBack, LeadsOn
    <3>4. /\ S \cap R \in SUBSET Labels /\ g[i + 1] \in S \cap R
          /\ \A m \in S \cap R : deps[m].parent = NO_VALUE \/ deps[m].parent \in S \cap R
      BY <3>1, <3>2, <3>3
    <3>5. Cardinality(S \cap R) <= size - (i + 1)
      <4>1. IsFiniteSet(S) /\ S \cap R \subseteq S \ {l}
        BY <1>4, <3>2, <3>3, FS_Subset
      <4>2. Cardinality(S \ {l}) = Cardinality(S) - 1 /\ IsFiniteSet(S \ {l})
        BY <3>2, <4>1, FS_RemoveElement
      <4>3. Cardinality(S \cap R) <= Cardinality(S \ {l}) /\ IsFiniteSet(S \cap R)
        BY <4>1, <4>2, FS_Subset
      <4>4. Cardinality(S) \in Nat /\ Cardinality(S \cap R) \in Nat
        BY <4>1, <4>3, FS_CardinalityType
      <4> QED BY <1>4, <2>1, <3>2, <4>2, <4>3, <4>4
    <3>6. OnItsWay(c, g[i + 1])
      BY <2>2, <2>3, <2>5, WayGoesOn
    <3>7. WalkedSo(c, g, i + 1)
      BY <3>4, <3>5, <3>6 DEF WalkedSo
    <3> QED BY <2>1, <3>7
  <2> QED BY <2>4, <2>5
<1>7. WalkedSo(c, g, size)
  <2> HIDE DEF T
  <2>1. size \in Nat
    BY <1>4
  <2>2. 0 .. size \subseteq T
    BY <1>5, <1>6, <2>1, Upwards
  <2>3. size \in T
    BY <2>1, <2>2
  <2> QED BY <2>3 DEF T
<1>8. Rests(c, g[size])
  <2> SUFFICES ASSUME NEW S \in SUBSET Labels, g[size] \in S, Cardinality(S) <= size - size PROVE FALSE
    BY <1>7 DEF WalkedSo
  <2>1. IsFiniteSet(S)
    BY <1>4, FS_Subset
  <2>2. Cardinality(S) \in Nat /\ Cardinality(S) > 0
    BY <2>1, NonEmptyCount
  <2> QED BY <1>4, <2>2
<1>9. OnItsWay(c, g[size]) /\ g[size] \in Labels
  BY <1>3, <1>4, <1>7 DEF WalkedSo
<1> QED BY <1>2, <1>8, <1>9, WayEnds

-----------------------------------------------------------------------------
(***************************************************************************)
(* The cells of a depression: those charged to it, and its pool.           *)
(***************************************************************************)
CellsOf(d) == {c \in Cells : Covering(c) # {} /\ Min(Covering(c)) = d}

Pool(d) == {c \in Cells : d \in Covering(c)}

\* The cells charged are covered, by nothing lower.
LEMMA CellsOfIs ==
  ASSUME WalkInv, NEW d, NEW c \in Cells
  PROVE  c \in CellsOf(d) <=> d \in Covering(c) /\ \A e \in Covering(c) : d <= e
<1>1. Covering(c) \subseteq Nat
  BY WalkFacts DEF Covering
<1>2. ASSUME c \in CellsOf(d) PROVE d \in Covering(c) /\ \A e \in Covering(c) : d <= e
  <2>1. Covering(c) # {} /\ Min(Covering(c)) = d
    BY <1>2 DEF CellsOf
  <2> QED BY <1>1, <2>1, MinOfNats
<1>3. ASSUME d \in Covering(c), \A e \in Covering(c) : d <= e PROVE c \in CellsOf(d)
  <2>1. Min(Covering(c)) = d
    BY <1>1, <1>3, MinIs
  <2> QED BY <1>3, <2>1 DEF CellsOf
<1> QED BY <1>2, <1>3

\* A leaf holds its pool.
LEMMA LeafPool ==
  ASSUME WalkInv, NEW d \in Labels, d <= NLeaf
  PROVE  Pool(d) = CellsOf(d)
<1>1. /\ TreesInv /\ NLeaf \in Nat
      /\ \A l \in Labels : l \in Nat
  BY WalkFacts, LeafAssumption
<1>2. ASSUME NEW c \in Cells, d \in Covering(c), NEW e \in Covering(c), e < d PROVE FALSE
  <2>1. e \in Labels /\ label[c] \in LeavesUnder[e] /\ label[c] \in LeavesUnder[d]
    BY <1>2 DEF Covering
  <2>2. e <= NLeaf
    BY <1>1, <1>2, <2>1
  <2>3. LeavesUnder[e] = {e} /\ LeavesUnder[d] = {d}
    BY <1>1, <2>1, <2>2, Below
  <2>4. e = d
    BY <2>1, <2>3
  <2> QED BY <1>1, <1>2, <2>4
<1>3. ASSUME NEW c \in Cells PROVE d \in Covering(c) <=> c \in CellsOf(d)
  <2>1. \A e \in Covering(c) : e \in Nat
    BY <1>1 DEF Covering
  <2>2. d \in Covering(c) => \A e \in Covering(c) : d <= e
    BY <1>1, <1>2, <2>1
  <2> QED BY <2>2, CellsOfIs
<1> QED BY <1>3 DEF Pool, CellsOf

\* A meta-depression holds what its children hold and what stands above them.
LEMMA MetaPool ==
  ASSUME WalkInv, NEW d \in Labels, d > NLeaf, NEW l, NEW r, l = deps[d].lchild, r = deps[d].rchild
  PROVE  /\ Pool(d) = CellsOf(d) \cup (Pool(l) \cup Pool(r))
         /\ Pool(l) \cap Pool(r) = {} /\ CellsOf(d) \cap (Pool(l) \cup Pool(r)) = {}
<1>1. /\ TreesInv /\ NLeaf \in Nat
      /\ \A m \in Labels : m \in Nat /\ deps[m].out_elev \in Int
      /\ \A c \in Cells : Dem[c] \in Int
  BY WalkFacts, LeafAssumption
<1>2. /\ \A c \in {l, r} :
           /\ c \in Labels \ {OCEAN} /\ c < d
           /\ deps[c].parent = d /\ ~ deps[c].ocean_parent
           /\ deps[c].out_elev <= deps[d].out_elev
      /\ LeavesUnder[d] = LeavesUnder[l] \cup LeavesUnder[r]
  BY <1>1, Below
<1>3. LeavesUnder[l] \cap LeavesUnder[r] = {}
  BY DEF WalkInv, SpillInv, MetasAreJoined, JoinedAt
<1>4. d # OCEAN
  BY <1>1 DEF OCEAN
<1>5. ASSUME NEW c \in Cells, NEW k \in {l, r}, k \in Covering(c) PROVE d \in Covering(c)
  <2>1. label[c] \in LeavesUnder[d] /\ Dem[c] <= deps[k].out_elev /\ deps[k].out_elev <= deps[d].out_elev
    BY <1>2, <1>5 DEF Covering
  <2>2. Dem[c] <= deps[d].out_elev
    BY <1>1, <1>2, <2>1
  <2> QED BY <1>4, <2>1, <2>2 DEF Covering
<1>6. ASSUME NEW c \in Cells, d \in Covering(c), l \notin Covering(c), r \notin Covering(c),
             NEW e \in Covering(c)
      PROVE  d <= e
  <2>1. label[c] \in LeavesUnder[d] /\ e \in Labels \ {OCEAN} /\ label[c] \in LeavesUnder[e]
        /\ Dem[c] <= deps[e].out_elev
    BY <1>6 DEF Covering
  <2>2. PICK k \in {l, r} : label[c] \in LeavesUnder[k]
    BY <1>2, <2>1
  <2>3. ~ (Dem[c] <= deps[k].out_elev) /\ k \in Labels \ {OCEAN}
    BY <1>2, <1>6, <2>2 DEF Covering
  <2>4. e # k
    BY <2>1, <2>3
  <2>5. CASE e < k
    <3>1. InChain(e, k)
      BY <1>1, <2>1, <2>2, <2>3, <2>5, Chain
    <3> QED BY <1>1, <2>1, <2>3, <3>1 DEF InChain
  <2>6. CASE k < e
    <3>1. InChain(k, e)
      BY <1>1, <2>1, <2>2, <2>3, <2>6, Chain
    <3> QED BY <1>2, <3>1 DEF InChain
  <2> QED BY <1>1, <2>1, <2>3, <2>4, <2>5, <2>6
<1>7. Pool(d) = CellsOf(d) \cup (Pool(l) \cup Pool(r))
  <2>1. \A c \in Cells : c \in CellsOf(d) => d \in Covering(c)
    BY CellsOfIs
  <2>2. \A c \in Cells : d \in Covering(c) => l \in Covering(c) \/ r \in Covering(c) \/ c \in CellsOf(d)
    BY <1>6, CellsOfIs
  <2> QED BY <1>5, <2>1, <2>2 DEF Pool, CellsOf
<1>8. Pool(l) \cap Pool(r) = {}
  BY <1>3 DEF Pool, Covering
<1>9. CellsOf(d) \cap (Pool(l) \cup Pool(r)) = {}
  <2> SUFFICES ASSUME NEW c \in Cells, c \in CellsOf(d), NEW k \in {l, r}, k \in Covering(c) PROVE FALSE
    BY DEF Pool, CellsOf
  <2>1. d <= k
    BY CellsOfIs
  <2> QED BY <1>1, <1>2, <2>1
<1> QED BY <1>7, <1>8, <1>9

-----------------------------------------------------------------------------
(***************************************************************************)
(* The invariant.  While the region runs, what was charged to a depression *)
(* is what has been added to it and what the threads still hold for it;    *)
(* when a depression has been totalled, its numbers are those of its pool. *)
(***************************************************************************)
CountsOf(d) == [t \in Threads |-> tally[t][d].count]
SumsOf(d) == [t \in Threads |-> tally[t][d].sum]

IsCharged(d) ==
  /\ Cardinality(Charged(d)) = cells[d] + SumFunctionOnSet(CountsOf(d), Threads \ merged)
  /\ SumFunctionOnSet(Dem, Charged(d)) = elevation[d] + SumFunctionOnSet(SumsOf(d), Threads \ merged)

IsTotalled(d) ==
  /\ cells[d] = Cardinality(Pool(d))
  /\ elevation[d] = SumFunctionOnSet(Dem, Pool(d))
  /\ volume[d] = VolumeUnder(cells[d], elevation[d], deps[d].out_elev)

\* The types once the region has started, and its phases.
RegionTypes ==
  /\ tally \in [Threads -> [Labels -> [count : Nat, sum : Int]]]
  /\ cells \in [Labels -> Nat]
  /\ elevation \in [Labels -> Int]

Phases ==
  /\ todo = {}
  /\ merged # {} => left = {}
  /\ DOMAIN volume # {} => merged = Threads
  /\ \E n \in 0 .. size : DOMAIN volume = 0 .. n - 1

RegionInv ==
  /\ RegionTypes /\ Phases
  /\ \A d \in Labels \ DOMAIN volume : IsCharged(d)
  /\ \A d \in DOMAIN volume : IsTotalled(d)

VolumeInv ==
  /\ WalkInv
  /\ label \in Labelling(outlets) /\ left \subseteq Cells /\ merged \subseteq Threads
  /\ tally = <<>> => left = Cells /\ merged = {} /\ volume = <<>>
  /\ tally # <<>> => RegionInv

\* The invariant holds initially.
LEMMA VolumeInit == InitVolumes => VolumeInv
BY WalkInit DEF InitVolumes, VolumeInv

\* Parts of the raster are finite, so their numbers are numbers.
LEMMA CellSums ==
  ASSUME NEW S \in SUBSET Cells
  PROVE  /\ IsFiniteSet(S) /\ Cardinality(S) \in Nat
         /\ SumFunctionOnSet(Dem, S) \in Int
         /\ \A x \in S : Dem[x] \in Int
<1>1. IsFiniteSet(S) /\ \A x \in S : Dem[x] \in Int
  BY RasterAssumption, CellAssumption, FS_Subset
<1> QED BY <1>1, FS_CardinalityType, SumType

\* The tree does not change once the region has started.
SameTree == UNCHANGED <<vars, label>>

LEMMA SameCovering ==
  ASSUME SameTree
  PROVE  /\ Labels' = Labels
         /\ \A c \in Cells : Covering(c)' = Covering(c)
         /\ \A d : Pool(d)' = Pool(d)
<1>1. LeavesUnder' = LeavesUnder /\ Labels' = Labels
  BY DEF SameTree, vars, LeavesUnder, Labels
<1>2. \A c \in Cells : Covering(c)' = Covering(c)
  BY <1>1 DEF SameTree, vars, Covering
<1>3. \A d : Pool(d)' = {c \in Cells : d \in Covering(c)'}
  BY DEF Pool
<1>4. \A d : Pool(d)' = Pool(d)
  BY <1>2, <1>3 DEF Pool
<1> QED BY <1>1, <1>2, <1>4

\* Nothing more is charged, nothing more of what is charged changes.
LEMMA SameCharged ==
  ASSUME SameTree, left' = left
  PROVE  \A d : Charged(d)' = Charged(d)
<1>1. \A d : Charged(d)' = {c \in Cells \ left : Covering(c)' # {} /\ Min(Covering(c)') = d}
  BY DEF Charged
<1> QED BY <1>1, SameCovering DEF Charged

\* The parts of the invariant that no step of the region changes.
LEMMA RegionKeeps ==
  ASSUME VolumeInv, SameTree
  PROVE  WalkInv' /\ label' \in Labelling(outlets') /\ (todo = {} => todo' = {})
<1>1. [Next]_vars
  BY DEF SameTree
<1>2. WalkInv'
  BY <1>1, WalksNext DEF VolumeInv
<1> QED BY <1>2 DEF VolumeInv, SameTree, vars

\* The assembly goes on.
LEMMA AssembleKeeps ==
  ASSUME VolumeInv, Assemble
  PROVE  VolumeInv'
<1>1. WalkInv'
  BY WalksNext DEF VolumeInv, Assemble
<1>2. Next /\ label' = label /\ left' = left /\ merged' = merged /\ tally' = tally /\ volume' = volume
  BY DEF Assemble, volumeVars
<1>3. outlets' = outlets /\ todo # {}
  BY <1>2 DEF Next, Visit, Skip, LinkToOcean, Merge, Lowest
<1>4. tally = <<>>
  BY <1>3 DEF VolumeInv, RegionInv, Phases
<1>5. label' \in Labelling(outlets') /\ left' \subseteq Cells /\ merged' \subseteq Threads
  BY <1>2, <1>3 DEF VolumeInv, Labelling
<1>6. tally' = <<>> /\ left' = Cells /\ merged' = {} /\ volume' = <<>>
  BY <1>2, <1>4 DEF VolumeInv
<1> QED BY <1>1, <1>5, <1>6 DEF VolumeInv

\* The region starts with vectors of zeros.
LEMMA StartKeeps ==
  ASSUME VolumeInv, StartRegion
  PROVE  VolumeInv'
<1>1. /\ todo = {} /\ tally = <<>> /\ SameTree
      /\ tally' = [t \in Threads |-> NoCells]
      /\ cells' = [d \in Labels |-> 0] /\ elevation' = [d \in Labels |-> 0]
      /\ left' = left /\ merged' = merged /\ volume' = volume
  BY DEF StartRegion, SameTree
<1>2. WalkInv' /\ label' \in Labelling(outlets') /\ todo' = {}
  BY <1>1, RegionKeeps
<1>3. left = Cells /\ merged = {} /\ volume = <<>>
  BY <1>1 DEF VolumeInv
<1>4. tally' # <<>>
  BY <1>1, ThreadAssumption
<1>5. Labels' = Labels /\ size' = size /\ size \in Nat
  BY <1>1, SameCovering, WalkFacts DEF VolumeInv, SameTree, vars
<1>6. RegionTypes'
  BY <1>1, <1>5 DEF RegionTypes, NoCells
<1>7. Phases' /\ DOMAIN volume' = {}
  <2>1. DOMAIN volume' = {} /\ 0 .. 0 - 1 = {}
    BY <1>1, <1>3
  <2>2. 0 \in 0 .. size'
    BY <1>5
  <2> QED BY <1>1, <1>2, <1>3, <2>1, <2>2 DEF Phases
<1>8. ASSUME NEW d \in Labels PROVE IsCharged(d)'
  <2>1. Charged(d)' = {}
    BY <1>1, <1>3, SameCharged DEF Charged
  <2>2. /\ \A t \in Threads : CountsOf(d)'[t] = 0 /\ SumsOf(d)'[t] = 0
        /\ cells'[d] = 0 /\ elevation'[d] = 0
    BY <1>1 DEF CountsOf, SumsOf, NoCells
  <2>3. SumFunctionOnSet(CountsOf(d)', Threads) = 0 /\ SumFunctionOnSet(SumsOf(d)', Threads) = 0
    BY <2>2, ThreadAssumption, SumOfZeros
  <2>4. Threads \ merged' = Threads
    BY <1>1, <1>3
  <2>5. Cardinality({}) = 0 /\ SumFunctionOnSet(Dem, {}) = 0
    BY FS_EmptySet, SumOfNone
  <2> QED BY <2>1, <2>2, <2>3, <2>4, <2>5 DEF IsCharged
<1>9. RegionInv'
  BY <1>5, <1>6, <1>7, <1>8 DEF RegionInv
<1>10. left' \subseteq Cells /\ merged' \subseteq Threads
  BY <1>1 DEF VolumeInv
<1> QED BY <1>2, <1>4, <1>9, <1>10 DEF VolumeInv

\* A step of the region leaves it started.
LEMMA StillStarted ==
  ASSUME VolumeInv, tally # <<>>
  PROVE  /\ RegionTypes /\ Phases /\ WalkInv
         /\ IsFiniteSet(Threads) /\ Threads # {}
         /\ \A f : f \in [Threads -> [Labels -> [count : Nat, sum : Int]]] => f # <<>>
<1>1. ASSUME NEW f, f \in [Threads -> [Labels -> [count : Nat, sum : Int]]], f = <<>> PROVE FALSE
  <2>1. DOMAIN f = {}
    BY <1>1
  <2> QED BY <1>1, <2>1, ThreadAssumption
<1> QED BY <1>1, ThreadAssumption DEF VolumeInv, RegionInv

\* What the threads hold for a depression are numbers.
LEMMA TallyNumbers ==
  ASSUME RegionTypes, NEW d \in Labels, NEW t \in Threads
  PROVE  /\ tally[t][d].count \in Nat /\ tally[t][d].sum \in Int
         /\ CountsOf(d)[t] = tally[t][d].count /\ SumsOf(d)[t] = tally[t][d].sum
         /\ cells[d] \in Nat /\ elevation[d] \in Int
<1>1. tally[t][d] \in [count : Nat, sum : Int]
  BY DEF RegionTypes
<1> QED BY <1>1 DEF CountsOf, SumsOf, RegionTypes

\* A thread adds its counts: what it held is with the depressions now.
LEMMA AddTallyKeeps ==
  ASSUME VolumeInv, NEW t \in Threads, AddTally(t)
  PROVE  VolumeInv'
<1>1. /\ tally # <<>> /\ left = {} /\ t \notin merged /\ SameTree
      /\ cells' = [d \in Labels |-> cells[d] + tally[t][d].count]
      /\ elevation' = [d \in Labels |-> elevation[d] + tally[t][d].sum]
      /\ merged' = merged \cup {t}
      /\ left' = left /\ tally' = tally /\ volume' = volume
  BY DEF AddTally, SameTree
<1>2. WalkInv' /\ label' \in Labelling(outlets')
  BY <1>1, RegionKeeps
<1>3. /\ RegionTypes /\ Phases /\ IsFiniteSet(Threads) /\ merged \subseteq Threads
  BY <1>1, StillStarted DEF VolumeInv
<1>4. Labels' = Labels /\ size' = size
  BY <1>1, SameCovering DEF SameTree, vars
<1>5. RegionTypes'
  <2>1. \A d \in Labels : cells[d] + tally[t][d].count \in Nat /\ elevation[d] + tally[t][d].sum \in Int
    BY <1>3, TallyNumbers
  <2> QED BY <1>1, <1>3, <1>4, <2>1 DEF RegionTypes
<1>6. DOMAIN volume = {}
  BY <1>1, <1>3 DEF Phases
<1>7. Phases'
  <2>1. todo' = {}
    BY <1>1, <1>3, RegionKeeps DEF Phases
  <2> QED BY <1>1, <1>3, <1>4, <1>6, <2>1 DEF Phases
<1>8. ASSUME NEW d \in Labels PROVE IsCharged(d)'
  <2>1. IsCharged(d)
    BY <1>1, <1>6 DEF VolumeInv, RegionInv
  <2>2. PICK R : R = Threads \ merged
    OBVIOUS
  <2>3. Threads \ merged' = R \ {t} /\ t \in R /\ IsFiniteSet(R)
    BY <1>1, <1>3, <2>2, FS_Subset
  <2>4. PICK f, g : f = CountsOf(d) /\ g = SumsOf(d)
    OBVIOUS
  <2>5. CountsOf(d)' = f /\ SumsOf(d)' = g
    BY <1>1, <2>4 DEF CountsOf, SumsOf
  <2>6. \A s \in R : f[s] \in Int /\ g[s] \in Int
    BY <1>3, <2>2, <2>4, TallyNumbers
  <2>7. /\ SumFunctionOnSet(f, R) = f[t] + SumFunctionOnSet(f, R \ {t})
        /\ SumFunctionOnSet(g, R) = g[t] + SumFunctionOnSet(g, R \ {t})
    BY <2>3, <2>6, SumWithout
  <2>8. SumFunctionOnSet(f, R \ {t}) \in Int /\ SumFunctionOnSet(g, R \ {t}) \in Int
    <3>1. IsFiniteSet(R \ {t})
      BY <2>3, FS_Subset
    <3> QED BY <2>6, <3>1, SumType
  <2>9. Charged(d)' = Charged(d)
    BY <1>1, SameCharged
  <2>10. f[t] \in Int /\ g[t] \in Int /\ cells[d] \in Int /\ elevation[d] \in Int
    BY <1>3, <2>3, <2>6, TallyNumbers
  <2>11. cells'[d] = cells[d] + f[t] /\ elevation'[d] = elevation[d] + g[t]
    BY <1>1, <1>3, <2>4, TallyNumbers
  <2>12. /\ Cardinality(Charged(d)) = cells[d] + SumFunctionOnSet(f, R)
         /\ SumFunctionOnSet(Dem, Charged(d)) = elevation[d] + SumFunctionOnSet(g, R)
    BY <2>1, <2>2, <2>4 DEF IsCharged
  <2>13. PICK a, b : a = SumFunctionOnSet(f, R \ {t}) /\ b = SumFunctionOnSet(g, R \ {t})
    OBVIOUS
  <2>14. a \in Int /\ b \in Int
    BY <2>8, <2>13
  <2>15. /\ Cardinality(Charged(d)) = cells[d] + (f[t] + a)
         /\ SumFunctionOnSet(Dem, Charged(d)) = elevation[d] + (g[t] + b)
    BY <2>7, <2>12, <2>13
  <2>16. /\ Cardinality(Charged(d)) = cells'[d] + a
         /\ SumFunctionOnSet(Dem, Charged(d)) = elevation'[d] + b
    BY <2>10, <2>11, <2>14, <2>15
  <2> QED BY <2>3, <2>5, <2>9, <2>13, <2>16 DEF IsCharged
<1>9. RegionInv'
  BY <1>1, <1>4, <1>5, <1>6, <1>7, <1>8 DEF RegionInv
<1>10. tally' # <<>> /\ left' \subseteq Cells /\ merged' \subseteq Threads
  BY <1>1, <1>3
<1> QED BY <1>2, <1>9, <1>10 DEF VolumeInv

\* A thread charges a cell: the counts of the cell's holder go up by one, and no others.
LEMMA ChargeKeeps ==
  ASSUME VolumeInv, NEW t \in Threads, Charge(t)
  PROVE  VolumeInv'
<1>1. PICK c \in left :
        /\ left' = left \ {c}
        /\ tally' = IF Holder(c) = OCEAN THEN tally
                    ELSE [tally EXCEPT ![t][Holder(c)] =
                            [count |-> @.count + 1, sum |-> @.sum + Dem[c]]]
  BY DEF Charge
<1>2. /\ tally # <<>> /\ SameTree
      /\ cells' = cells /\ elevation' = elevation /\ merged' = merged /\ volume' = volume
  BY DEF Charge, SameTree
<1>3. WalkInv' /\ label' \in Labelling(outlets')
  BY <1>2, RegionKeeps
<1>4. /\ RegionTypes /\ Phases /\ WalkInv /\ IsFiniteSet(Threads) /\ left \subseteq Cells
      /\ \A f : f \in [Threads -> [Labels -> [count : Nat, sum : Int]]] => f # <<>>
  BY <1>2, StillStarted DEF VolumeInv
<1>5. merged = {} /\ DOMAIN volume = {}
  BY <1>1, <1>4, ThreadAssumption DEF Phases
<1>6. c \in Cells /\ Dem[c] \in Int /\ c \notin left' /\ label[c] \in LeafLabels
  BY <1>1, <1>4, WalkFacts DEF VolumeInv, Labelling
<1>7. PICK h : h = Holder(c)
  OBVIOUS
<1>8. h = IF Covering(c) = {} THEN OCEAN ELSE Min(Covering(c))
  BY <1>4, <1>6, <1>7, HolderIs
<1>9. /\ Labels' = Labels /\ size' = size /\ OCEAN \in Labels
      /\ \A e \in Covering(c) : e \in Labels \ {OCEAN} /\ e \in Nat
  BY <1>2, <1>4, SameCovering, WalkFacts DEF SameTree, vars, Covering
<1>10. (Covering(c) # {} => h \in Covering(c)) /\ h \in Labels /\ (h = OCEAN <=> Covering(c) = {})
  <2>1. CASE Covering(c) = {}
    BY <1>8, <1>9, <2>1
  <2>2. CASE Covering(c) # {}
    <3>1. Min(Covering(c)) \in Covering(c)
      BY <1>9, <2>2, MinOfNats
    <3> QED BY <1>8, <1>9, <2>2, <3>1
  <2> QED BY <2>1, <2>2
<1>11. tally' = IF h = OCEAN THEN tally
                ELSE [tally EXCEPT ![t][h] = [count |-> @.count + 1, sum |-> @.sum + Dem[c]]]
  BY <1>1, <1>7
<1>12. RegionTypes'
  <2>1. tally[t][h].count + 1 \in Nat /\ tally[t][h].sum + Dem[c] \in Int
    BY <1>4, <1>6, <1>10, TallyNumbers
  <2>2. tally' \in [Threads -> [Labels -> [count : Nat, sum : Int]]]
    BY <1>4, <1>11, <2>1 DEF RegionTypes
  <2> QED BY <1>2, <1>4, <1>9, <2>2 DEF RegionTypes
<1>13. Phases'
  <2>1. todo' = {}
    BY <1>2, <1>4, RegionKeeps DEF Phases
  <2> QED BY <1>2, <1>4, <1>5, <1>9, <2>1 DEF Phases
<1>14. \A d \in Labels, s \in Threads :
         tally'[s][d] = IF h # OCEAN /\ s = t /\ d = h
                        THEN [count |-> tally[t][h].count + 1, sum |-> tally[t][h].sum + Dem[c]]
                        ELSE tally[s][d]
  BY <1>4, <1>11 DEF RegionTypes
<1>15. \A d : Charged(d)' = {e \in Cells \ left' : Covering(e) # {} /\ Min(Covering(e)) = d}
  <2>1. \A d : Charged(d)' = {e \in Cells \ left' : Covering(e)' # {} /\ Min(Covering(e)') = d}
    BY DEF Charged
  <2> QED BY <1>2, <2>1, SameCovering
<1>16. ASSUME NEW d \in Labels PROVE IsCharged(d)'
  <2>1. IsCharged(d)
    BY <1>2, <1>5 DEF VolumeInv, RegionInv
  <2>2. PICK f, g : f = CountsOf(d) /\ g = SumsOf(d)
    OBVIOUS
  <2>3. PICK p, q : p = CountsOf(d)' /\ q = SumsOf(d)'
    OBVIOUS
  <2>4. \A s \in Threads : /\ f[s] = tally[s][d].count /\ g[s] = tally[s][d].sum
                           /\ p[s] = tally'[s][d].count /\ q[s] = tally'[s][d].sum
    BY <2>2, <2>3 DEF CountsOf, SumsOf
  <2>5. \A s \in Threads : f[s] \in Int /\ g[s] \in Int
    BY <1>4, <2>2, TallyNumbers
  <2>6. Threads \ merged = Threads /\ Threads \ merged' = Threads
    BY <1>2, <1>5
  <2>7. /\ Cardinality(Charged(d)) = cells[d] + SumFunctionOnSet(f, Threads)
        /\ SumFunctionOnSet(Dem, Charged(d)) = elevation[d] + SumFunctionOnSet(g, Threads)
    BY <2>1, <2>2, <2>6 DEF IsCharged
  <2>8. Charged(d) \in SUBSET Cells /\ c \notin Charged(d)
    BY <1>1 DEF Charged
  <2>9. CASE h # OCEAN /\ d = h
    <3>1. Charged(d)' = Charged(d) \cup {c}
      BY <1>1, <1>4, <1>6, <1>8, <1>10, <1>15, <2>9 DEF Charged
    <3>2. /\ p[t] = f[t] + 1 /\ q[t] = g[t] + Dem[c]
          /\ \A s \in Threads \ {t} : p[s] = f[s] /\ q[s] = g[s]
      BY <1>14, <2>4, <2>9
    <3>3. /\ SumFunctionOnSet(p, Threads) = SumFunctionOnSet(f, Threads) + 1
          /\ SumFunctionOnSet(q, Threads) = SumFunctionOnSet(g, Threads) + Dem[c]
      BY <1>4, <1>6, <2>5, <3>2, SumChanged
    <3>4. Cardinality(Charged(d) \cup {c}) = Cardinality(Charged(d)) + 1
      BY <2>8, CellSums, FS_AddElement
    <3>5. SumFunctionOnSet(Dem, Charged(d) \cup {c}) = Dem[c] + SumFunctionOnSet(Dem, Charged(d))
      <4>1. IsFiniteSet(Charged(d)) /\ \A y \in Charged(d) \cup {c} : Dem[y] \in Int
        BY <1>6, <2>8, CellSums
      <4> QED BY <2>8, <4>1, SumWith
    <3>6. PICK a, b : a = SumFunctionOnSet(f, Threads) /\ b = SumFunctionOnSet(g, Threads)
      OBVIOUS
    <3>7. a \in Int /\ b \in Int /\ cells[d] \in Int /\ elevation[d] \in Int
      BY <1>4, <2>5, <3>6, SumType, TallyNumbers
    <3>8. /\ Cardinality(Charged(d) \cup {c}) = (cells[d] + a) + 1
          /\ SumFunctionOnSet(Dem, Charged(d) \cup {c}) = Dem[c] + (elevation[d] + b)
      BY <2>7, <3>4, <3>5, <3>6
    <3>9. /\ Cardinality(Charged(d) \cup {c}) = cells[d] + (a + 1)
          /\ SumFunctionOnSet(Dem, Charged(d) \cup {c}) = elevation[d] + (b + Dem[c])
      BY <1>6, <3>7, <3>8
    <3>10. SumFunctionOnSet(p, Threads) = a + 1 /\ SumFunctionOnSet(q, Threads) = b + Dem[c]
      BY <3>3, <3>6
    <3> QED BY <1>2, <2>3, <2>6, <3>1, <3>9, <3>10 DEF IsCharged
  <2>10. CASE ~ (h # OCEAN /\ d = h)
    <3>1. Charged(d)' = Charged(d)
      <4>1. ~ (Covering(c) # {} /\ Min(Covering(c)) = d)
        BY <1>8, <1>10, <2>10
      <4> QED BY <1>1, <1>4, <1>15, <4>1 DEF Charged
    <3>2. \A s \in Threads : p[s] = f[s] /\ q[s] = g[s]
      BY <1>14, <2>4, <2>10
    <3>3. /\ SumFunctionOnSet(p, Threads) = SumFunctionOnSet(f, Threads)
          /\ SumFunctionOnSet(q, Threads) = SumFunctionOnSet(g, Threads)
      BY <1>4, <2>5, <3>2, SumAgrees
    <3> QED BY <1>2, <2>3, <2>6, <2>7, <3>1, <3>3 DEF IsCharged
  <2> QED BY <2>9, <2>10
<1>17. RegionInv'
  BY <1>2, <1>5, <1>9, <1>12, <1>13, <1>16 DEF RegionInv
<1>18. tally' # <<>>
  BY <1>4, <1>9, <1>12 DEF RegionTypes
<1>19. left' \subseteq Cells /\ merged' \subseteq Threads
  BY <1>1, <1>4, <1>5, <1>2
<1> QED BY <1>3, <1>17, <1>18, <1>19 DEF VolumeInv

\* The counts and the sums of two sets with nothing in common.
LEMMA DisjointSums ==
  ASSUME NEW S \in SUBSET Cells, NEW T \in SUBSET Cells, S \cap T = {}
  PROVE  /\ Cardinality(S \cup T) = Cardinality(S) + Cardinality(T)
         /\ SumFunctionOnSet(Dem, S \cup T) = SumFunctionOnSet(Dem, S) + SumFunctionOnSet(Dem, T)
<1>1. /\ IsFiniteSet(S) /\ IsFiniteSet(T) /\ Cardinality(S) \in Nat /\ Cardinality(T) \in Nat
      /\ \A x \in S \cup T : Dem[x] \in Int
  BY CellSums
<1>2. Cardinality(S \cup T) = Cardinality(S) + Cardinality(T) - Cardinality(S \cap T)
  BY <1>1, FS_Union
<1>3. Cardinality(S \cap T) = 0
  BY FS_EmptySet
<1> QED BY <1>1, <1>2, <1>3, SumOfUnion

\* When all threads have added their counts, a depression not totalled has the numbers
\* of the cells charged to it.
LEMMA AllAdded ==
  ASSUME VolumeInv, tally # <<>>, merged = Threads, NEW d \in Labels \ DOMAIN volume
  PROVE  cells[d] = Cardinality(CellsOf(d)) /\ elevation[d] = SumFunctionOnSet(Dem, CellsOf(d))
<1>1. RegionTypes /\ left = {} /\ IsCharged(d)
  BY ThreadAssumption DEF VolumeInv, RegionInv, Phases
<1>2. Charged(d) = CellsOf(d)
  BY <1>1 DEF Charged, CellsOf
<1>3. Threads \ merged = {}
  OBVIOUS
<1>4. cells[d] \in Int /\ elevation[d] \in Int
  BY <1>1 DEF RegionTypes
<1>5. /\ Cardinality(CellsOf(d)) = cells[d] + SumFunctionOnSet(CountsOf(d), {})
      /\ SumFunctionOnSet(Dem, CellsOf(d)) = elevation[d] + SumFunctionOnSet(SumsOf(d), {})
  BY <1>1, <1>2, <1>3 DEF IsCharged
<1>6. /\ Cardinality(CellsOf(d)) = cells[d] + 0
      /\ SumFunctionOnSet(Dem, CellsOf(d)) = elevation[d] + 0
  BY <1>5, SumOfNone
<1> QED BY <1>4, <1>6

\* With its children's numbers, which are totalled, a depression has those of its pool.
LEMMA WithChildrenIs ==
  ASSUME VolumeInv, tally # <<>>, merged = Threads, NEW d \in Labels,
         DOMAIN volume = 0 .. d - 1
  PROVE  /\ WithChildren(cells, d) = Cardinality(Pool(d))
         /\ WithChildren(elevation, d) = SumFunctionOnSet(Dem, Pool(d))
<1>1. /\ TreesInv /\ NLeaf \in Nat /\ WalkInv /\ NO_VALUE \notin Labels
      /\ \A m \in Labels : m \in Nat
  BY WalkFacts, LeafAssumption DEF VolumeInv
<1>2. cells[d] = Cardinality(CellsOf(d)) /\ elevation[d] = SumFunctionOnSet(Dem, CellsOf(d))
  BY <1>1, AllAdded
<1>3. CASE d <= NLeaf
  <2>1. deps[d].lchild = NO_VALUE
    BY <1>1, <1>3, TreeFacts, ForestParts DEF TreesInv, LeafShape
  <2> QED BY <1>1, <1>2, <1>3, <2>1, LeafPool DEF WithChildren
<1>4. CASE d > NLeaf
  <2>1. PICK l, r : l = deps[d].lchild /\ r = deps[d].rchild
    OBVIOUS
  <2>2. \A k \in {l, r} : k \in Labels /\ k < d
    BY <1>1, <1>4, <2>1, Below
  <2>3. /\ Pool(d) = CellsOf(d) \cup (Pool(l) \cup Pool(r))
        /\ Pool(l) \cap Pool(r) = {} /\ CellsOf(d) \cap (Pool(l) \cup Pool(r)) = {}
    BY <1>1, <1>4, <2>1, MetaPool
  <2>4. \A k \in {l, r} : k \in DOMAIN volume
    BY <1>1, <2>2
  <2>5. \A k \in {l, r} : cells[k] = Cardinality(Pool(k)) /\ elevation[k] = SumFunctionOnSet(Dem, Pool(k))
    BY <2>4 DEF VolumeInv, RegionInv, IsTotalled
  <2>6. l # NO_VALUE
    BY <1>1, <2>2
  <2>7. /\ WithChildren(cells, d) = cells[d] + cells[l] + cells[r]
        /\ WithChildren(elevation, d) = elevation[d] + elevation[l] + elevation[r]
    BY <2>1, <2>6 DEF WithChildren
  <2>8. Pool(l) \in SUBSET Cells /\ Pool(r) \in SUBSET Cells /\ CellsOf(d) \in SUBSET Cells
    BY DEF Pool, CellsOf
  <2>9. PICK A, B, C : A = Pool(l) /\ B = Pool(r) /\ C = CellsOf(d)
    OBVIOUS
  <2>10. /\ Cardinality(A \cup B) = Cardinality(A) + Cardinality(B)
         /\ SumFunctionOnSet(Dem, A \cup B) = SumFunctionOnSet(Dem, A) + SumFunctionOnSet(Dem, B)
    BY <2>3, <2>8, <2>9, DisjointSums
  <2>11. /\ Cardinality(C \cup (A \cup B)) = Cardinality(C) + Cardinality(A \cup B)
         /\ SumFunctionOnSet(Dem, C \cup (A \cup B)) = SumFunctionOnSet(Dem, C) + SumFunctionOnSet(Dem, A \cup B)
    <3>1. A \cup B \in SUBSET Cells /\ C \cap (A \cup B) = {}
      BY <2>3, <2>8, <2>9
    <3> QED BY <2>8, <2>9, <3>1, DisjointSums
  <2>12. /\ Cardinality(A) \in Int /\ Cardinality(B) \in Int /\ Cardinality(C) \in Int
         /\ SumFunctionOnSet(Dem, A) \in Int /\ SumFunctionOnSet(Dem, B) \in Int
         /\ SumFunctionOnSet(Dem, C) \in Int
    BY <2>8, <2>9, CellSums
  <2>13. \A x \in Int, y \in Int, z \in Int : x + y + z = x + (y + z)
    OBVIOUS
  <2>14. /\ WithChildren(cells, d) = Cardinality(C) + Cardinality(A) + Cardinality(B)
         /\ WithChildren(elevation, d)
              = SumFunctionOnSet(Dem, C) + SumFunctionOnSet(Dem, A) + SumFunctionOnSet(Dem, B)
    BY <1>2, <2>5, <2>7, <2>9
  <2>15. /\ WithChildren(cells, d) = Cardinality(C \cup (A \cup B))
         /\ WithChildren(elevation, d) = SumFunctionOnSet(Dem, C \cup (A \cup B))
    BY <2>10, <2>11, <2>12, <2>13, <2>14
  <2> QED BY <2>3, <2>9, <2>15
<1> QED BY <1>1, <1>3, <1>4

\* One more label is totalled.
LEMMA TotalKeeps ==
  ASSUME VolumeInv, TotalNext
  PROVE  VolumeInv'
<1>1. PICK d : d = NextUntotalled
  OBVIOUS
<1>2. PICK count, sum : count = WithChildren(cells, d) /\ sum = WithChildren(elevation, d)
  OBVIOUS
<1>3. /\ tally # <<>> /\ merged = Threads /\ DOMAIN volume # Labels /\ SameTree
      /\ cells' = [cells EXCEPT ![d] = count] /\ elevation' = [elevation EXCEPT ![d] = sum]
      /\ volume' = [e \in DOMAIN volume \cup {d} |->
                      IF e = d THEN VolumeUnder(count, sum, deps[d].out_elev) ELSE volume[e]]
      /\ left' = left /\ tally' = tally /\ merged' = merged
  BY <1>1, <1>2 DEF TotalNext, SameTree
<1>4. /\ RegionTypes /\ Phases /\ WalkInv /\ left \subseteq Cells /\ merged \subseteq Threads
      /\ WalkInv' /\ label' \in Labelling(outlets') /\ todo' = {}
      /\ Labels' = Labels /\ size' = size /\ size \in Nat
  <2>1. RegionTypes /\ Phases /\ WalkInv /\ todo = {}
    BY <1>3, StillStarted DEF Phases
  <2> QED BY <1>3, <2>1, RegionKeeps, SameCovering, WalkFacts DEF VolumeInv, SameTree, vars
<1>5. d \in Labels /\ d \in Nat /\ DOMAIN volume = 0 .. d - 1 /\ d < size
  <2>1. PICK n \in 0 .. size : DOMAIN volume = 0 .. n - 1
    BY <1>4 DEF Phases
  <2>2. n \in 0 .. size - 1
    BY <1>3, <1>4, <2>1 DEF Labels
  <2>3. Labels \ DOMAIN volume = n .. size - 1
    BY <1>4, <2>1, <2>2 DEF Labels
  <2>4. Min(n .. size - 1) = n
    <3>1. n .. size - 1 \subseteq Nat /\ n \in n .. size - 1 /\ \A y \in n .. size - 1 : n <= y
      BY <1>4, <2>2
    <3> QED BY <3>1, MinIs
  <2>5. d = n
    BY <1>1, <2>3, <2>4 DEF NextUntotalled
  <2> QED BY <1>4, <2>1, <2>2, <2>5 DEF Labels
<1>6. count = Cardinality(Pool(d)) /\ sum = SumFunctionOnSet(Dem, Pool(d))
  BY <1>2, <1>3, <1>5, WithChildrenIs
<1>7. count \in Nat /\ sum \in Int
  <2>1. Pool(d) \in SUBSET Cells
    BY DEF Pool
  <2> QED BY <1>6, <2>1, CellSums
<1>8. RegionTypes'
  BY <1>3, <1>4, <1>5, <1>7 DEF RegionTypes
<1>9. DOMAIN volume' = DOMAIN volume \cup {d} /\ DOMAIN volume' = 0 .. (d + 1) - 1
  BY <1>3, <1>5
<1>10. Phases'
  <2>1. d + 1 \in 0 .. size'
    BY <1>4, <1>5
  <2>2. \E n \in 0 .. size' : DOMAIN volume' = 0 .. n - 1
    BY <1>9, <2>1
  <2> QED BY <1>3, <1>4, <2>2 DEF Phases
<1>11. /\ \A e \in Labels \ {d} : cells'[e] = cells[e] /\ elevation'[e] = elevation[e]
       /\ cells'[d] = count /\ elevation'[d] = sum
       /\ \A e \in DOMAIN volume : volume'[e] = volume[e]
       /\ volume'[d] = VolumeUnder(count, sum, deps[d].out_elev)
  BY <1>3, <1>4, <1>5 DEF RegionTypes
<1>12. /\ \A e : Charged(e)' = Charged(e) /\ Pool(e)' = Pool(e)
       /\ deps' = deps
  BY <1>3, SameCovering, SameCharged DEF SameTree, vars
<1>13. ASSUME NEW e \in Labels \ DOMAIN volume' PROVE IsCharged(e)'
  <2>1. IsCharged(e) /\ e \in Labels \ {d}
    BY <1>3, <1>9 DEF VolumeInv, RegionInv
  <2>2. CountsOf(e)' = CountsOf(e) /\ SumsOf(e)' = SumsOf(e)
    BY <1>3 DEF CountsOf, SumsOf
  <2> QED BY <1>3, <1>11, <1>12, <2>1, <2>2 DEF IsCharged
<1>14. ASSUME NEW e \in DOMAIN volume' PROVE IsTotalled(e)'
  <2>1. CASE e = d
    BY <1>6, <1>11, <1>12, <2>1 DEF IsTotalled
  <2>2. CASE e # d
    <3>1. e \in DOMAIN volume /\ e \in Labels \ {d}
      BY <1>4, <1>5, <1>9, <2>2 DEF Labels
    <3>2. IsTotalled(e)
      BY <1>3, <3>1 DEF VolumeInv, RegionInv
    <3> QED BY <1>11, <1>12, <3>1, <3>2 DEF IsTotalled
  <2> QED BY <2>1, <2>2
<1>15. RegionInv'
  BY <1>4, <1>8, <1>10, <1>13, <1>14 DEF RegionInv
<1> QED BY <1>3, <1>4, <1>15 DEF VolumeInv

\* A step that changes nothing.
LEMMA NothingKeeps ==
  ASSUME VolumeInv, UNCHANGED allVars
  PROVE  VolumeInv'
<1>1. /\ SameTree /\ left' = left /\ tally' = tally /\ merged' = merged
      /\ cells' = cells /\ elevation' = elevation /\ volume' = volume
  BY DEF allVars, volumeVars, SameTree
<1>2. WalkInv' /\ label' \in Labelling(outlets') /\ (todo = {} => todo' = {})
  BY <1>1, RegionKeeps
<1>3. /\ left' \subseteq Cells /\ merged' \subseteq Threads
      /\ tally' = <<>> => left' = Cells /\ merged' = {} /\ volume' = <<>>
  BY <1>1 DEF VolumeInv
<1>4. ASSUME tally # <<>> PROVE RegionInv'
  <2>1. RegionInv
    BY <1>4 DEF VolumeInv
  <2>2. /\ Labels' = Labels /\ size' = size /\ deps' = deps
        /\ \A d : Charged(d)' = Charged(d) /\ Pool(d)' = Pool(d)
    BY <1>1, SameCovering, SameCharged DEF SameTree, vars
  <2>3. RegionTypes' /\ Phases'
    BY <1>1, <1>2, <2>1, <2>2 DEF RegionInv, RegionTypes, Phases
  <2>4. \A d : CountsOf(d)' = CountsOf(d) /\ SumsOf(d)' = SumsOf(d)
    BY <1>1 DEF CountsOf, SumsOf
  <2>5. \A d \in Labels \ DOMAIN volume : IsCharged(d)'
    BY <1>1, <2>1, <2>2, <2>4 DEF RegionInv, IsCharged
  <2>6. \A d \in DOMAIN volume : IsTotalled(d)'
    BY <1>1, <2>1, <2>2 DEF RegionInv, IsTotalled
  <2> QED BY <1>1, <2>2, <2>3, <2>5, <2>6 DEF RegionInv
<1> QED BY <1>1, <1>2, <1>3, <1>4 DEF VolumeInv

\* The invariant holds throughout.
LEMMA VolumeNext == VolumeInv /\ [NextVolumes]_allVars => VolumeInv'
<1> SUFFICES ASSUME VolumeInv, [NextVolumes]_allVars PROVE VolumeInv'
  OBVIOUS
<1>1. CASE Assemble
  BY <1>1, AssembleKeeps
<1>2. CASE StartRegion
  BY <1>2, StartKeeps
<1>3. CASE \E t \in Threads : Charge(t) \/ AddTally(t)
  BY <1>3, ChargeKeeps, AddTallyKeeps
<1>4. CASE TotalNext
  BY <1>4, TotalKeeps
<1>5. CASE UNCHANGED allVars
  BY <1>5, NothingKeeps
<1> QED BY <1>1, <1>2, <1>3, <1>4, <1>5 DEF NextVolumes

-----------------------------------------------------------------------------
(***************************************************************************)
(* What the invariant says of the volumes.                                 *)
(***************************************************************************)
\* The depths of the cells of a pool under its spill.
DepthsUnder(k) == [c \in Cells |-> k - Dem[c]]

\* Under a level that no member rises above, the depths of a set add up to a number.
LEMMA DepthSums ==
  ASSUME NEW S \in SUBSET Cells, NEW k \in Int, \A c \in S : Dem[c] <= k
  PROVE  /\ SumFunctionOnSet(DepthsUnder(k), S) = Cardinality(S) * k - SumFunctionOnSet(Dem, S)
         /\ SumFunctionOnSet(DepthsUnder(k), S) \in Nat
<1>1. IsFiniteSet(S) /\ \A x \in S : Dem[x] \in Int
  BY CellSums
<1>2. \A x \in S : DepthsUnder(k)[x] = k - Dem[x]
  BY DEF DepthsUnder
<1>3. SumFunctionOnSet(DepthsUnder(k), S) = Cardinality(S) * k - SumFunctionOnSet(Dem, S)
  BY <1>1, <1>2, SumUnderLevel
<1>4. \A x \in S : DepthsUnder(k)[x] \in Nat
  BY <1>1, <1>2
<1> QED BY <1>1, <1>3, <1>4, SumOfNats

\* No depression is without a leaf.
LEMMA UnderIsNotEmpty ==
  ASSUME WalkInv, NEW d \in Labels
  PROVE  LeavesUnder[d] # {}
<1> DEFINE Bad == {e \in Labels : LeavesUnder[e] = {}}
<1>1. TreesInv /\ NLeaf \in Nat /\ \A l \in Labels : l \in Nat
  BY WalkFacts, LeafAssumption
<1>2. Bad = {}
  <2> SUFFICES ASSUME Bad # {} PROVE FALSE
    OBVIOUS
  <2>1. Bad \subseteq Nat
    BY <1>1
  <2>2. PICK e \in Bad : \A m \in Bad : e <= m
    <3> HIDE DEF Bad
    <3> QED BY <2>1, Least
  <2>3. e \in Labels /\ LeavesUnder[e] = {} /\ e \in Nat
    BY <1>1
  <2>4. CASE e <= NLeaf
    BY <1>1, <2>3, <2>4, Below
  <2>5. CASE e > NLeaf
    <3>1. PICK l : l = deps[e].lchild
      OBVIOUS
    <3>2. l \in Labels /\ l < e /\ LeavesUnder[l] \subseteq LeavesUnder[e]
      BY <1>1, <2>3, <2>5, <3>1, Below
    <3>3. l \in Bad
      BY <2>3, <3>2
    <3> QED BY <1>1, <2>2, <2>3, <3>2, <3>3
  <2> QED BY <1>1, <2>3, <2>4, <2>5
<1> QED BY <1>2

\* A depression above the leaves that never spills holds a pit at least.
LEMMA DeepHoldsPit ==
  ASSUME VolumeInv, NEW d \in Labels \ {OCEAN}, ~ (deps[d].out_elev < INF)
  PROVE  Pool(d) # {}
<1>1. WalkInv /\ label \in Labelling(outlets)
  BY DEF VolumeInv
<1>2. PICK m \in Leaves : m \in LeavesUnder[d]
  BY <1>1, UnderIsNotEmpty DEF WalkInv, SpillInv, UnderIsLand
<1>3. Pit[m] \in Cells /\ label[Pit[m]] = m
  BY <1>1, CellAssumption DEF Labelling
<1>4. Dem[Pit[m]] <= deps[d].out_elev
  BY <1>1, <1>3, WalkFacts
<1>5. Pit[m] \in Pool(d)
  BY <1>2, <1>3, <1>4 DEF Pool, Covering
<1> QED BY <1>5

\* The numbers of a depression that is totalled.
LEMMA TotalledIs ==
  ASSUME VolumeInv, NEW d \in DOMAIN volume
  PROVE  /\ d \in Labels /\ Pool(d) \in SUBSET Cells /\ deps[d].out_elev \in Int
         /\ \A c \in Pool(d) : Dem[c] <= deps[d].out_elev
         /\ cells[d] = Cardinality(Pool(d))
         /\ deps[d].out_elev < INF =>
              /\ volume[d] = SumFunctionOnSet(DepthsUnder(deps[d].out_elev), Pool(d))
              /\ volume[d] \in Nat
         /\ ~ (deps[d].out_elev < INF) =>
              volume[d] = IF Cardinality(Pool(d)) = 0 THEN NAN ELSE INF
<1>1. tally # <<>>
  BY DEF VolumeInv
<1>2. RegionInv /\ WalkInv
  BY <1>1 DEF VolumeInv
<1>3. d \in Labels
  <2>1. PICK n \in 0 .. size : DOMAIN volume = 0 .. n - 1
    BY <1>2 DEF RegionInv, Phases
  <2> QED BY <1>2, <2>1, WalkFacts DEF Labels
<1>4. PICK k : k = deps[d].out_elev
  OBVIOUS
<1>5. k \in Int /\ Pool(d) \in SUBSET Cells /\ \A c \in Pool(d) : Dem[c] <= k
  BY <1>2, <1>3, <1>4, WalkFacts DEF Pool, Covering
<1>6. /\ cells[d] = Cardinality(Pool(d)) /\ elevation[d] = SumFunctionOnSet(Dem, Pool(d))
      /\ volume[d] = VolumeUnder(cells[d], elevation[d], k)
  BY <1>2, <1>4 DEF RegionInv, IsTotalled
<1>7. ASSUME k < INF PROVE volume[d] = SumFunctionOnSet(DepthsUnder(k), Pool(d)) /\ volume[d] \in Nat
  <2>1. volume[d] = Cardinality(Pool(d)) * k - SumFunctionOnSet(Dem, Pool(d))
    BY <1>6, <1>7 DEF VolumeUnder
  <2> QED BY <1>5, <2>1, DepthSums
<1>8. ASSUME ~ (k < INF) PROVE volume[d] = IF Cardinality(Pool(d)) = 0 THEN NAN ELSE INF
  BY <1>6, <1>8 DEF VolumeUnder
<1> QED BY <1>3, <1>4, <1>5, <1>6, <1>7, <1>8

\* The state has its types.
LEMMA VolumeTypes == VolumeInv => VolumesTypeOK
<1> SUFFICES ASSUME VolumeInv PROVE VolumesTypeOK
  OBVIOUS
<1>1. label \in [Cells -> LeafLabels] /\ left \subseteq Cells /\ merged \subseteq Threads
  BY DEF VolumeInv, Labelling
<1>2. tally # <<>> => RegionTypes
  BY DEF VolumeInv, RegionInv
<1>3. DOMAIN volume \in {0 .. n - 1 : n \in 0 .. size}
  <2>1. CASE tally = <<>>
    <3>1. DOMAIN volume = 0 .. 0 - 1
      BY <2>1 DEF VolumeInv
    <3>2. 0 \in 0 .. size
      BY WalkFacts DEF VolumeInv
    <3> QED BY <3>1, <3>2
  <2>2. CASE tally # <<>>
    BY <2>2 DEF VolumeInv, RegionInv, Phases
  <2> QED BY <2>1, <2>2
<1>4. \A d \in DOMAIN volume : volume[d] \in Nat \cup {INF, NAN}
  BY TotalledIs
<1> QED BY <1>1, <1>2, <1>3, <1>4 DEF VolumesTypeOK, RegionTypes

\* The counts of the region and the volumes are right.
LEMMA VolumesAreRight == VolumeInv => CellsAreChargedOnce /\ VolumeIsWaterDepth
<1> SUFFICES ASSUME VolumeInv PROVE CellsAreChargedOnce /\ VolumeIsWaterDepth
  OBVIOUS
<1>1. CellsAreChargedOnce
  <2> SUFFICES ASSUME tally # <<>>, volume = <<>>, NEW d \in Labels PROVE IsCharged(d)
    BY DEF CellsAreChargedOnce, IsCharged, CountsOf, SumsOf
  <2>1. DOMAIN volume = {}
    OBVIOUS
  <2> QED BY <2>1 DEF VolumeInv, RegionInv
<1>2. VolumeIsWaterDepth
  <2> SUFFICES ASSUME NEW d \in DOMAIN volume \ {OCEAN}
               PROVE  /\ cells[d] = Cardinality(Pool(d))
                      /\ deps[d].out_elev < INF =>
                           volume[d] = SumFunctionOnSet(DepthsUnder(deps[d].out_elev), Pool(d))
    BY DEF VolumeIsWaterDepth, Pool, DepthsUnder
  <2> QED BY TotalledIs
<1> QED BY <1>1, <1>2

\* A parent holds what its children hold: their pools are parts of its pool, and
\* under its outlet, which is no lower, every cell of them is at least as deep.
LEMMA ChildrenHold == VolumeInv => ChildrenHoldLess
<1> SUFFICES ASSUME VolumeInv, NEW d \in DOMAIN volume, deps[d].lchild # NO_VALUE,
                    NEW l, NEW r, l = deps[d].lchild, r = deps[d].rchild
             PROVE  /\ {l, r} \subseteq DOMAIN volume
                    /\ volume[d] # INF => volume[l] + volume[r] <= volume[d]
  BY DEF ChildrenHoldLess
<1>1. /\ WalkInv /\ TreesInv /\ NLeaf \in Nat /\ d \in Labels
      /\ \A m \in Labels : m \in Nat /\ deps[m].out_elev \in Int
      /\ INF \in Int
  BY TotalledIs, WalkFacts, LeafAssumption, SentinelAssumption DEF VolumeInv
<1>2. d > NLeaf /\ d # OCEAN
  <2>1. ~ (d <= NLeaf)
    BY <1>1, TreeFacts, ForestParts DEF TreesInv, LeafShape
  <2> QED BY <1>1, <2>1 DEF OCEAN
<1>3. \A k \in {l, r} : k \in Labels /\ k < d /\ deps[k].out_elev <= deps[d].out_elev
  BY <1>1, <1>2, Below
<1>4. {l, r} \subseteq DOMAIN volume
  <2>1. PICK n \in 0 .. size : DOMAIN volume = 0 .. n - 1
    BY VolumeTypes DEF VolumesTypeOK
  <2> QED BY <1>1, <1>3, <2>1
<1>5. ASSUME volume[d] # INF PROVE volume[l] + volume[r] <= volume[d]
  <2>1. PICK k : k = deps[d].out_elev
    OBVIOUS
  <2>2. k < INF
    <3> SUFFICES ASSUME ~ (k < INF) PROVE FALSE
      OBVIOUS
    <3>1. Pool(d) # {} /\ Pool(d) \in SUBSET Cells
      BY <1>1, <1>2, <2>1, DeepHoldsPit, TotalledIs
    <3>2. Cardinality(Pool(d)) # 0
      BY <3>1, CellSums, NonEmptyCount
    <3> QED BY <1>5, <2>1, <3>2, TotalledIs
  <2>3. PICK A, B, C : A = Pool(l) /\ B = Pool(r) /\ C = CellsOf(d)
    OBVIOUS
  <2>4. /\ Pool(d) = C \cup (A \cup B) /\ A \cap B = {} /\ C \cap (A \cup B) = {}
        /\ A \in SUBSET Cells /\ B \in SUBSET Cells /\ C \in SUBSET Cells
    BY <1>1, <1>2, <2>3, MetaPool DEF Pool, CellsOf
  <2>5. k \in Int /\ \A c \in C \cup (A \cup B) : Dem[c] <= k
    BY <1>1, <2>1, <2>4, TotalledIs
  <2>6. /\ IsFiniteSet(A) /\ IsFiniteSet(B) /\ IsFiniteSet(C) /\ IsFiniteSet(A \cup B)
        /\ \A x \in C \cup (A \cup B) : Dem[x] \in Int /\ DepthsUnder(k)[x] = k - Dem[x]
    BY <2>4, CellSums, FS_Union DEF DepthsUnder
  <2>7. PICK a, b, e : /\ a = SumFunctionOnSet(DepthsUnder(k), A)
                       /\ b = SumFunctionOnSet(DepthsUnder(k), B)
                       /\ e = SumFunctionOnSet(DepthsUnder(k), C)
    OBVIOUS
  <2>8. a \in Nat /\ b \in Nat /\ e \in Nat
    BY <2>4, <2>5, <2>7, DepthSums
  <2>9. SumFunctionOnSet(DepthsUnder(k), A \cup B) = a + b
    <3>1. \A x \in A \cup B : DepthsUnder(k)[x] \in Int
      BY <2>5, <2>6
    <3> QED BY <2>4, <2>6, <2>7, <3>1, SumOfUnion
  <2>10. SumFunctionOnSet(DepthsUnder(k), C \cup (A \cup B)) = e + (a + b)
    <3>1. \A x \in C \cup (A \cup B) : DepthsUnder(k)[x] \in Int
      BY <2>5, <2>6
    <3>2. SumFunctionOnSet(DepthsUnder(k), C \cup (A \cup B))
            = SumFunctionOnSet(DepthsUnder(k), C) + SumFunctionOnSet(DepthsUnder(k), A \cup B)
      BY <2>4, <2>6, <3>1, SumOfUnion
    <3> QED BY <2>7, <2>9, <3>2
  <2>11. volume[d] = e + (a + b)
    BY <2>1, <2>2, <2>4, <2>10, TotalledIs
  <2>12. ASSUME NEW q \in {l, r} PROVE volume[q] \in Nat /\ volume[q] <= SumFunctionOnSet(DepthsUnder(k), Pool(q))
    <3>1. PICK j : j = deps[q].out_elev
      OBVIOUS
    <3>2. j \in Int /\ j <= k /\ j < INF
      BY <1>1, <1>3, <2>1, <2>2, <2>5, <3>1
    <3>3. /\ volume[q] = SumFunctionOnSet(DepthsUnder(j), Pool(q)) /\ volume[q] \in Nat
          /\ Pool(q) \in SUBSET Cells
      BY <1>4, <3>1, <3>2, TotalledIs
    <3>4. /\ IsFiniteSet(Pool(q))
          /\ \A x \in Pool(q) : /\ DepthsUnder(j)[x] \in Int /\ DepthsUnder(k)[x] \in Int
                                /\ DepthsUnder(j)[x] <= DepthsUnder(k)[x]
      <4>1. \A x \in Pool(q) : Dem[x] \in Int /\ DepthsUnder(j)[x] = j - Dem[x] /\ DepthsUnder(k)[x] = k - Dem[x]
        BY <3>3, CellSums DEF DepthsUnder
      <4> QED BY <2>5, <3>2, <3>3, <4>1, CellSums
    <3>5. SumFunctionOnSet(DepthsUnder(j), Pool(q)) <= SumFunctionOnSet(DepthsUnder(k), Pool(q))
      BY <3>4, SumGrows
    <3> QED BY <3>3, <3>5
  <2>13. volume[l] \in Nat /\ volume[r] \in Nat /\ volume[l] <= a /\ volume[r] <= b
    BY <2>3, <2>7, <2>12
  <2> QED BY <2>8, <2>11, <2>13
<1> QED BY <1>4, <1>5

-----------------------------------------------------------------------------
\* The invariant holds in every state.
LEMMA VolumeInvHolds == SpecVolumes => []VolumeInv
BY VolumeInit, VolumeNext, PTL DEF SpecVolumes

\* The labels, counts and volumes have their types throughout; the volume of a totalled
\* depression is a number of cells times elevation, infinite, or not a number.
THEOREM VolumeTypesHold == SpecVolumes => []VolumesTypeOK
BY VolumeInvHolds, VolumeTypes, PTL

\* However the cells are shared out among the threads and in whatever order these add
\* their counts, no cell is lost or charged twice, every cell is charged to the lowest
\* depression of its branch that covers it, the volume of every depression is the water
\* over its pool, and its children hold no more than it does.
THEOREM VolumesHold == SpecVolumes => []VolumesAreWater
<1>1. VolumeInv => VolumesAreWater
  BY VolumesAreRight, ChildrenHold DEF VolumesAreWater
<1> QED BY <1>1, VolumeInvHolds, PTL
=============================================================================
