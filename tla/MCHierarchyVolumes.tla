------------------------- MODULE MCHierarchyVolumes -------------------------
(***************************************************************************)
(* A small instance of HierarchyVolumes: three leaves of which only the    *)
(* first touches the ocean, so that leaf 3 finds it through leaves in the  *)
(* middle of a tree or not at all.  Cells 1..3 are the pits, 4..6 saddles  *)
(* or slopes.                                                              *)
(***************************************************************************)
EXTENDS HierarchyVolumes

VolumeCells == 1 .. 6
VolumeDem == [c \in VolumeCells |-> CASE c = 1 -> 1 [] c \in {2, 3} -> 0 [] c = 4 -> 1
                                      [] c = 5 -> 2 [] c = 6 -> 3]
VolumePit == [l \in 1 .. NLeaf |-> 4 - l]
Pairs == {<<0, 1>>, <<1, 2>>, <<2, 3>>}

\* One outlet or none for each pair that touches.
VolumeOutletSets ==
  {{[depa |-> p[1], depb |-> p[2], out_cell |-> f[p], out_elev |-> VolumeDem[f[p]]] :
      p \in {q \in Pairs : f[q] # 0}} : f \in [Pairs -> {0} \cup 4 .. 6]}

\* A static schedule: the first half goes to one thread, the second to the
\* other.
HalfEach == [c \in VolumeCells |-> IF c <= 3 THEN "t1" ELSE "t2"]
=============================================================================
