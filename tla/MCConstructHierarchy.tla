------------------------ MODULE MCConstructHierarchy ------------------------
(***************************************************************************)
(* Small instances of ConstructHierarchy.  Cells 1..4 are pits; as the     *)
(* flood numbers depressions from the lowest pit up, leaf 1 has the lowest *)
(* one.  Cells 5..8 are the saddles, two of them at the same         *)
(* elevation, so that ties of elevation, and of elevation and cell (a      *)
(* triple junction), both occur.                                           *)
(***************************************************************************)
EXTENDS ConstructHierarchy

MCCells == 1 .. 8
MCDem == [c \in MCCells |-> IF c <= 2 THEN 0 ELSE IF c <= 4 THEN 2 - c ELSE IF c = 5 THEN 1
                          ELSE IF c <= 7 THEN 2 ELSE 3]
MCPit == [l \in 1 .. NLeaf |-> NLeaf + 1 - l]
Saddles == 5 .. 8

\* The pairs of depressions that touch, lower label first: four leaves in a
\* ring, or two that also touch the ocean.
Ring == {<<0, 1>>, <<0, 2>>, <<1, 2>>, <<1, 3>>, <<2, 3>>, <<2, 4>>, <<3, 4>>}
TwoLeaves == {<<0, 1>>, <<0, 2>>, <<1, 2>>}

\* Up to so many outlets between two depressions.  The flood records one for each
\* order in which it meets the two labels: at the same elevation, if not in
\* the same cell.
SaddleSets(most) ==
  {S \in SUBSET Saddles : Cardinality(S) <= most /\ \A c, d \in S : MCDem[c] = MCDem[d]}

\* A saddle cell carries one label, so it serves the outlets of that
\* depression only.
Realizable(f) ==
  \A c \in Saddles : \E w \in LeafLabels : \A p \in DOMAIN f : c \in f[p] => w \in {p[1], p[2]}

OutletAt(p, c) == [depa |-> p[1], depb |-> p[2], out_cell |-> c, out_elev |-> MCDem[c]]

OutletsBetween(adjacent, most) ==
  {UNION {{OutletAt(p, c) : c \in f[p]} : p \in adjacent} :
     f \in {g \in [adjacent -> SaddleSets(most)] : Realizable(g)}}

MCOutletSets == OutletsBetween(Ring, 1) \cup OutletsBetween(TwoLeaves, 2)
=============================================================================
