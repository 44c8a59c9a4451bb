------------------------------- MODULE MCFlood -------------------------------
(***************************************************************************)
(* Small grids for Flood: every terrain with the given heights under a few *)
(* placements of the exterior.                                             *)
(***************************************************************************)
EXTENDS Flood

CONSTANTS
  Heights,  \* bound: the elevations of the cells other than cell 0
  Corner,   \* bound: the elevations of cell 0
  Shores    \* bound: the placements of the exterior used

\* Placements of the exterior by the cells labelled OCEAN and BOUNDARY.
Shore(oceans, boundaries) ==
  [c \in 0 .. Width * Height - 1 |->
     IF c \in oceans THEN 0 ELSE IF c \in boundaries THEN BOUNDARY ELSE NO_DEP]

LastCell == Width * Height - 1

ShoreOf(name) ==
  CASE name = "corner"   -> Shore({0}, {})
    [] name = "ends"     -> Shore({0}, {LastCell})
    [] name = "tile"     -> Shore({}, {Width - 1, LastCell})
    [] name = "touching" -> Shore({0}, {1})
    [] name = "none"     -> Shore({}, {})
    [] name = "all"      -> Shore(0 .. LastCell, {})
    [] name = "bad"      -> [Shore({0}, {}) EXCEPT ![LastCell] = 1]

\* Without a base level the call is made with the permission and without.
MCInputs ==
  UNION {{[dem |-> d, label |-> ShoreOf(s), permit |-> p] :
            d \in {[c \in 0 .. LastCell |-> IF c = 0 THEN low ELSE rest[c]] :
                     low \in Corner, rest \in [1 .. LastCell -> Heights]},
            p \in IF s \in {"none", "all"} THEN BOOLEAN ELSE {FALSE}} : s \in Shores}
=============================================================================
