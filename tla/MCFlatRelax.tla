----------------------------- MODULE MCFlatRelax -----------------------------
(***************************************************************************)
(* Small rasters for FlatRelax: three rows, of which only cells of the     *)
(* middle one can be flat.  Walls above it, level stretches of the wall,   *)
(* and what lies at its two ends decide where the flats are and where      *)
(* they drain.                                                             *)
(***************************************************************************)
EXTENDS FlatRelax

CONSTANTS
  Heights,  \* bound: the elevations of the middle row
  Ends,     \* bound: the elevations of its first and last cell
  Walls     \* bound: the elevations of the row above it

Cell(e) == [elev |-> e, data |-> e # 0]

\* Elevation 0 stands for NoData, which is below everything.
MCInputs ==
  {[c \in Cells |->
      Cell(IF YOf(c) = 2 THEN Max(Walls)
           ELSE IF YOf(c) = 0 THEN IF XOf(c) \in wall THEN Min(Walls) ELSE Max(Walls)
           ELSE IF XOf(c) = 0 THEN ends[1]
           ELSE IF XOf(c) = Width - 1 THEN ends[2]
           ELSE middle[XOf(c)])] :
     middle \in [1 .. Width - 2 -> Heights], ends \in Ends \X Ends, wall \in SUBSET {2, Width - 2}}

\* Tiles of one, two and three columns.
MCBounds == <<0, 2, 3, 6>>
=============================================================================
