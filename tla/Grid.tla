-------------------------------- MODULE Grid --------------------------------
(***************************************************************************)
(* The raster the program works on: cells by flat index, row by row, and   *)
(* the neighbours of a cell in the order in which RichDEM's dx and dy      *)
(* arrays list them.                                                       *)
(***************************************************************************)
EXTENDS Integers, SequencesExt

CONSTANTS
  Width,     \* bound: cells in a row
  Height,    \* bound: rows
  Diagonals  \* TRUE for the D8 topology, FALSE for D4

ASSUME GridAssumption == Width \in Nat \ {0} /\ Height \in Nat \ {0} /\ Diagonals \in BOOLEAN

Cells == 0 .. Width * Height - 1

\* The cells row by row.
RowMajor == [i \in 1 .. Width * Height |-> i - 1]

XOf(c) == c % Width
YOf(c) == c \div Width

\* dx and dy, without the centre cell at index 0.
Offsets ==
  IF Diagonals
    THEN << <<-1, 0>>, <<-1, -1>>, <<0, -1>>, <<1, -1>>, <<1, 0>>, <<1, 1>>, <<0, 1>>, <<-1, 1>> >>
    ELSE << <<-1, 0>>, <<0, -1>>, <<1, 0>>, <<0, 1>> >>

InGrid(x, y) == x \in 0 .. Width - 1 /\ y \in 0 .. Height - 1

\* The neighbours of each cell that lie in the grid, in the order of Offsets.
Neighbours ==
  [c \in Cells |->
     FoldLeft(LAMBDA near, o :
                IF InGrid(XOf(c) + o[1], YOf(c) + o[2])
                THEN Append(near, (YOf(c) + o[2]) * Width + XOf(c) + o[1])
                ELSE near,
              <<>>, Offsets)]

Around(c) == ToSet(Neighbours[c])
=============================================================================
