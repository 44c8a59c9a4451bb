------------------------------- MODULE MCDriver -------------------------------
(***************************************************************************)
(* Small rasters for the distributed driver.                               *)
(***************************************************************************)
EXTENDS Driver

CONSTANTS
  Heights,  \* bound: the elevations of land cells
  Ridge,    \* bound: where the second row is a ridge, its lowest elevation
  Caps      \* bound: the values of the halo cap

\* Cell 0 is ocean, below all land; so may be the last cell, which lacks data
\* then and touches land of two tiles.
LastCell == Width * Height - 1
Raster(d, bay) ==
  [c \in Cells |-> [elev   |-> IF c = 0 \/ (bay /\ c = LastCell) THEN 0 ELSE d[c],
                    ocean  |-> c = 0 \/ (bay /\ c = LastCell),
                    nodata |-> bay /\ c = LastCell]]

\* Two families of rasters with two rows: behind the first row a ridge that
\* rises, so that the row is a chain of pits and passes; or the first row once
\* more, backwards, which puts a low cell into the last corner.
RowsOf == [0 .. Width - 1 -> Heights]
WithRidge(e) == [c \in Cells |-> IF YOf(c) = 0 THEN e[XOf(c)] ELSE Ridge + XOf(c)]
Mirrored(e) == [c \in Cells |-> IF YOf(c) = 0 THEN e[XOf(c)] ELSE e[Width - 1 - XOf(c)]]

Started(t, replay, k) == [terrain |-> t, flat_replay |-> replay, halo_cap |-> k]

MCInputs ==
  UNION {{Started(Raster(WithRidge(e), bay), FALSE, Width) : e \in RowsOf, bay \in BOOLEAN},
         {Started(Raster(WithRidge(e), bay), TRUE, k) : e \in RowsOf, bay \in BOOLEAN, k \in Caps},
         {Started(Raster(Mirrored(e), FALSE), replay, Width) :
            e \in {e \in RowsOf : e[0] = Min(Heights)}, replay \in BOOLEAN}}

\* A flat along the first row that ends in the second row at either side,
\* behind two columns that keep it from the ocean.
BentFlat ==
  {Started([c \in Cells |-> [elev |-> IF c = 0 THEN 0
                                     ELSE IF XOf(c) <= 1 THEN 3
                                     ELSE IF YOf(c) = 0 \/ XOf(c) \in {2, Width - 1} THEN 1
                                     ELSE 2,
                             ocean |-> c = 0, nodata |-> FALSE]], TRUE, Width)}

\* A first tile that is wider, and two or three of one column.
WideFirst == <<0, 3, 4, 5>>
WideFirstOfFour == <<0, 3, 4, 5, 6>>
=============================================================================
