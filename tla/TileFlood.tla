------------------------------ MODULE TileFlood ------------------------------
(***************************************************************************)
(* The flood of Flood.tla as a function, for use inside one step of a      *)
(* larger model: what FloodAndAssignDepressions makes of a window of the   *)
(* raster that knows nothing of the cells beside it.  Cells keep their     *)
(* numbers in the whole raster, which orders them as the window's own      *)
(* numbers would.                                                          *)
(***************************************************************************)
EXTENDS Grid, MonotoneQueue

CONSTANTS
  NO_DEP, BOUNDARY,  \* the two largest labels
  NO_FLOW            \* no flow direction

ASSUME LabelAssumption ==
  /\ BOUNDARY \in Nat /\ NO_DEP \in Nat
  /\ BOUNDARY < NO_DEP
  /\ Width * Height < BOUNDARY
  /\ NO_FLOW \notin Cells

OCEAN == 0
Exterior == {OCEAN, BOUNDARY}

\* Phases A and B: the cells the queue starts with.
Seeds(window, elev, given) ==
  {c \in window :
     LET near == Around(c) \cap window
     IN  IF given[c] = NO_DEP THEN \A n \in near : elev[n] >= elev[c]
         ELSE \E n \in near : given[n] = NO_DEP}

\* Phase C: one cell is taken from the queue; one without a label starts a
\* depression, and the neighbours not seen yet get its label and flow to it.
VisitTop(window, elev, s) ==
  LET c == TopValue(s.queue)
      l == IF s.label[c] = NO_DEP THEN Len(s.pits) + 1 ELSE s.label[c]
      fresh == {n \in Around(c) \cap window : s.label[n] = NO_DEP}
  IN  [label |-> [x \in DOMAIN s.label |-> IF x = c \/ x \in fresh THEN l ELSE s.label[x]],
       flow |-> [x \in window |-> IF x \in fresh THEN c ELSE s.flow[x]],
       pits |-> IF s.label[c] = NO_DEP THEN Append(s.pits, c) ELSE s.pits,
       queue |-> PushAll(Pop(s.queue), elev, Neighbours[c], fresh)]

\* The finished flood of a window from these seeds.  A cell is queued as a seed
\* at most once and when it is labelled at most once, so twice its size is
\* enough rounds.
FloodedFrom(window, elev, given, seeds) ==
  LET start == [label |-> given, flow |-> [c \in window |-> NO_FLOW], pits |-> <<>>,
                queue |-> PushAll(EmptyQueue(-1), elev, RowMajor, seeds)]
      done == FoldLeft(LAMBDA s, i : IF IsEmpty(s.queue) THEN s ELSE VisitTop(window, elev, s),
                       start, [i \in 1 .. 2 * Cardinality(window) |-> i])
  IN  [label |-> done.label, flow |-> done.flow, pits |-> done.pits]

Flooded(window, elev, given) == FloodedFrom(window, elev, given, Seeds(window, elev, given))
=============================================================================
