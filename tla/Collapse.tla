------------------------------- MODULE Collapse -------------------------------
(***************************************************************************)
(* CollapseSeamArtifacts: the leaves that only exist because a seam cuts a *)
(* slope or a flat are contracted, in three passes over the hierarchy, and *)
(* the labels that are left are numbered anew.                             *)
(***************************************************************************)
EXTENDS Tiles, Sweep

IsLeaf(d) == d.lchild = NO_VALUE /\ d.rchild = NO_VALUE

\* A real pit that overflows at its own elevation.
is_degenerate_leaf(d) == IsLeaf(d) /\ d.pit_cell # NO_VALUE /\ d.pit_elev = d.out_elev

\* One from which there is a way across a seam that does not go up.
is_seam_artifact(t, d) ==
  /\ is_degenerate_leaf(d)
  /\ \E n \in Around(d.pit_cell) :
       /\ TileOf(n) # TileOf(d.pit_cell)
       /\ t[n].nodata \/ t[n].elev <= d.pit_elev

pit_tile(d) == TileOf(d.pit_cell)

\* Pass A: artifacts that are linked to the ocean.
Spliced(t, deps) ==
  {i \in DOMAIN deps \ {0} : is_seam_artifact(t, deps[i]) /\ i \in deps[deps[i].parent].ocean_linked}

\* The two children of P, P a meta-depression of which nothing is dead.
WholeMeta(s, P) ==
  /\ {s.deps[P].lchild, s.deps[P].rchild} \cap {NO_VALUE} = {}
  /\ {P, s.deps[P].lchild, s.deps[P].rchild} \cap s.dead = {}

\* P becomes a leaf with this pit, and its children are dropped.
Dissolved(s, P, pit_cell, pit_elev) ==
  [deps |-> [s.deps EXCEPT ![P].pit_cell = pit_cell, ![P].pit_elev = pit_elev,
                           ![P].lchild = NO_VALUE, ![P].rchild = NO_VALUE],
   dead |-> s.dead \cup {s.deps[P].lchild, s.deps[P].rchild}]

\* Pass B at P: two degenerate leaves, their pits in different tiles.
HalvesDissolved(s, P) ==
  LET a == s.deps[s.deps[P].lchild]
      b == s.deps[s.deps[P].rchild]
  IN  IF /\ WholeMeta(s, P)
         /\ is_degenerate_leaf(a) /\ is_degenerate_leaf(b)
         /\ pit_tile(a) # pit_tile(b)
      THEN Dissolved(s, P, Max({a.pit_cell, b.pit_cell}), Min({a.pit_elev, b.pit_elev}))
      ELSE s

\* Pass B2 at P: one artifact beside a leaf that holds water.
RimDissolved(t, s, P) ==
  LET kids == {s.deps[P].lchild, s.deps[P].rchild}
      artifacts == {k \in kids : is_seam_artifact(t, s.deps[k])}
      real == s.deps[CHOOSE k \in kids \ artifacts : TRUE]
  IN  IF /\ WholeMeta(s, P)
         /\ Cardinality(artifacts) = 1
         /\ IsLeaf(real) /\ ~ is_degenerate_leaf(real)
      THEN Dissolved(s, P, real.pit_cell, real.pit_elev)
      ELSE s

\* The three passes; the second and the third visit the labels in ascending order.
Contracted(t, deps) ==
  LET labels == [i \in 1 .. Cardinality(DOMAIN deps) - 1 |-> i]
      afterA == [deps |-> deps, dead |-> Spliced(t, deps)]
      afterB == FoldLeft(LAMBDA s, P : HalvesDissolved(s, P), afterA, labels)
  IN  FoldLeft(LAMBDA s, P : RimDissolved(t, s, P), afterB, labels)

-----------------------------------------------------------------------------
\* resolve: the first depression on the way up that is not dead.
resolve(s, x) ==
  FoldLeft(LAMBDA d, i : IF d \in s.dead THEN s.deps[d].parent ELSE d,
           x, [i \in 1 .. Cardinality(DOMAIN s.deps) |-> i])

\* perm and mv.
perm(s, x) == Cardinality({d \in DOMAIN s.deps \ s.dead : d < x})
mv(s, x) == IF x = NO_VALUE THEN NO_VALUE ELSE perm(s, resolve(s, x))

\* The ocean links of P: those of every depression that it stands for.
LinkedAnew(s, P) ==
  {perm(s, c) : c \in UNION {s.deps[Q].ocean_linked : Q \in {q \in DOMAIN s.deps : resolve(s, q) = P}} \ s.dead}

Compacted(s) ==
  LET live == DOMAIN s.deps \ s.dead
      moved(P) == [s.deps[P] EXCEPT !.parent = mv(s, @), !.odep = mv(s, @), !.geolink = mv(s, @),
                                    !.lchild = mv(s, @), !.rchild = mv(s, @),
                                    !.ocean_linked = LinkedAnew(s, P)]
  IN  [k \in 0 .. Cardinality(live) - 1 |-> moved(CHOOSE P \in live : perm(s, P) = k)]

CollapseSeamArtifacts(t, deps) ==
  IF Contracted(t, deps).dead = {} THEN deps ELSE Compacted(Contracted(t, deps))
=============================================================================
