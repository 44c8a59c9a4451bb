-------------------------------- MODULE Sweep --------------------------------
(***************************************************************************)
(* The assembly of the hierarchy as a function, for use inside one step of *)
(* a larger model: what the steps of ConstructHierarchy.tla make of a set  *)
(* of leaves and outlets, and what CalculateTotalVolumes adds.             *)
(***************************************************************************)
EXTENDS Partition, Integers, SequencesExt

CONSTANTS
  NO_VALUE,  \* "no label", "no cell": the largest unsigned value
  INF        \* the elevation no cell reaches

OceanLabel == 0

\* A depression as emplace_back makes it.
Blank ==
  [parent |-> NO_VALUE, odep |-> NO_VALUE, geolink |-> NO_VALUE,
   lchild |-> NO_VALUE, rchild |-> NO_VALUE,
   pit_cell |-> NO_VALUE, pit_elev |-> INF,
   out_cell |-> NO_VALUE, out_elev |-> INF,
   ocean_parent |-> FALSE, ocean_linked |-> {}]

LeafWith(pit, pit_elev) == [Blank EXCEPT !.pit_cell = pit, !.pit_elev = pit_elev]
OceanLeaf == [Blank EXCEPT !.pit_elev = -INF]

\* The comparison of std::sort, by the pits of the leaves.
SweptBefore(deps, o, p) ==
  LET low(x) == Min({deps[x.depa].pit_cell, deps[x.depb].pit_cell})
      high(x) == Max({deps[x.depa].pit_cell, deps[x.depb].pit_cell})
  IN  \/ o.out_elev < p.out_elev
      \/ /\ o.out_elev = p.out_elev
         /\ \/ o.out_cell < p.out_cell
            \/ /\ o.out_cell = p.out_cell
               /\ low(o) < low(p) \/ (low(o) = low(p) /\ high(o) < high(p))

\* The set a has found the ocean through leaf b.
LinkedToOcean(s, o, a, b) ==
  [deps |-> [s.deps EXCEPT ![a] = [@ EXCEPT !.parent = b, !.odep = NO_VALUE, !.geolink = b,
                                            !.out_cell = o.out_cell, !.out_elev = o.out_elev,
                                            !.ocean_parent = TRUE],
                           ![b].ocean_linked = @ \cup {a}],
   rep |-> MergeInto(s.rep, a, OceanLabel)]

\* Two sets become one.
Joined(s, o, a, b) ==
  LET n == Cardinality(DOMAIN s.deps)
      spilled(d, sibling, across) ==
        [s.deps[d] EXCEPT !.parent = n, !.odep = sibling, !.geolink = across,
                          !.out_cell = o.out_cell, !.out_elev = o.out_elev]
  IN  [deps |-> [l \in DOMAIN s.deps \cup {n} |->
                   IF l = n THEN [Blank EXCEPT !.lchild = a, !.rchild = b, !.pit_cell = s.deps[a].pit_cell]
                   ELSE IF l = a THEN spilled(a, b, o.depb)
                   ELSE IF l = b THEN spilled(b, a, o.depa)
                   ELSE s.deps[l]],
       rep |-> MergeInto(MergeInto(s.rep, a, n), b, n)]

Swept(s, o) ==
  LET a == s.rep[o.depa]
      b == s.rep[o.depb]
  IN  IF a = b THEN s
      ELSE IF a = OceanLabel THEN LinkedToOcean(s, o, b, o.depa)
      ELSE IF b = OceanLabel THEN LinkedToOcean(s, o, a, o.depb)
      ELSE Joined(s, o, a, b)

\* The first of the sorted outlets.
LowestOutlet(leaves, todo) == CHOOSE o \in todo : \A p \in todo \ {o} : SweptBefore(leaves, o, p)

\* One round of the loop.
SweepRound(leaves, s) ==
  LET o == LowestOutlet(leaves, s.todo)
      t == Swept(s, o)
  IN  [deps |-> t.deps, rep |-> t.rep, todo |-> s.todo \ {o}]

\* ConstructHierarchy of these leaves, the ocean at 0, and outlets.
Assembled(leaves, outlets) ==
  LET start == [deps |-> leaves, rep |-> Singletons(DOMAIN leaves), todo |-> outlets]
  IN  FoldLeft(LAMBDA s, i : SweepRound(leaves, s), start, [i \in 1 .. Cardinality(outlets) |-> i]).deps

-----------------------------------------------------------------------------
\* The water up to the spill.  The volume of the node of the ocean, which is not
\* a number in the code, is read by nobody.
WaterUnder(count, sum, spill) == IF spill < INF THEN count * spill - sum ELSE INF

\* One round of CalculateTotalVolumes: v holds the totals so far.
TotalOf(v, deps, marginal, d) ==
  LET kids == {deps[d].lchild, deps[d].rchild} \ {NO_VALUE}
      count == marginal[d].cell_count + MapThenSumSet(LAMBDA k : v[k].cell_count, kids)
      sum == marginal[d].total_elevation + MapThenSumSet(LAMBDA k : v[k].total_elevation, kids)
  IN  d :> [cell_count |-> count, total_elevation |-> sum,
            dep_vol |-> WaterUnder(count, sum, deps[d].out_elev)] @@ v

\* The depressions with their totals, from the marginal numbers.
Totalled(deps, marginal) ==
  LET v == FoldLeft(LAMBDA acc, d : TotalOf(acc, deps, marginal, d), <<>>,
                    [i \in 1 .. Cardinality(DOMAIN deps) |-> i - 1])
  IN  [d \in DOMAIN deps |-> deps[d] @@ v[d]]
=============================================================================
