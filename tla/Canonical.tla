------------------------------ MODULE Canonical ------------------------------
(***************************************************************************)
(* The form of a hierarchy that does not depend on its labels, by which    *)
(* hierarchies are compared: the elevations, the count and the volume of   *)
(* each depression, and below it the bag of the forms of its children and  *)
(* of what is linked to the ocean through it.  In the code the form is a   *)
(* string with the children's strings in order, here it is a record.       *)
(***************************************************************************)
EXTENDS Sweep

BinaryKids(d) == {d.lchild, d.rchild} \ {NO_VALUE}
KidsOf(d) == BinaryKids(d) \cup d.ocean_linked

\* The nodes no other node refers to as a child.
RootsOf(deps) == DOMAIN deps \ UNION {KidsOf(deps[d]) : d \in DOMAIN deps}

\* The nodes below d, d included, in as many rounds as there are nodes.
Reached(deps, nodes) ==
  FoldLeft(LAMBDA S, i : S \cup UNION {KidsOf(deps[d]) : d \in S}, nodes,
           [i \in 1 .. Cardinality(DOMAIN deps) |-> i])

\* What canonicalize throws an exception about: the traversal comes to every
\* node once and only once.
IsForest(deps) ==
  /\ \A d \in DOMAIN deps : KidsOf(deps[d]) \subseteq DOMAIN deps
  /\ \A d, e \in DOMAIN deps : d # e => KidsOf(deps[d]) \cap KidsOf(deps[e]) = {}
  /\ \A d \in DOMAIN deps : BinaryKids(deps[d]) \cap deps[d].ocean_linked = {}
  /\ Reached(deps, RootsOf(deps)) = DOMAIN deps

BagOf(form, nodes) ==
  [f \in {form[d] : d \in nodes} |-> Cardinality({d \in nodes : form[d] = f})]

\* canon_node, for the nodes of a forest.
Forms(deps) ==
  LET form[d \in DOMAIN deps] ==
        [pit |-> deps[d].pit_elev, out |-> deps[d].out_elev,
         cells |-> deps[d].cell_count, volume |-> deps[d].dep_vol,
         kids |-> BagOf(form, KidsOf(deps[d]))]
  IN  form

canonicalize(deps) == BagOf(Forms(deps), RootsOf(deps))

-----------------------------------------------------------------------------
\* The depressions whose water no other depression counts as its own.
Topmost(deps) == DOMAIN deps \ ({0} \cup UNION {BinaryKids(deps[d]) : d \in DOMAIN deps})

\* invariants.
TotalVolume(deps) == MapThenSumSet(LAMBDA d : deps[d].dep_vol, Topmost(deps))
TotalCells(deps) == MapThenSumSet(LAMBDA d : deps[d].cell_count, Topmost(deps))
=============================================================================
