-------------------------------- MODULE Flood --------------------------------
(***************************************************************************)
(* FloodAndAssignDepressions: one priority-flood pass over the grid.  It   *)
(* seeds the queue with the exterior cells on the shore and with every     *)
(* cell that has no lower neighbour (phases A and B), then takes the cells *)
(* from the lowest up, spreads labels and flow directions to cells not yet *)
(* seen and records an outlet wherever two labels meet (phase C).          *)
(***************************************************************************)
EXTENDS TileFlood

CONSTANT Inputs  \* the calls made: [dem, label, permit]

\* Elevations are numbered in their order from 0 up, above what the heap takes
\* for the key pulled last before anything was.
ASSUME InputAssumption ==
  \A call \in Inputs :
    call.dem \in [Cells -> Nat] /\ call.label \in [Cells -> Int] /\ call.permit \in BOOLEAN

VARIABLES
  dem,      \* the elevation of each cell
  given,    \* the labels handed in
  permit,   \* permit_without_baselevel_seed
  stage,    \* "seed", "flood", "done" or "thrown"
  label,    \* the label of each cell
  flow,     \* flowdirs: the cell each cell drains to
  pits,     \* the pit cell of each depression but the ocean
  queue,    \* the priority queue
  db        \* outlet_database: from <<clabel, nlabel>> to the outlet

vars == <<dem, given, permit, stage, label, flow, pits, queue, db>>

Init ==
  /\ \E call \in Inputs : dem = call.dem /\ given = call.label /\ permit = call.permit
  /\ stage = "seed"
  /\ label = given
  /\ flow = [c \in Cells |-> NO_FLOW]
  /\ pits = <<>>
  /\ queue = EmptyQueue(-1)
  /\ db = <<>>

-----------------------------------------------------------------------------
\* Phase A: exterior cells that touch the interior.
OceanSeeds == {c \in Cells : label[c] \in Exterior /\ \E n \in Around(c) : label[n] = NO_DEP}

\* Fault: an equal neighbour counts as lower.
StrictPits == {c \in Cells : label[c] = NO_DEP /\ \A n \in Around(c) : dem[n] > dem[c]}

\* Phase B: interior cells without a lower neighbour.
LandSeeds == {c \in Cells : label[c] = NO_DEP /\ \A n \in Around(c) : dem[n] >= dem[c]}

Allowed == \A c \in Cells : label[c] \in {NO_DEP} \cup Exterior

\* No base level, or a label that may not be handed in.
Refuse ==
  /\ stage = "seed"
  /\ ~ Allowed \/ (OceanSeeds = {} /\ ~ permit)
  /\ stage' = "thrown"
  /\ UNCHANGED <<dem, given, permit, label, flow, pits, queue, db>>

Seed ==
  /\ stage = "seed"
  /\ Allowed
  /\ OceanSeeds # {} \/ permit
  /\ stage' = "flood"
  /\ queue' = PushAll(queue, dem, RowMajor, OceanSeeds \cup LandSeeds)
  /\ UNCHANGED <<dem, given, permit, label, flow, pits, db>>

-----------------------------------------------------------------------------
\* Of two outlets the lower one, at equal elevation the one with the lower
\* cell.
Below(o, p) == o.out_elev < p.out_elev \/ (o.out_elev = p.out_elev /\ o.out_cell < p.out_cell)
LowestOf(S) == CHOOSE o \in S : \A p \in S \ {o} : Below(o, p)

\* The outlet between two touching cells is the higher one, the focal cell if
\* they are level.
SaddleOf(c, n) ==
  IF dem[n] > dem[c] THEN [out_cell |-> n, out_elev |-> dem[n]]
  ELSE [out_cell |-> c, out_elev |-> dem[c]]

\* Fault: the first outlet between two depressions is kept.
KeepFirst(clabel, c, met) ==
  [key \in DOMAIN db \cup {<<clabel, label[n]>> : n \in met} |->
     IF key \in DOMAIN db THEN db[key]
     ELSE SaddleOf(c, CHOOSE n \in met : label[n] = key[2])]

\* The outlet database after the focal cell has met these neighbours.
Recorded(clabel, c, met) ==
  [key \in DOMAIN db \cup {<<clabel, label[n]>> : n \in met} |->
     LowestOf({db[k] : k \in {key} \cap DOMAIN db}
              \cup {SaddleOf(c, n) : n \in {m \in met : <<clabel, label[m]>> = key}})]

\* Faults: neighbours of other depressions are told to flow here too; what is
\* labelled is not queued; a cell with nothing to spread is left in the queue.
SpreadToAll(clabel, c, fresh) ==
  /\ label' = [x \in Cells |-> IF x = c \/ x \in fresh THEN clabel ELSE label[x]]
  /\ flow' = [x \in Cells |-> IF x \in Around(c) /\ dem[x] > dem[c] THEN c ELSE flow[x]]
  /\ queue' = PushAll(Pop(queue), dem, Neighbours[c], fresh)

SpreadWithoutPush(clabel, c, fresh) ==
  /\ label' = [x \in Cells |-> IF x = c \/ x \in fresh THEN clabel ELSE label[x]]
  /\ flow' = [x \in Cells |-> IF x \in fresh THEN c ELSE flow[x]]
  /\ queue' = Pop(queue)

SpreadBeforePop(clabel, c, fresh) ==
  /\ label' = [x \in Cells |-> IF x = c \/ x \in fresh THEN clabel ELSE label[x]]
  /\ flow' = [x \in Cells |-> IF x \in fresh THEN c ELSE flow[x]]
  /\ queue' = IF fresh = {} THEN queue
              ELSE PushAll(Pop(queue), dem, Neighbours[c], fresh)

\* The focal cell's label goes to the neighbours not seen yet, which flow to
\* it and are queued in the order of the neighbours.
SpreadLabel(clabel, c, fresh) ==
  /\ label' = [x \in Cells |-> IF x = c \/ x \in fresh THEN clabel ELSE label[x]]
  /\ flow' = [x \in Cells |-> IF x \in fresh THEN c ELSE flow[x]]
  /\ queue' = PushAll(Pop(queue), dem, Neighbours[c], fresh)

\* Fault: the size is read after the depression was added.
LabelAfterAppend == Len(pits) + 2

\* depressions.size(): the ocean is number 0.
NewLabel == Len(pits) + 1

\* One cell is taken from the queue.  A cell without a label can only be a
\* seed, and starts a depression.
Visit ==
  /\ stage = "flood"
  /\ ~ IsEmpty(queue)
  /\ \E c \in Cells :
       /\ c = TopValue(queue)
       /\ LET clabel == IF label[c] = NO_DEP THEN NewLabel ELSE label[c]
              fresh == {n \in Around(c) : label[n] = NO_DEP}
              met == {n \in Around(c) : label[n] \notin {NO_DEP, clabel}}
          IN  /\ pits' = IF label[c] = NO_DEP THEN Append(pits, c) ELSE pits
              /\ SpreadLabel(clabel, c, fresh)
              /\ db' = Recorded(clabel, c, met)
  /\ UNCHANGED <<dem, given, permit, stage>>

Finish ==
  /\ stage = "flood"
  /\ IsEmpty(queue)
  /\ stage' = "done"
  /\ UNCHANGED <<dem, given, permit, label, flow, pits, queue, db>>

Next == Refuse \/ Seed \/ Visit \/ Finish

\* The pass is one sequential program: it takes its next step eventually.
Spec == Init /\ [][Next]_vars /\ WF_vars(Next)

\* The outlets handed to ConstructHierarchy: the constructor puts the
\* smaller label first.
Outlets ==
  {[depa |-> IF k[1] < k[2] THEN k[1] ELSE k[2], depb |-> IF k[1] < k[2] THEN k[2] ELSE k[1],
    out_cell |-> db[k].out_cell, out_elev |-> db[k].out_elev] : k \in DOMAIN db}

-----------------------------------------------------------------------------
Labels == 0 .. Len(pits) \cup {BOUNDARY, NO_DEP}

\* The state has its type: in particular every label names the ocean, the
\* boundary or a depression that exists, and the outlets are between two
\* different labels that are in use.
TypeOK ==
  /\ <<dem, given>> \in [Cells -> Int] \X [Cells -> Int] /\ permit \in BOOLEAN
  /\ stage \in {"seed", "flood", "done", "thrown"}
  /\ stage \in {"flood", "done"} => label \in [Cells -> Labels]
  /\ flow \in [Cells -> Cells \cup {NO_FLOW}]
  /\ pits \in Seq(Cells)
  /\ \A k \in DOMAIN db :
       /\ k[1] # k[2] /\ {k[1], k[2]} \subseteq Labels \ {NO_DEP}
       /\ db[k] \in [out_cell : Cells, out_elev : Int]

\* The heap asserts on every push that the key is not below the one popped
\* last.  The flood never trips it: a cell below its seed would have been
\* reached earlier, from a seed lower still.
QueueIsMonotone == \A e \in Queued(queue) : queue.last <= e[1]

\* A step taken n times from a start.
Reach(n, start, Step) == FoldLeft(LAMBDA x, i : Step[x], start, [i \in 1 .. n |-> i])

\* Following the flow directions from any labelled cell never goes up, never
\* leaves the label and ends at the pit of that label, or for an exterior
\* label at a cell that was handed in with it: the drainage tree has no cycle
\* and crosses no outlet, at every moment of the flood.
Downstream(c) == IF flow[c] = NO_FLOW THEN c ELSE flow[c]
Mouth(c) == Reach(Width * Height, c, [x \in Cells |-> Downstream(x)])

FlowReachesPit ==
  stage \in {"flood", "done"} =>
    \A c \in {x \in Cells : label[x] # NO_DEP} :
      /\ label[Downstream(c)] = label[c] /\ dem[Downstream(c)] <= dem[c]
      /\ IF label[c] \in Exterior THEN given[Mouth(c)] = label[c]
         ELSE Mouth(c) = pits[label[c]]

\* The flood ends with every cell assigned: seeds and spreading together
\* reach the whole grid, also when there is no base level at all.
EveryCellAssigned == stage = "done" => \A c \in Cells : label[c] # NO_DEP

\* The flood ends with every cell assigned, and with the labels, flow directions
\* and pits that TileFlood.tla computes in one go for the models in which a flood
\* is one step of many.
EndsAsFunction ==
  /\ EveryCellAssigned
  /\ stage = "done" =>
       [label |-> label, flow |-> flow, pits |-> pits] = Flooded(Cells, dem, given)

\* The cells reached from c over neighbours that satisfy P.
Spread(c, P(_)) ==
  Reach(Width * Height, {c},
        [S \in SUBSET Cells |-> S \cup {n \in UNION {Around(x) : x \in S} : P(n)}])

\* The level interior cells connected with c.
Flat(c) == Spread(c, LAMBDA n : given[n] = NO_DEP /\ dem[n] = dem[c])
Interior == {c \in Cells : given[c] = NO_DEP}

\* A flat no cell of which has a lower neighbour.
IsPitFlat(F) ==
  \A c \in F : \A n \in Around(c) : dem[n] >= dem[c]

\* "This ensures that a single depression gets all the cells within a flat
\* area": a flat of interior cells with no lower neighbour gets one
\* label, that of a level exterior cell beside it or of a depression whose pit
\* lies in it.  It hangs on the order of the queue: what
\* is pushed at the current key comes back before the other seeds of the flat.
PitFlatsAreWhole ==
  stage = "done" =>
    \A c \in Interior :
      LET F == Flat(c)
          sea == {given[n] : n \in {m \in (UNION {Around(x) : x \in F}) \ F : dem[m] = dem[c]}}
      IN  IsPitFlat(F) =>
            /\ \A x \in F : label[x] = label[c]
            /\ \/ label[c] \in sea
               \/ label[c] \in DOMAIN pits /\ pits[label[c]] \in F

\* The same comment taken at its word, for every flat.
FlatsAreWhole ==
  stage = "done" => \A c \in Interior : \A x \in Flat(c) : label[x] = label[c]

\* The steps from a cell of one label to a neighbour of another; between two
\* exterior labels nothing is promised, as no exterior cell away from the
\* interior is visited.
Crossings ==
  {s \in Cells \X Cells :
     /\ s[2] \in Around(s[1]) /\ label[s[1]] # label[s[2]]
     /\ ~ {label[s[1]], label[s[2]]} \subseteq Exterior}

\* When the flood is over, the database holds, for every two labels that touch
\* anywhere and for no others, the lowest crossing between them, and of the
\* equally low ones the outlet cell with the lowest index.  The flood itself
\* only looks at a crossing when one of its cells is popped.
OutletsAreSaddles ==
  stage = "done" =>
    LET keys == {k \in DOMAIN db : ~ {k[1], k[2]} \subseteq Exterior}
    IN  /\ keys = {<<label[s[1]], label[s[2]]>> : s \in Crossings}
        /\ \A k \in keys :
             LET between == {s \in Crossings : <<label[s[1]], label[s[2]]>> = k}
                 heightOf(s) == Max({dem[s[1]], dem[s[2]]})
                 lowest == Min({heightOf(s) : s \in between})
             IN  /\ db[k].out_elev = lowest
                 /\ db[k].out_cell =
                      Min({IF dem[s[2]] > dem[s[1]] THEN s[2] ELSE s[1] :
                             s \in {b \in between : heightOf(b) = lowest}})

\* The outlets are all the hierarchy is built from, so they must carry the
\* passes of the terrain.  With the exterior taken as one sink: two pits, or a
\* pit and the sink, are connected over cells no higher than z exactly if they
\* are connected over outlets no higher than z.
SinkOf(l) == IF l \in Exterior THEN OCEAN ELSE l

WetWith(z, S) ==
  Reach(Width * Height, S,
        [T \in SUBSET Cells |->
           T \cup {n \in UNION {Around(x) : x \in T} : dem[n] <= z}
             \cup {n \in Cells : given[n] # NO_DEP /\ dem[n] <= z
                                 /\ \E x \in T : given[x] # NO_DEP}])

LinkedWith(z, l) ==
  Reach(Len(pits) + 1, {l},
        [T \in SUBSET (0 .. Len(pits)) |->
           T \cup {SinkOf(k[2]) : k \in {k \in DOMAIN db : SinkOf(k[1]) \in T
                                                           /\ db[k].out_elev <= z}}])

PassesSurvive ==
  stage = "done" =>
    \A i \in DOMAIN pits : \A z \in {dem[c] : c \in Cells} :
      z >= dem[pits[i]] =>
        LET wet == WetWith(z, {pits[i]})
            linked == LinkedWith(z, i)
        IN  /\ \A j \in DOMAIN pits : pits[j] \in wet <=> j \in linked
            /\ (\E c \in wet : given[c] # NO_DEP) <=> OCEAN \in linked

\* The outlets are the saddles between the labels and all of the passes of the
\* terrain.
OutletsCarryPasses == OutletsAreSaddles /\ PassesSurvive

\* Every call comes to an end: no cell is taken from the queue for ever.
Terminates == <>(stage \in {"done", "thrown"})
=============================================================================
