------------------------------ MODULE FlatRelax ------------------------------
(***************************************************************************)
(* ResolveFlatFlowdirsRelaxedPerRank: every rank resolves the flats of its *)
(* tile on an array that is padded by one column at each seam.  The same   *)
(* two tags carry the seam columns of six arrays, three of which are       *)
(* exchanged round after round until no rank reports a change.  A step of  *)
(* a rank runs from the receives it needs to the sends it makes.           *)
(***************************************************************************)
EXTENDS FlatFields, Mail

CONSTANT Inputs  \* the terrains

ASSUME InputsAssumption == Inputs \subseteq [Cells -> [elev : Int, data : BOOLEAN]]

VARIABLES
  dem,      \* the terrain; a rank reads its own cells of it only
  pc,       \* per rank: what it does next
  field,    \* per rank: the field being relaxed
  arr,      \* per rank: its padded arrays
  changed,  \* per rank: whether the last round changed anything
  count,    \* history: the exchanges each rank has begun
  mail,     \* the messages under way
  gfix      \* per rank: where its flat cells drain

vars == <<dem, pc, field, arr, changed, count, mail, gfix>>

Arrays == {"dem", "sd", "away", "towards", "height", "mask"}

Init ==
  /\ dem \in Inputs
  /\ pc = [r \in Ranks |-> "start"]
  /\ field = [r \in Ranks |-> "away"]
  /\ arr = [r \in Ranks |-> [f \in Arrays |-> <<>>]]
  /\ changed = [r \in Ranks |-> FALSE]
  /\ count = [r \in Ranks |-> 0]
  /\ mail = NoMail
  /\ gfix = [r \in Ranks |-> <<>>]

\* The cells of the padded array, and the column of s that faces its neighbour r.
Padded(r) == Between(Max({0, X0(r) - 1}), Min({Width, X1(r) + 1}))
Facing(s, r) == IF s < r THEN RightEdge(s) ELSE LeftEdge(s)

\* The messages from s to its neighbour r.
Seam(s, r) == <<s, r, IF s < r THEN "right" ELSE "left">>

Awaited(r) ==
  CASE pc[r] \in {"dem", "sd", "enter", "edges", "mask"} ->
         {Seam(s, r) : s \in Beside(r)}
    [] pc[r] = "votes"  -> ToZero({"chg"})
    [] pc[r] = "answer" -> {<<0, r, "cont">>}
    [] OTHER            -> {}

At(r, stage) == pc[r] = stage /\ Has(mail, Awaited(r))

\* The sends of exch.  The name of the array and the number of the exchange are
\* not part of the message; they tell what the sender meant by it.
Ship(m, r, name, values) ==
  Sent(m, [key \in {Seam(r, s) : s \in Beside(r)} |->
             [array |-> name, number |-> count[r] + 1, column |-> Restrict(values, Facing(r, key[2]))]])

\* The receives of exch: the values of the halo, and an array that has them.
Halo(r) == [c \in Padded(r) \ Owned(r) |-> First(mail, Seam(TileOf(c), r)).column[c]]
WithHalo(r, values) == [c \in Padded(r) |-> IF c \in Owned(r) THEN values[c] ELSE Halo(r)[c]]

\* The exchange number of r has begun.
Exchanges(r) == count' = [count EXCEPT ![r] = @ + 1]

Start(r) ==
  /\ pc[r] = "start"
  /\ mail' = Ship(mail, r, "dem", dem)
  /\ Exchanges(r)
  /\ pc' = [pc EXCEPT ![r] = "dem"]
  /\ UNCHANGED <<dem, field, arr, changed, gfix>>

\* The padded terrain is complete; d8_flow_directions treats the halo columns as
\* the edge of the map, which the next exchange puts right.
TakeDem(r) ==
  /\ At(r, "dem")
  /\ LET padded == WithHalo(r, dem)
         sd == Undrained(padded, Padded(r))
     IN  /\ arr' = [arr EXCEPT ![r]["dem"] = padded, ![r]["sd"] = sd]
         /\ mail' = Ship(Receive(mail, Awaited(r)), r, "sd", [c \in Owned(r) |-> c \in sd])
  /\ Exchanges(r)
  /\ pc' = [pc EXCEPT ![r] = "sd"]
  /\ UNCHANGED <<dem, field, changed, gfix>>

\* Fault: the halo is left as the edge of the map.
SdOfTile(r) == arr[r].sd

\* The cells without a direction, those of the halo as their owner sees them.
SdWithHalo(r) ==
  LET halo == Halo(r) IN (arr[r].sd \cap Owned(r)) \cup {c \in DOMAIN halo : halo[c]}

\* The seeds of the two distances, and the exchange that opens the first
\* relaxation.
TakeSd(r) ==
  /\ At(r, "sd")
  /\ LET sd == SdWithHalo(r)
         away == AwaySeeds(arr[r].dem, sd, Padded(r), Owned(r))
         towards == TowardsSeeds(arr[r].dem, sd, Padded(r), Owned(r))
     IN  /\ arr' = [arr EXCEPT ![r]["sd"] = sd, ![r]["away"] = away, ![r]["towards"] = towards]
         /\ mail' = Ship(Receive(mail, Awaited(r)), r, "away", away)
  /\ Exchanges(r)
  /\ pc' = [pc EXCEPT ![r] = "enter"]
  /\ UNCHANGED <<dem, field, changed, gfix>>

\* One round of a relaxation: the cells of the tile converge under this halo,
\* and the new edges are published.
Round(r, m, values) ==
  LET new == Converged(field[r], arr[r].dem, arr[r].sd, Padded(r), Owned(r), values)
  IN  /\ arr' = [arr EXCEPT ![r][field[r]] = new]
      /\ changed' = [changed EXCEPT ![r] = new # values]
      /\ mail' = Ship(m, r, field[r], new)
      /\ Exchanges(r)
      /\ pc' = [pc EXCEPT ![r] = "edges"]
      /\ UNCHANGED field

Enter(r) ==
  /\ At(r, "enter")
  /\ Round(r, Receive(mail, Awaited(r)), WithHalo(r, arr[r][field[r]]))
  /\ UNCHANGED <<dem, gfix>>

\* The neighbours' new edges have come: the rank votes on another round.
TakeEdges(r) ==
  /\ At(r, "edges")
  /\ arr' = [arr EXCEPT ![r][field[r]] = WithHalo(r, @)]
  /\ mail' = Sent(Receive(mail, Awaited(r)), [key \in {<<t, 0, "chg">> : t \in {r} \ {0}} |-> changed[r]])
  /\ pc' = [pc EXCEPT ![r] = IF r = 0 THEN "votes" ELSE "answer"]
  /\ UNCHANGED <<dem, field, changed, count, gfix>>

\* The field is done: the next one begins with its seeds, and after the third
\* comes the mask.
Leave(r, m) ==
  LET a == arr[r]
      next == CASE field[r] = "away"    -> "towards"
                [] field[r] = "towards" -> "height"
                [] field[r] = "height"  -> "mask"
      values == CASE next = "towards" -> a.towards
                  [] next = "height"  -> HeightSeeds(a.dem, a.sd, Padded(r), Owned(r), a.away)
                  [] next = "mask"    -> Mask(a.dem, a.sd, Padded(r), Owned(r), a.away, a.towards, a.height)
  IN  /\ arr' = [arr EXCEPT ![r][next] = values]
      /\ mail' = Ship(m, r, next, values)
      /\ Exchanges(r)
      /\ field' = [field EXCEPT ![r] = next]
      /\ pc' = [pc EXCEPT ![r] = IF next = "mask" THEN "mask" ELSE "enter"]
      /\ UNCHANGED changed

Proceed(r, go, m) == IF go THEN Round(r, m, arr[r][field[r]]) ELSE Leave(r, m)

\* Fault: rank 0 answers as soon as a rank has nothing to do.
AllChanged(votes) == votes = {TRUE}

AnyChanged(votes) == TRUE \in votes

CountVotes ==
  /\ At(0, "votes")
  /\ LET go == AnyChanged({changed[0]} \cup {First(mail, k) : k \in Awaited(0)})
     IN  Proceed(0, go, Sent(Receive(mail, Awaited(0)), [k \in FromZero("cont") |-> go]))
  /\ UNCHANGED <<dem, gfix>>

TakeAnswer(r) ==
  /\ At(r, "answer")
  /\ Proceed(r, First(mail, <<0, r, "cont">>), Receive(mail, Awaited(r)))
  /\ UNCHANGED <<dem, gfix>>

\* The mask has its halo: the flat cells of the tile get their directions.
Finish(r) ==
  /\ At(r, "mask")
  /\ gfix' = [gfix EXCEPT ![r] = Resolved(arr[r].dem, arr[r].sd, Padded(r), Owned(r), WithHalo(r, arr[r].mask))]
  /\ mail' = Receive(mail, Awaited(r))
  /\ pc' = [pc EXCEPT ![r] = "done"]
  /\ UNCHANGED <<dem, field, arr, changed, count>>

Next ==
  \/ CountVotes
  \/ \E r \in Ranks :
       Start(r) \/ TakeDem(r) \/ TakeSd(r) \/ Enter(r) \/ TakeEdges(r) \/ TakeAnswer(r) \/ Finish(r)

Spec == Init /\ [][Next]_vars

-----------------------------------------------------------------------------
Done == \A r \in Ranks : pc[r] = "done"
Flow(c) == gfix[TileOf(c)][c]
FlatCells == Flats(dem, WholeSd(dem))

\* "Bit-identical to the whole-grid form": the ranks, none of which has seen more
\* than a column of its neighbours, direct every flat cell of the raster as one
\* relaxation of the whole raster does, and as the tiles do that exchange their
\* seams in one process.  And what they have agreed on drains: a
\* flat cell that is joined to a way out is led, over level cells and any number
\* of seams, to a level cell that has a direction of its own; only cells without
\* a way out are left without one.
FlatsDrainAsOneGrid ==
  Done =>
    LET next == [c \in Cells |-> IF c \in FlatCells /\ Flow(c) # NO_FLOW THEN Flow(c) ELSE c]
        end(c) == FoldLeft(LAMBDA x, i : next[x], c, [i \in 1 .. Width * Height |-> i])
        joined(c) == FoldLeft(LAMBDA S, i : S \cup UNION {LevelNear(dem, Cells, x) : x \in S \cap FlatCells},
                              {c}, [i \in 1 .. Width * Height |-> i])
    IN  /\ \A r \in Ranks : DOMAIN gfix[r] = FlatCells \cap Owned(r)
        /\ [c \in FlatCells |-> Flow(c)] = ResolveFlatFlowdirsRelaxed(dem)
        /\ [c \in FlatCells |-> Flow(c)] = ResolveFlatFlowdirsRelaxedTiled(dem)
        /\ \A c \in FlatCells :
             IF joined(c) \subseteq FlatCells THEN Flow(c) = NO_FLOW
             ELSE end(c) \notin FlatCells /\ dem[end(c)].elev = dem[c].elev

\* The values of a field, each as the rank has it that owns the cell.
Joint(f) == [c \in Cells |-> arr[TileOf(c)][f][c]]

\* The ranks that are past a field.
Past(f) ==
  {r \in Ranks : field[r] \in CASE f = "away"    -> {"towards", "height", "mask"}
                               [] f = "towards" -> {"height", "mask"}
                               [] f = "height"  -> {"mask"}}

\* No rank is past a field that another still works on unless it is final: no cell
\* of the raster could still take over a value from a level neighbour, beyond a
\* seam or not.
LeftWhenFinal ==
  \A f \in {"away", "towards", "height"} :
    Past(f) # {} =>
      LET d == Joint(f)
      IN  IF f = "height"
            THEN \A c \in Elevated(dem, Cells) : \A n \in LevelNear(dem, Cells, c) : d[n] <= d[c]
            ELSE \A c \in FlatCells : \A n \in LevelNear(dem, Cells, c) : d[c] <= d[n] + 1

\* "Any rank still changing? (also the round barrier)": the ranks go through the
\* rounds together.  None leaves a field that is not final, none takes a column
\* of one array or one round for that of another, although all travel under the
\* same two tags, and until all are done one of them can go on.
RoundsAreShared ==
  /\ LeftWhenFinal
  /\ \A r \in Ranks : \A key \in Awaited(r) \cap DOMAIN mail :
       key[3] \in {"left", "right"} =>
         /\ First(mail, key).number = count[r]
         /\ First(mail, key).array = IF pc[r] \in {"enter", "edges"} THEN field[r] ELSE pc[r]
  /\ ~ Done => \E r \in Ranks : pc[r] # "done" /\ Has(mail, Awaited(r))
  /\ Done => mail = NoMail
=============================================================================
