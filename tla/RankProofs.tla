----------------------------- MODULE RankProofs -----------------------------
(***************************************************************************)
(* What a rank of the driver does between the tiles and the wires.         *)
(*                                                                         *)
(* Every message has a channel, which is used at one turn of its sender    *)
(* and one of its receiver (in every round for those of the growing halo), *)
(* so what is under way is what was sent and not yet taken (ChannelsAre).  *)
(* From that: the rank that is furthest behind has all it waits for, and   *)
(* bands arrive in their order.                                            *)
(*                                                                         *)
(* The cells of a raster, those of a tile and the flood of a window of it  *)
(* are treated here too, as far as the ranks rely on them.                 *)
(***************************************************************************)
EXTENDS Driver, DataLemmas, FunctionTheorems

\* The order of the stages; those of rank 0 and of the others that belong together
\* have the same place.
Turn(x) ==
  CASE x = "start"                 -> 0
    [] x = "halo"                  -> 1
    [] x \in {"counts", "offset"}   -> 2
    [] x = "walk"                  -> 3
    [] x \in {"gather", "resolved"} -> 4
    [] x \in {"round", "bands"}     -> 5
    [] x \in {"votes", "answer"}    -> 6
    [] x \in {"leaves", "surv"}     -> 7
    [] x \in {"used", "dense"}      -> 8
    [] x = "settled"               -> 9
    [] x = "scan"                  -> 10
    [] x = "seam"                  -> 11
    [] x \in {"merge", "ship"}      -> 12
    [] x = "records"               -> 13
    [] x = "placed"                -> 14
    [] x \in {"sweep", "tree"}      -> 15
    [] x = "totals"                -> 16
    [] x = "flows"                 -> 17
    [] x = "shipped"               -> 18
    [] x = "verify"                -> 19
    [] OTHER                       -> 20

at(r) == Turn(pc[r])
Past(r, n) == IF at(r) > n THEN 1 ELSE 0

ZeroStages == Stages \ {"offset", "resolved", "answer", "surv", "dense", "ship", "tree"}
OtherStages ==
  Stages \ {"counts", "gather", "votes", "leaves", "used", "merge", "records", "sweep", "totals", "verify"}

\* The rounds a rank has heard the outcome of, and the bands it has sent and taken.
Decided(r) == IF at(r) = 6 THEN round[r] - 1 ELSE round[r]
BandsOut(r) == IF flat_replay /\ at(r) > 6 THEN round[r] - 1 ELSE Decided(r)
BandsIn(r) == IF round[r] = 0 THEN 0 ELSE round[r] - 1

ReportTags == {"count", "lw", "edge", "chg", "rep", "flrel", "intra", "odbedge", "deprec", "marg"}
ReplyTags == {"offset", "resolved", "cont", "rep", "flrel", "tree"}
Tags == ReportTags \cup ReplyTags \cup {"strip", "band", "left"}

\* Who writes to whom.
Route(s, r, tag) ==
  \/ tag \in {"strip", "band"} /\ s \in Beside(r)
  \/ tag = "left" /\ s = r + 1
  \/ tag \in ReportTags /\ r = 0 /\ s # 0
  \/ tag \in ReplyTags /\ s = 0 /\ r # 0
Keys == {key \in Ranks \X Ranks \X Tags : Route(key[1], key[2], key[3])}

\* The turn at the end of which a message is sent, and the one at which it is taken.
SendTurn(key) ==
  CASE key[3] = "strip"               -> 0
    [] key[3] = "count"               -> 1
    [] key[3] = "offset"              -> 2
    [] key[3] \in {"lw", "edge"}       -> 3
    [] key[3] = "resolved"            -> 4
    [] key[3] = "rep"                 -> IF key[1] = 0 THEN 7 ELSE 6
    [] key[3] = "flrel"               -> IF key[1] = 0 THEN 8 ELSE 7
    [] key[3] = "left"                -> 10
    [] key[3] \in {"intra", "odbedge"} -> 11
    [] key[3] = "deprec"              -> 12
    [] OTHER                          -> 15
TakeTurn(key) ==
  CASE key[3] = "strip"               -> 1
    [] key[3] \in {"count", "offset"}  -> 2
    [] key[3] \in {"lw", "edge", "resolved"} -> 4
    [] key[3] = "rep"                 -> 7
    [] key[3] = "flrel"               -> 8
    [] key[3] = "left"                -> 11
    [] key[3] \in {"intra", "odbedge"} -> 12
    [] key[3] = "deprec"              -> 13
    [] key[3] = "tree"                -> 15
    [] OTHER                          -> 16

\* How often a key has been used, by the sender and by the receiver.  Without the
\* replay no label is reconciled.
Used(key, r, n) == IF key[3] \in {"rep", "flrel"} /\ ~ flat_replay THEN 0 ELSE Past(r, n)
SentOn(key) ==
  CASE key[3] = "band" -> BandsOut(key[1])
    [] key[3] = "chg"  -> round[key[1]]
    [] key[3] = "cont" -> Decided(0)
    [] OTHER           -> Used(key, key[1], SendTurn(key))
TakenOff(key) ==
  CASE key[3] = "band" -> BandsIn(key[2])
    [] key[3] = "chg"  -> Decided(0)
    [] key[3] = "cont" -> Decided(key[2])
    [] OTHER           -> Used(key, key[2], TakeTurn(key))

\* Every message sent and not taken is under way.
ChannelsAre == \A key \in Keys : Len(Waiting(mail, key)) = SentOn(key) - TakenOff(key)

\* Where a rank may be.
StageIs(r) ==
  /\ pc[r] \in IF r = 0 THEN ZeroStages ELSE OtherStages
  /\ ~ flat_replay => at(r) \notin 5 .. 8
  /\ round[r] \in Nat /\ (round[r] = 0 <=> ~ flat_replay \/ at(r) < 5 \/ pc[r] = "round")

\* The ranks leave a barrier together.
BarriersHold == \A r, s \in Ranks : \A b \in {9, 14, 18} : at(r) > b => at(s) > b

\* The ranks leave the rounds together, as rank 0 has told them.
RoundsEnd ==
  flat_replay =>
    \A t \in Others :
      /\ at(0) > 6 => at(t) >= 6 /\ round[t] = round[0]
      /\ at(t) > 6 => at(0) > 6
      /\ Waiting(mail, <<0, t, "cont">>) # <<>> => Waiting(mail, <<0, t, "cont">>)[1] = (at(0) <= 6)

Shapes ==
  /\ pc = [r \in Ranks |-> pc[r]] /\ round = [r \in Ranks |-> round[r]] /\ flat_replay \in BOOLEAN
  /\ IsMail(mail) /\ DOMAIN mail \subseteq Keys

IInv == Shapes /\ ChannelsAre /\ (\A r \in Ranks : StageIs(r)) /\ BarriersHold /\ RoundsEnd

-----------------------------------------------------------------------------
\* The turns one by one.
LEMMA TurnIs ==
  /\ Turn("start") = 0 /\ Turn("halo") = 1 /\ Turn("counts") = 2 /\ Turn("offset") = 2 /\ Turn("walk") = 3
  /\ Turn("gather") = 4 /\ Turn("resolved") = 4 /\ Turn("round") = 5 /\ Turn("bands") = 5
  /\ Turn("votes") = 6 /\ Turn("answer") = 6 /\ Turn("leaves") = 7 /\ Turn("surv") = 7
  /\ Turn("used") = 8 /\ Turn("dense") = 8 /\ Turn("settled") = 9 /\ Turn("scan") = 10 /\ Turn("seam") = 11
  /\ Turn("merge") = 12 /\ Turn("ship") = 12 /\ Turn("records") = 13 /\ Turn("placed") = 14
  /\ Turn("sweep") = 15 /\ Turn("tree") = 15 /\ Turn("totals") = 16 /\ Turn("flows") = 17
  /\ Turn("shipped") = 18 /\ Turn("verify") = 19 /\ Turn("done") = 20
BY DEF Turn

\* A turn is a number up to 20.
LEMMA TurnType == \A x : Turn(x) \in 0 .. 20
BY DEF Turn

\* What a rank waits for.
Due(r, key) ==
  CASE key[3] = "band" -> pc[r] = "bands"
    [] key[3] = "chg"  -> pc[r] = "votes"
    [] key[3] = "cont" -> pc[r] = "answer"
    [] OTHER           -> at(r) = TakeTurn(key)

\* A rank waits on channels of its own.
LEMMA AwaitedIs ==
  ASSUME NEW r \in Ranks, StageIs(r)
  PROVE  /\ Awaited(r) \subseteq Keys
         /\ \A key \in Keys : key \in Awaited(r) <=> key[2] = r /\ Due(r, key)
<1>1. pc[r] \in Stages /\ (r = 0 => pc[r] \in ZeroStages) /\ (r # 0 => pc[r] \in OtherStages)
  BY DEF StageIs, ZeroStages, OtherStages
<1>2. Awaited(r) \subseteq Keys
  <2>1. 0 \in Ranks
    BY BoundsAssumption DEF Ranks, ntiles
  <2>2. ASSUME NEW key \in Awaited(r) PROVE key \in Ranks \X Ranks \X Tags /\ Route(key[1], key[2], key[3])
    BY <1>1, <2>1, <2>2 DEF Awaited, ToZero, Others, Route, Tags, ReportTags, ReplyTags, Beside, ZeroStages, OtherStages
  <2> QED BY <2>2 DEF Keys
<1>3. ASSUME NEW key \in Keys PROVE key \in Awaited(r) <=> key[2] = r /\ Due(r, key)
  <2>1. /\ key = <<key[1], key[2], key[3]>> /\ key[1] \in Ranks /\ key[2] \in Ranks /\ key[3] \in Tags
        /\ Route(key[1], key[2], key[3])
    BY DEF Keys
  <2> QED BY <1>1, <2>1, TurnIs DEF Awaited, ToZero, Others, Route, Tags, ReportTags, ReplyTags, Beside, ZeroStages, OtherStages,
          Due, at, TakeTurn, Stages
<1> QED BY <1>2, <1>3

-----------------------------------------------------------------------------
\* What a step does to the mail: r takes what it waits for and sends msgs.
Kept(r, key) == IF key \in Awaited(r) THEN Tail(Waiting(mail, key)) ELSE Waiting(mail, key)
Moved(r, msgs) ==
  /\ IsMail(mail)' /\ DOMAIN mail' \subseteq Keys /\ DOMAIN msgs \subseteq Keys
  /\ \A key \in Awaited(r) : Waiting(mail, key) # <<>>
  /\ \A key : Waiting(mail, key)' = IF key \in DOMAIN msgs THEN Append(Kept(r, key), msgs[key]) ELSE Kept(r, key)

\* What the messages taken do to the mail.
LEMMA Taking ==
  ASSUME NEW r, IsMail(mail), DOMAIN mail \subseteq Keys, Has(mail, Awaited(r)), NEW m, m = Receive(mail, Awaited(r))
  PROVE  /\ IsMail(m) /\ DOMAIN m \subseteq Keys
         /\ \A key : Waiting(m, key) = Kept(r, key)
         /\ \A key \in Awaited(r) : Waiting(mail, key) # <<>>
<1>1. /\ IsMail(m) /\ DOMAIN m \subseteq DOMAIN mail
      /\ \A key : Waiting(m, key) = IF key \in Awaited(r) THEN Tail(Waiting(mail, key)) ELSE Waiting(mail, key)
  BY ReceiveIs
<1>2. \A key \in Awaited(r) : Waiting(mail, key) # <<>>
  BY WaitingIs DEF Has
<1> QED BY <1>1, <1>2 DEF Kept

\* A step that takes no message.
LEMMA TakingNone ==
  ASSUME NEW r, IsMail(mail), DOMAIN mail \subseteq Keys, Awaited(r) = {}
  PROVE  /\ \A key : Waiting(mail, key) = Kept(r, key)
         /\ \A key \in Awaited(r) : Waiting(mail, key) # <<>>
BY DEF Kept

\* What sending does to the mail.
LEMMA Sending ==
  ASSUME NEW r, NEW m, IsMail(m), DOMAIN m \subseteq Keys, \A key : Waiting(m, key) = Kept(r, key),
         \A key \in Awaited(r) : Waiting(mail, key) # <<>>,
         NEW msgs, DOMAIN msgs \subseteq Keys, mail' = Sent(m, msgs)
  PROVE  Moved(r, msgs)
<1>1. PICK n : n = Sent(m, msgs)
  OBVIOUS
<1>2. /\ IsMail(n) /\ DOMAIN n = DOMAIN m \cup DOMAIN msgs
      /\ \A key : Waiting(n, key) = IF key \in DOMAIN msgs THEN Append(Waiting(m, key), msgs[key]) ELSE Waiting(m, key)
  <2>1. IsMail(Sent(m, msgs)) /\ DOMAIN Sent(m, msgs) = DOMAIN m \cup DOMAIN msgs
    BY SentIs
  <2>2. \A key : Waiting(Sent(m, msgs), key) = IF key \in DOMAIN msgs THEN Append(Waiting(m, key), msgs[key]) ELSE Waiting(m, key)
    BY SentIs
  <2> QED BY <1>1, <2>1, <2>2
<1>3. mail' = n
  BY <1>1
<1>4. \A key : Waiting(mail, key)' = Waiting(n, key)
  BY <1>3 DEF Waiting
<1>5. IsMail(mail)'
  BY <1>2, <1>3 DEF IsMail
<1>6. DOMAIN mail' \subseteq Keys
  BY <1>2, <1>3
<1>7. \A key : Waiting(mail, key)' = IF key \in DOMAIN msgs THEN Append(Kept(r, key), msgs[key]) ELSE Kept(r, key)
  <2>1. ASSUME NEW key PROVE Waiting(mail, key)' = IF key \in DOMAIN msgs THEN Append(Kept(r, key), msgs[key]) ELSE Kept(r, key)
    <3>1. Waiting(m, key) = Kept(r, key) /\ Waiting(mail, key)' = Waiting(n, key)
      BY <1>4
    <3> QED BY <1>2, <3>1
  <2> QED BY <2>1
<1> QED BY <1>5, <1>6, <1>7 DEF Moved

\* Two sends are one of both.
IsBoth(msgs, f, g) ==
  /\ DOMAIN msgs = DOMAIN f \cup DOMAIN g
  /\ \A key \in DOMAIN f : msgs[key] = f[key]
  /\ \A key \in DOMAIN g : msgs[key] = g[key]

\* Sending one batch after another is sending both.
LEMMA SendingTwice ==
  ASSUME NEW r, NEW m, IsMail(m), DOMAIN m \subseteq Keys, \A key : Waiting(m, key) = Kept(r, key),
         \A key \in Awaited(r) : Waiting(mail, key) # <<>>,
         NEW f, DOMAIN f \subseteq Keys, NEW g, DOMAIN g \subseteq Keys, DOMAIN f \cap DOMAIN g = {},
         mail' = Sent(Sent(m, f), g)
  PROVE  \E msgs : Moved(r, msgs) /\ IsBoth(msgs, f, g)
<1>1. PICK n : n = Sent(m, f)
  OBVIOUS
<1>2. /\ IsMail(n) /\ DOMAIN n = DOMAIN m \cup DOMAIN f
      /\ \A key : Waiting(n, key) = IF key \in DOMAIN f THEN Append(Waiting(m, key), f[key]) ELSE Waiting(m, key)
  <2>1. IsMail(Sent(m, f)) /\ DOMAIN Sent(m, f) = DOMAIN m \cup DOMAIN f
    BY SentIs
  <2>2. \A key : Waiting(Sent(m, f), key) = IF key \in DOMAIN f THEN Append(Waiting(m, key), f[key]) ELSE Waiting(m, key)
    BY SentIs
  <2> QED BY <1>1, <2>1, <2>2
<1>3. PICK o : o = Sent(n, g)
  OBVIOUS
<1>4. /\ IsMail(o) /\ DOMAIN o = DOMAIN n \cup DOMAIN g
      /\ \A key : Waiting(o, key) = IF key \in DOMAIN g THEN Append(Waiting(n, key), g[key]) ELSE Waiting(n, key)
  <2>1. IsMail(n)
    BY <1>2
  <2>2. IsMail(Sent(n, g)) /\ DOMAIN Sent(n, g) = DOMAIN n \cup DOMAIN g
    BY <2>1, SentIs
  <2>3. \A key : Waiting(Sent(n, g), key) = IF key \in DOMAIN g THEN Append(Waiting(n, key), g[key]) ELSE Waiting(n, key)
    BY <2>1, SentIs
  <2> QED BY <1>3, <2>2, <2>3
<1>5. mail' = o
  BY <1>1, <1>3
<1>6. PICK msgs : msgs = [key \in DOMAIN f \cup DOMAIN g |-> IF key \in DOMAIN f THEN f[key] ELSE g[key]]
  OBVIOUS
<1>7. /\ DOMAIN msgs = DOMAIN f \cup DOMAIN g
      /\ \A key \in DOMAIN f : msgs[key] = f[key]
      /\ \A key \in DOMAIN g : msgs[key] = g[key]
  BY <1>6
<1>8. \A key : Waiting(mail, key)' = Waiting(o, key)
  BY <1>5 DEF Waiting
<1>9. IsMail(mail)'
  BY <1>4, <1>5 DEF IsMail
<1>10. DOMAIN mail' \subseteq Keys /\ DOMAIN msgs \subseteq Keys
  BY <1>2, <1>4, <1>5, <1>7
<1>11. \A key : Waiting(mail, key)' = IF key \in DOMAIN msgs THEN Append(Kept(r, key), msgs[key]) ELSE Kept(r, key)
  <2>1. ASSUME NEW key PROVE Waiting(mail, key)' = IF key \in DOMAIN msgs THEN Append(Kept(r, key), msgs[key]) ELSE Kept(r, key)
    <3>1. Waiting(m, key) = Kept(r, key) /\ Waiting(mail, key)' = Waiting(o, key)
      BY <1>8
    <3>2. CASE key \in DOMAIN f
      <4>1. key \notin DOMAIN g /\ key \in DOMAIN msgs /\ msgs[key] = f[key]
        BY <1>7, <3>2
      <4>2. Waiting(o, key) = Append(Waiting(m, key), f[key])
        BY <1>2, <1>4, <3>2, <4>1
      <4> QED BY <3>1, <4>1, <4>2
    <3>3. CASE key \notin DOMAIN f
      <4>1. Waiting(n, key) = Kept(r, key) /\ (key \in DOMAIN msgs <=> key \in DOMAIN g)
        BY <1>2, <1>7, <3>1, <3>3
      <4> QED BY <1>4, <1>7, <3>1, <4>1
    <3> QED BY <3>2, <3>3
  <2> QED BY <2>1
<1>12. IsBoth(msgs, f, g)
  BY <1>7 DEF IsBoth
<1>13. \A key \in Awaited(r) : Waiting(mail, key) # <<>>
  OBVIOUS
<1>14. Moved(r, msgs)
  BY <1>9, <1>10, <1>11, <1>13 DEF Moved
<1> QED BY <1>12, <1>14

\* Two lengths.
LEMMA LengthIs ==
  ASSUME IsMail(mail), NEW r, NEW msgs, Moved(r, msgs), NEW key
  PROVE  /\ Len(Waiting(mail, key)) \in Nat /\ Len(Waiting(mail, key)') \in Nat
         /\ Len(Waiting(mail, key)') = Len(Waiting(mail, key)) - (IF key \in Awaited(r) THEN 1 ELSE 0)
                                       + (IF key \in DOMAIN msgs THEN 1 ELSE 0)
<1>1. PICK q, k, p : q = Waiting(mail, key) /\ k = Kept(r, key) /\ p = Waiting(mail, key)'
  OBVIOUS
<1>2. IsQueue(q) /\ (key \in Awaited(r) => q # <<>>)
  BY <1>1, WaitingIs DEF Moved
<1>3. k = IF key \in Awaited(r) THEN Tail(q) ELSE q
  BY <1>1 DEF Kept
<1>4. p = IF key \in DOMAIN msgs THEN Append(k, msgs[key]) ELSE k
  BY <1>1 DEF Moved
<1>5. IsQueue(k) /\ Len(k) = Len(q) - (IF key \in Awaited(r) THEN 1 ELSE 0) /\ Len(q) \in Nat /\ Len(k) \in Nat
  BY <1>2, <1>3, QueueIs, TailIs
<1>6. IsQueue(p) /\ Len(p) = Len(k) + (IF key \in DOMAIN msgs THEN 1 ELSE 0) /\ Len(p) \in Nat
  <2>1. CASE key \in DOMAIN msgs
    <3>1. PICK v : v = msgs[key]
      OBVIOUS
    <3>2. p = Append(k, v)
      BY <1>4, <2>1, <3>1
    <3>3. IsQueue(p) /\ Len(p) = Len(k) + 1
      BY <1>5, <3>2, Appended
    <3> QED BY <1>5, <2>1, <3>3
  <2>2. CASE key \notin DOMAIN msgs
    BY <1>4, <1>5, <2>2
  <2> QED BY <2>1, <2>2
<1> QED BY <1>1, <1>5, <1>6

-----------------------------------------------------------------------------
\* A step that is none of the rounds: where it leads, what it sends, what it takes.
Rounds == {"band", "chg", "cont"}
Unused(key) == key[3] \in {"rep", "flrel"} /\ ~ flat_replay
PlainMove(r, x) ==
  /\ x \in (IF r = 0 THEN ZeroStages ELSE OtherStages) /\ at(r) < Turn(x)
  /\ \A b \in {9, 14, 18} : at(r) > b <=> Turn(x) > b
  /\ \/ at(r) <= 4 /\ Turn(x) <= 4
     \/ at(r) = 4 /\ x = "round" /\ flat_replay
     \/ at(r) = 4 /\ x = "settled" /\ ~ flat_replay
     \/ at(r) >= 7
PlainSends(r, x, msgs) ==
  \A key \in Keys :
    key \in DOMAIN msgs <=>
      /\ key[1] = r /\ key[3] \notin Rounds /\ ~ Unused(key)
      /\ at(r) <= SendTurn(key) /\ SendTurn(key) < Turn(x)
BandsUntouched == \A key \in Keys : key[3] = "band" => Waiting(mail, key)' = Waiting(mail, key)
PlainTakes(r, x) ==
  \A key \in Keys :
    key[2] = r /\ key[3] \notin Rounds /\ ~ Unused(key) /\ at(r) < TakeTurn(key) => Turn(x) <= TakeTurn(key)

\* The turn a rank is at.
LEMMA NowType ==
  ASSUME NEW r \in Ranks, StageIs(r)
  PROVE  at(r) \in 0 .. 20 /\ round[r] \in Nat
BY TurnType DEF at, StageIs

\* The turns at which a message is sent and taken.
LEMMA TurnsType == \A key : SendTurn(key) \in 0 .. 15 /\ TakeTurn(key) \in 1 .. 16
BY DEF SendTurn, TakeTurn

\* The lengths the channels have after a step, as the counts say.
LEMMA CountedOut ==
  ASSUME IInv, NEW r \in Ranks, NEW msgs, Moved(r, msgs), NEW key \in Keys,
         (SentOn(key) - TakenOff(key))' =
           (SentOn(key) - TakenOff(key)) - (IF key \in Awaited(r) THEN 1 ELSE 0) + (IF key \in DOMAIN msgs THEN 1 ELSE 0)
  PROVE  Len(Waiting(mail, key)') = (SentOn(key) - TakenOff(key))'
<1>1. IsMail(mail) /\ Len(Waiting(mail, key)) = SentOn(key) - TakenOff(key)
  BY DEF IInv, Shapes, ChannelsAre
<1>2. Len(Waiting(mail, key)') = Len(Waiting(mail, key)) - (IF key \in Awaited(r) THEN 1 ELSE 0)
                                       + (IF key \in DOMAIN msgs THEN 1 ELSE 0)
  BY <1>1, LengthIs
<1> QED BY <1>1, <1>2

\* A step outside the rounds leads to a stage of its rank.
LEMMA PlainStage ==
  ASSUME IInv, NEW r \in Ranks, NEW x, PlainMove(r, x),
         pc' = [pc EXCEPT ![r] = x], round' = round, flat_replay' = flat_replay
  PROVE  /\ pc'[r] = x /\ at(r)' = Turn(x) /\ \A q \in Ranks \ {r} : pc'[q] = pc[q] /\ at(q)' = at(q)
         /\ \A q \in Ranks : StageIs(q)'
         /\ BarriersHold'
<1>1. pc = [q \in Ranks |-> pc[q]]
  BY DEF IInv, Shapes
<1>2. pc'[r] = x /\ \A q \in Ranks \ {r} : pc'[q] = pc[q]
  BY <1>1
<1>3. at(r)' = Turn(x) /\ \A q \in Ranks \ {r} : at(q)' = at(q)
  BY <1>2 DEF at
<1>4. \A q \in Ranks : at(q) \in 0 .. 20 /\ StageIs(q) /\ Turn(x) \in 0 .. 20
  BY NowType, TurnType DEF IInv
<1>5. ASSUME NEW q \in Ranks PROVE StageIs(q)'
  <2>1. CASE q = r
    <3>1. x \in (IF r = 0 THEN ZeroStages ELSE OtherStages)
      BY DEF PlainMove
    <3>2. ~ flat_replay => Turn(x) \notin 5 .. 8
      BY <1>4, TurnIs DEF PlainMove, StageIs
    <3>3. round[r] = 0 <=> ~ flat_replay \/ Turn(x) < 5 \/ x = "round"
      <4>1. round[r] = 0 <=> ~ flat_replay \/ at(r) < 5 \/ pc[r] = "round"
        BY <1>4 DEF StageIs
      <4>2. at(r) >= 7 => pc[r] # "round"
        BY TurnIs, <1>4 DEF at
      <4>3. at(r) >= 7 => Turn(x) > 7 /\ x # "round"
        BY TurnIs, <1>4 DEF PlainMove
      <4> QED BY <1>4, <4>1, <4>2, <4>3, TurnIs DEF PlainMove
    <3> QED BY <1>2, <1>3, <1>4, <2>1, <3>1, <3>2, <3>3 DEF StageIs
  <2>2. CASE q # r
    <3>1. pc'[q] = pc[q] /\ at(q)' = at(q) /\ StageIs(q)
      BY <1>2, <1>3, <1>4, <2>2
    <3> QED BY <3>1 DEF StageIs
  <2> QED BY <2>1, <2>2
<1>6. BarriersHold'
  <2>1. ASSUME NEW q \in Ranks, NEW b \in {9, 14, 18} PROVE at(q)' > b <=> at(q) > b
    BY <1>3, <2>1 DEF PlainMove
  <2>2. BarriersHold
    BY DEF IInv
  <2> QED BY <2>1, <2>2 DEF BarriersHold
<1> QED BY <1>2, <1>3, <1>5, <1>6

\* It is before the rounds, after them or past them.
LEMMA TurnsApart ==
  ASSUME NEW r \in Ranks, NEW x, PlainMove(r, x), at(r) \in 0 .. 20, Turn(x) \in 0 .. 20
  PROVE  \/ at(r) <= 4 /\ Turn(x) <= 5
         \/ at(r) >= 7 /\ Turn(x) > 7
         \/ at(r) = 4 /\ Turn(x) = 9 /\ ~ flat_replay
<1>1. CASE at(r) <= 4 /\ Turn(x) <= 4
  BY <1>1
<1>2. CASE at(r) = 4 /\ x = "round" /\ flat_replay
  BY <1>2, TurnIs
<1>3. CASE at(r) = 4 /\ x = "settled" /\ ~ flat_replay
  BY <1>3, TurnIs
<1>4. CASE at(r) >= 7
  BY <1>4 DEF PlainMove
<1> QED BY <1>1, <1>2, <1>3, <1>4 DEF PlainMove

\* A step outside the rounds leaves the counts of the rounds as they are.
LEMMA PlainRounds ==
  ASSUME IInv, NEW r \in Ranks, NEW x, PlainMove(r, x), NEW msgs, Moved(r, msgs), PlainSends(r, x, msgs),
         pc' = [pc EXCEPT ![r] = x], round' = round, flat_replay' = flat_replay
  PROVE  RoundsEnd'
<1>1. at(r)' = Turn(x) /\ \A q \in Ranks \ {r} : at(q)' = at(q)
  BY PlainStage
<1>2. Turn(x) \in 0 .. 20 /\ \A q \in Ranks : at(q) \in 0 .. 20
  BY NowType, TurnType DEF IInv
<1>3. 0 \in Ranks
  BY BoundsAssumption DEF Ranks, ntiles
<1> SUFFICES ASSUME flat_replay, NEW t \in Others
             PROVE  /\ at(0)' > 6 => at(t)' >= 6 /\ round'[t] = round'[0]
                    /\ at(t)' > 6 => at(0)' > 6
                    /\ Waiting(mail, <<0, t, "cont">>)' # <<>> => Waiting(mail, <<0, t, "cont">>)'[1] = (at(0)' <= 6)
  BY DEF RoundsEnd
<1>4. t \in Ranks /\ t # 0
  BY DEF Others
<1>5. /\ at(0) > 6 => at(t) >= 6 /\ round[t] = round[0]
      /\ at(t) > 6 => at(0) > 6
      /\ Waiting(mail, <<0, t, "cont">>) # <<>> => Waiting(mail, <<0, t, "cont">>)[1] = (at(0) <= 6)
  BY DEF IInv, RoundsEnd
<1>6. (at(r) <= 4 /\ Turn(x) <= 5) \/ (at(r) >= 7 /\ Turn(x) >= 7)
  <2>1. at(r) \in 0 .. 20 /\ Turn(x) \in 0 .. 20
    BY <1>2
  <2> QED BY <2>1, TurnsApart
<1>7. (at(0)' <= 6) = (at(0) <= 6)
  BY <1>1, <1>2, <1>3, <1>6
<1>8. Waiting(mail, <<0, t, "cont">>)' = Waiting(mail, <<0, t, "cont">>)
  <2> DEFINE key == <<0, t, "cont">>
  <2>1. key \in Keys
    BY <1>3, <1>4 DEF Keys, Route, Tags, ReportTags, ReplyTags
  <2>2. key \notin DOMAIN msgs
    BY <2>1 DEF PlainSends, Rounds
  <2>3. key \notin Awaited(r)
    <3>1. pc[r] # "answer"
      BY <1>6, <1>2, TurnIs DEF at
    <3>2. StageIs(r)
      BY DEF IInv
    <3> QED BY <2>1, <3>1, <3>2, AwaitedIs DEF Due
  <2> QED BY <2>2, <2>3 DEF Moved, Kept
<1>11. ASSUME NEW q \in Ranks PROVE (at(q)' >= 6 <=> at(q) >= 6) /\ (at(q)' > 6 <=> at(q) > 6)
  <2>1. CASE q = r
    BY <1>1, <1>2, <1>6, <2>1
  <2>2. CASE q # r
    BY <1>1, <2>2
  <2> QED BY <2>1, <2>2
<1>9. at(0)' > 6 => at(t)' >= 6 /\ round'[t] = round'[0]
  BY <1>3, <1>4, <1>5, <1>11
<1>10. at(t)' > 6 => at(0)' > 6
  BY <1>3, <1>4, <1>5, <1>11
<1> QED BY <1>5, <1>7, <1>8, <1>9, <1>10

\* A step outside the rounds keeps the invariant.
LEMMA PlainStep ==
  ASSUME IInv, NEW r \in Ranks, NEW x, PlainMove(r, x), NEW msgs, Moved(r, msgs), PlainSends(r, x, msgs), PlainTakes(r, x),
         pc' = [pc EXCEPT ![r] = x], round' = round, flat_replay' = flat_replay
  PROVE  IInv' /\ BandsUntouched
<1>1. /\ at(r)' = Turn(x) /\ \A q \in Ranks \ {r} : pc'[q] = pc[q] /\ at(q)' = at(q)
      /\ \A q \in Ranks : StageIs(q)'
      /\ BarriersHold'
  BY PlainStage
<1>2. RoundsEnd'
  BY PlainRounds
<1>3. Shapes'
  <2>1. Shapes
    BY DEF IInv
  <2>2. pc' = [q \in Ranks |-> pc'[q]] /\ round' = [q \in Ranks |-> round'[q]] /\ flat_replay' \in BOOLEAN
    BY <2>1 DEF Shapes
  <2> QED BY <2>2 DEF Shapes, Moved
<1>4. Turn(x) \in 0 .. 20 /\ at(r) < Turn(x) /\ \A q \in Ranks : at(q) \in 0 .. 20 /\ round[q] \in Nat
  BY NowType, TurnType DEF IInv, PlainMove
<1>5. (at(r) <= 4 /\ Turn(x) <= 5) \/ (at(r) >= 7 /\ Turn(x) > 7) \/ (at(r) = 4 /\ Turn(x) = 9 /\ ~ flat_replay)
  BY <1>4, TurnsApart
<1>6. 0 \in Ranks
  BY BoundsAssumption DEF Ranks, ntiles
<1>7. ASSUME NEW q \in Ranks PROVE Decided(q)' = Decided(q) /\ BandsOut(q)' = BandsOut(q) /\ BandsIn(q)' = BandsIn(q)
  <2>1. ~ flat_replay => round[q] = 0
    BY DEF IInv, StageIs
  <2>2. CASE q = r
    <3>1. (at(q)' = 6) = FALSE /\ (at(q) = 6) = FALSE
      BY <1>1, <1>4, <1>5, <2>2
    <3>2. flat_replay => (at(q)' > 6) = (at(q) > 6)
      BY <1>1, <1>4, <1>5, <2>2
    <3> QED BY <3>1, <3>2 DEF Decided, BandsOut, BandsIn
  <2>3. CASE q # r
    BY <1>1, <2>3 DEF Decided, BandsOut, BandsIn
  <2> QED BY <2>2, <2>3
<1>8. ASSUME NEW key \in Keys
      PROVE  (SentOn(key) - TakenOff(key))' =
               (SentOn(key) - TakenOff(key)) - (IF key \in Awaited(r) THEN 1 ELSE 0) + (IF key \in DOMAIN msgs THEN 1 ELSE 0)
  <2>1. key[1] \in Ranks /\ key[2] \in Ranks
    BY DEF Keys
  <2>2. key \in Awaited(r) <=> key[2] = r /\ Due(r, key)
    BY AwaitedIs DEF IInv
  <2>3. CASE key[3] \in Rounds
    <3>1. key \notin DOMAIN msgs
      BY <2>3 DEF PlainSends
    <3>2. key \notin Awaited(r)
      BY <2>2, <2>3, <1>4, <1>5, TurnIs DEF Rounds, Due, at
    <3>3. SentOn(key)' = SentOn(key) /\ TakenOff(key)' = TakenOff(key)
      BY <1>6, <1>7, <2>1, <2>3 DEF SentOn, TakenOff, Rounds
    <3>4. SentOn(key) \in Int /\ TakenOff(key) \in Int
      BY <1>4, <1>6, <2>1, <2>3 DEF SentOn, TakenOff, Rounds, Decided, BandsOut, BandsIn
    <3> QED BY <3>1, <3>2, <3>3, <3>4
  <2>4. CASE key[3] \notin Rounds
    <3>1. SentOn(key) = Used(key, key[1], SendTurn(key)) /\ TakenOff(key) = Used(key, key[2], TakeTurn(key))
      BY <2>4 DEF SentOn, TakenOff, Rounds
    <3>2. SentOn(key)' = Used(key, key[1], SendTurn(key))' /\ TakenOff(key)' = Used(key, key[2], TakeTurn(key))'
      BY <2>4 DEF SentOn, TakenOff, Rounds
    <3>3. CASE Unused(key)
      <4>1. key \notin DOMAIN msgs
        BY <3>3 DEF PlainSends
      <4>2. key \notin Awaited(r)
        <5>1. at(r) \notin 5 .. 8
          BY <3>3 DEF IInv, StageIs, Unused
        <5>2. Due(r, key) => at(r) \in 5 .. 8
          BY <3>3 DEF Due, Unused, TakeTurn
        <5> QED BY <2>2, <5>1, <5>2
      <4>3. SentOn(key) = 0 /\ TakenOff(key) = 0 /\ SentOn(key)' = 0 /\ TakenOff(key)' = 0
        BY <3>1, <3>2, <3>3 DEF Used, Unused
      <4> QED BY <4>1, <4>2, <4>3
    <3>4. CASE ~ Unused(key)
      <4>1. /\ SentOn(key) = (IF at(key[1]) > SendTurn(key) THEN 1 ELSE 0)
            /\ TakenOff(key) = (IF at(key[2]) > TakeTurn(key) THEN 1 ELSE 0)
        BY <3>1, <3>4 DEF Used, Unused, Past
      <4>2. /\ SentOn(key)' = (IF at(key[1])' > SendTurn(key) THEN 1 ELSE 0)
            /\ TakenOff(key)' = (IF at(key[2])' > TakeTurn(key) THEN 1 ELSE 0)
        BY <3>2, <3>4 DEF Used, Unused, Past
      <4>3. SendTurn(key) \in 0 .. 15 /\ TakeTurn(key) \in 1 .. 16
        BY TurnsType
      <4>4. SentOn(key)' = SentOn(key) + (IF key \in DOMAIN msgs THEN 1 ELSE 0)
        <5>1. key \in DOMAIN msgs <=> key[1] = r /\ at(r) <= SendTurn(key) /\ SendTurn(key) < Turn(x)
          BY <2>4, <3>4 DEF PlainSends
        <5> QED BY <1>1, <1>4, <2>1, <4>1, <4>2, <4>3, <5>1
      <4>5. TakenOff(key)' = TakenOff(key) + (IF key \in Awaited(r) THEN 1 ELSE 0)
        <5>1. key \in Awaited(r) <=> key[2] = r /\ at(r) = TakeTurn(key)
          BY <2>2, <2>4 DEF Due, Rounds
        <5>2. key[2] = r /\ at(r) < TakeTurn(key) => Turn(x) <= TakeTurn(key)
          BY <2>4, <3>4 DEF PlainTakes
        <5> QED BY <1>1, <1>4, <2>1, <4>1, <4>2, <4>3, <5>1, <5>2
      <4>6. SentOn(key) \in Int /\ TakenOff(key) \in Int
        BY <4>1
      <4> QED BY <4>4, <4>5, <4>6
    <3> QED BY <3>3, <3>4
  <2> QED BY <2>3, <2>4
<1>9. ChannelsAre'
  <2>1. ASSUME NEW key \in Keys PROVE Len(Waiting(mail, key)') = (SentOn(key) - TakenOff(key))'
    BY <1>8, CountedOut
  <2>2. Keys' = Keys
    BY DEF Keys
  <2> QED BY <2>1, <2>2 DEF ChannelsAre
<1>10. BandsUntouched
  <2>1. ASSUME NEW key \in Keys, key[3] = "band" PROVE Waiting(mail, key)' = Waiting(mail, key)
    <3>1. key \notin DOMAIN msgs
      BY <2>1 DEF PlainSends, Rounds
    <3>2. pc[r] # "bands"
      BY <1>4, <1>5, TurnIs DEF at
    <3>3. key \notin Awaited(r)
      BY <2>1, <3>2, AwaitedIs DEF IInv, Due
    <3> QED BY <3>1, <3>3 DEF Moved, Kept
  <2> QED BY <2>1 DEF BandsUntouched
<1>11. IInv'
  BY <1>1, <1>2, <1>3, <1>9 DEF IInv
<1> QED BY <1>10, <1>11

-----------------------------------------------------------------------------
\* What a step without sends, with one and with two does to the mail.
LEMMA MailKept ==
  ASSUME IInv, NEW r \in Ranks, Awaited(r) = {}, mail' = mail
  PROVE  Moved(r, NoMail)
<1>1. IsMail(mail) /\ DOMAIN mail \subseteq Keys
  BY DEF IInv, Shapes
<1>2. DOMAIN NoMail = {}
  BY DEF NoMail
<1>3. IsMail(mail)' /\ DOMAIN mail' \subseteq Keys
  BY <1>1 DEF IsMail
<1>4. \A key : Waiting(mail, key)' = Waiting(mail, key)
  BY DEF Waiting
<1> QED BY <1>2, <1>3, <1>4 DEF Moved, Kept

\* A step that takes its messages and sends nothing.
LEMMA MailTaken ==
  ASSUME IInv, NEW r \in Ranks, Has(mail, Awaited(r)), mail' = Receive(mail, Awaited(r))
  PROVE  Moved(r, NoMail)
<1>1. IsMail(mail) /\ DOMAIN mail \subseteq Keys
  BY DEF IInv, Shapes
<1>2. DOMAIN NoMail = {}
  BY DEF NoMail
<1>3. PICK m : m = Receive(mail, Awaited(r))
  OBVIOUS
<1>4. /\ IsMail(m) /\ DOMAIN m \subseteq Keys
      /\ \A key : Waiting(m, key) = Kept(r, key)
      /\ \A key \in Awaited(r) : Waiting(mail, key) # <<>>
  BY <1>1, <1>3, Taking
<1>5. mail' = m
  BY <1>3
<1>6. IsMail(mail)' /\ DOMAIN mail' \subseteq Keys
  BY <1>4, <1>5 DEF IsMail
<1>7. \A key : Waiting(mail, key)' = Waiting(m, key)
  BY <1>5 DEF Waiting
<1>8. \A key : Waiting(mail, key)' = Kept(r, key)
  BY <1>4, <1>7
<1> QED BY <1>2, <1>4, <1>6, <1>8 DEF Moved

\* A step that takes no message and sends some.
LEMMA MailSent ==
  ASSUME IInv, NEW r \in Ranks, Awaited(r) = {}, NEW f, DOMAIN f \subseteq Keys, mail' = Sent(mail, f)
  PROVE  Moved(r, f)
<1>1. IsMail(mail) /\ DOMAIN mail \subseteq Keys
  BY DEF IInv, Shapes
<1>2. /\ \A key : Waiting(mail, key) = Kept(r, key)
      /\ \A key \in Awaited(r) : Waiting(mail, key) # <<>>
  BY <1>1, TakingNone
<1> QED BY <1>1, <1>2, Sending

\* A step that takes its messages and sends others.
LEMMA MailTakenSent ==
  ASSUME IInv, NEW r \in Ranks, Has(mail, Awaited(r)), NEW f, DOMAIN f \subseteq Keys,
         mail' = Sent(Receive(mail, Awaited(r)), f)
  PROVE  Moved(r, f)
<1>1. IsMail(mail) /\ DOMAIN mail \subseteq Keys
  BY DEF IInv, Shapes
<1>2. PICK m : m = Receive(mail, Awaited(r))
  OBVIOUS
<1>3. /\ IsMail(m) /\ DOMAIN m \subseteq Keys
      /\ \A key : Waiting(m, key) = Kept(r, key)
      /\ \A key \in Awaited(r) : Waiting(mail, key) # <<>>
  BY <1>1, <1>2, Taking
<1>4. mail' = Sent(m, f)
  BY <1>2
<1> QED BY <1>3, <1>4, Sending

\* A step that takes no message and sends two batches.
LEMMA MailSentTwice ==
  ASSUME IInv, NEW r \in Ranks, Awaited(r) = {}, NEW f, DOMAIN f \subseteq Keys, NEW g, DOMAIN g \subseteq Keys,
         DOMAIN f \cap DOMAIN g = {}, mail' = Sent(Sent(mail, f), g)
  PROVE  \E msgs : Moved(r, msgs) /\ IsBoth(msgs, f, g)
<1>1. IsMail(mail) /\ DOMAIN mail \subseteq Keys
  BY DEF IInv, Shapes
<1>2. /\ \A key : Waiting(mail, key) = Kept(r, key)
      /\ \A key \in Awaited(r) : Waiting(mail, key) # <<>>
  BY <1>1, TakingNone
<1> QED BY <1>1, <1>2, SendingTwice

\* A step that takes its messages and sends two batches.
LEMMA MailTakenSentTwice ==
  ASSUME IInv, NEW r \in Ranks, Has(mail, Awaited(r)), NEW f, DOMAIN f \subseteq Keys, NEW g, DOMAIN g \subseteq Keys,
         DOMAIN f \cap DOMAIN g = {}, mail' = Sent(Sent(Receive(mail, Awaited(r)), f), g)
  PROVE  \E msgs : Moved(r, msgs) /\ IsBoth(msgs, f, g)
<1>1. IsMail(mail) /\ DOMAIN mail \subseteq Keys
  BY DEF IInv, Shapes
<1>2. PICK m : m = Receive(mail, Awaited(r))
  OBVIOUS
<1>3. /\ IsMail(m) /\ DOMAIN m \subseteq Keys
      /\ \A key : Waiting(m, key) = Kept(r, key)
      /\ \A key \in Awaited(r) : Waiting(mail, key) # <<>>
  BY <1>1, <1>2, Taking
<1>4. mail' = Sent(Sent(m, f), g)
  BY <1>2
<1> QED BY <1>3, <1>4, SendingTwice

\* The keys under which a rank reports to rank 0 and is answered.
LEMMA KeyIs ==
  ASSUME NEW key \in Keys
  PROVE  /\ key = <<key[1], key[2], key[3]>> /\ key[1] \in Ranks /\ key[2] \in Ranks /\ key[3] \in Tags
         /\ Route(key[1], key[2], key[3])
BY DEF Keys

\* What a report to rank 0 is.
LEMMA ReportIs ==
  ASSUME NEW r \in Ranks, NEW tag \in ReportTags, NEW value
  PROVE  /\ DOMAIN Report(r, tag, value) \subseteq Keys
         /\ \A key \in Keys : key \in DOMAIN Report(r, tag, value) <=> key[1] = r /\ r # 0 /\ key[2] = 0 /\ key[3] = tag
<1>1. DOMAIN Report(r, tag, value) = {<<t, 0, tag>> : t \in {r} \ {0}}
  BY DEF Report
<1>2. 0 \in Ranks
  BY BoundsAssumption DEF Ranks, ntiles
<1>3. {<<t, 0, tag>> : t \in {r} \ {0}} \subseteq Keys
  BY <1>2 DEF Keys, Route, Tags
<1>4. ASSUME NEW key \in Keys
      PROVE  key \in {<<t, 0, tag>> : t \in {r} \ {0}} <=> key[1] = r /\ r # 0 /\ key[2] = 0 /\ key[3] = tag
  BY KeyIs
<1> QED BY <1>1, <1>3, <1>4

\* What a reply of rank 0 is.
LEMMA ReplyIs ==
  ASSUME NEW tag \in ReplyTags
  PROVE  /\ FromZero(tag) \subseteq Keys
         /\ \A key \in Keys : key \in FromZero(tag) <=> key[1] = 0 /\ key[2] # 0 /\ key[3] = tag
<1>1. 0 \in Ranks
  BY BoundsAssumption DEF Ranks, ntiles
<1>2. FromZero(tag) \subseteq Keys
  BY <1>1 DEF Keys, Route, Tags, FromZero, Others
<1>3. ASSUME NEW key \in Keys
      PROVE  key \in FromZero(tag) <=> key[1] = 0 /\ key[2] # 0 /\ key[3] = tag
  BY KeyIs DEF FromZero, Others
<1> QED BY <1>2, <1>3

\* The stages that begin with no receive.
LEMMA AwaitsNone ==
  ASSUME NEW r, pc[r] \in {"start", "walk", "round", "scan", "ship", "sweep", "flows", "verify"}
  PROVE  Awaited(r) = {}
BY DEF Awaited

-----------------------------------------------------------------------------
\* Neighbours are neighbours of each other.
LEMMA BesideIs ==
  /\ ntiles \in Nat \ {0} /\ 0 \in Ranks /\ Ranks \subseteq Nat
  /\ \A r, s \in Ranks : s \in Beside(r) <=> r \in Beside(s)
  /\ \A r \in Ranks : Beside(r) \subseteq Ranks
<1>1. ntiles \in Nat \ {0}
  BY BoundsAssumption DEF ntiles
<1>2. Ranks = 0 .. ntiles - 1
  BY DEF Ranks
<1> QED BY <1>1, <1>2 DEF Beside

\* The columns for the neighbours.
LEMMA SeamKeysAre ==
  ASSUME NEW r \in Ranks, NEW tag \in {"strip", "band"}
  PROVE  /\ {<<r, s, tag>> : s \in Beside(r)} \subseteq Keys
         /\ \A key \in Keys : key \in {<<r, s, tag>> : s \in Beside(r)} <=> key[1] = r /\ key[3] = tag
<1>1. ASSUME NEW s \in Beside(r) PROVE <<r, s, tag>> \in Keys
  <2>1. s \in Ranks /\ r \in Beside(s)
    BY BesideIs
  <2> QED BY <2>1 DEF Keys, Route, Tags
<1>2. ASSUME NEW key \in Keys PROVE key \in {<<r, s, tag>> : s \in Beside(r)} <=> key[1] = r /\ key[3] = tag
  <2>1. /\ key = <<key[1], key[2], key[3]>> /\ key[1] \in Ranks /\ key[2] \in Ranks
        /\ Route(key[1], key[2], key[3])
    BY KeyIs
  <2>2. key[3] = tag => key[1] \in Beside(key[2])
    BY <2>1 DEF Route, ReportTags, ReplyTags
  <2> QED BY <2>1, <2>2, BesideIs
<1> QED BY <1>1, <1>2

\* setup_tile up to the receives.
LEMMA SendStripsKeeps ==
  ASSUME IInv, NEW r \in Ranks, SendStrips(r), round' = round
  PROVE  IInv' /\ BandsUntouched
<1>1. /\ pc[r] = "start" /\ pc' = [pc EXCEPT ![r] = "halo"] /\ flat_replay' = flat_replay
      /\ mail' = Sent(mail, Strips(r))
  BY DEF SendStrips, At, floodVars, startVars
<1>2. at(r) = 0 /\ Turn("halo") = 1
  BY <1>1, TurnIs DEF at
<1>3. PlainMove(r, "halo")
  BY <1>2 DEF PlainMove, ZeroStages, OtherStages, Stages
<1>4. DOMAIN Strips(r) = {<<r, s, "strip">> : s \in Beside(r)}
  BY DEF Strips
<1>5. \A key \in Keys : key \in DOMAIN Strips(r) <=> key[1] = r /\ key[3] = "strip"
  BY <1>4, SeamKeysAre
<1>6. DOMAIN Strips(r) \subseteq Keys
  BY <1>4, SeamKeysAre
<1>7. PICK msgs : msgs = Strips(r)
  OBVIOUS
<1>8. Moved(r, msgs)
  BY <1>1, <1>6, <1>7, AwaitsNone, MailSent
<1>9. PlainSends(r, "halo", msgs)
  BY <1>2, <1>5, <1>7, KeyIs DEF PlainSends, SendTurn, Rounds, Unused, Tags, ReportTags, ReplyTags
<1>10. PlainTakes(r, "halo")
  BY <1>2, TurnsType DEF PlainTakes
<1> QED BY <1>1, <1>3, <1>8, <1>9, <1>10, PlainStep

\* The rest of setup_tile, flood_tile, and the count sent to rank 0.
LEMMA FloodTileKeeps ==
  ASSUME IInv, NEW r \in Ranks, FloodTile(r), round' = round
  PROVE  IInv' /\ BandsUntouched
<1>1. PICK x : x = IF r = 0 THEN "counts" ELSE "offset"
  OBVIOUS
<1>2. PICK v : /\ pc[r] = "halo" /\ Has(mail, Awaited(r)) /\ pc' = [pc EXCEPT ![r] = x] /\ flat_replay' = flat_replay
               /\ mail' = Sent(Receive(mail, Awaited(r)), Report(r, "count", v))
  BY <1>1 DEF FloodTile, At, startVars
<1>3. at(r) = 1 /\ Turn(x) = 2
  BY <1>1, <1>2, TurnIs DEF at
<1>4. PlainMove(r, x)
  BY <1>1, <1>3 DEF PlainMove, ZeroStages, OtherStages, Stages
<1>5. PICK msgs : msgs = Report(r, "count", v)
  OBVIOUS
<1>6. DOMAIN msgs \subseteq Keys /\ \A key \in Keys : key \in DOMAIN msgs <=> key[1] = r /\ r # 0 /\ key[2] = 0 /\ key[3] = "count"
  BY <1>5, ReportIs DEF ReportTags
<1>7. Moved(r, msgs)
  BY <1>2, <1>5, <1>6, MailTakenSent
<1>8. PlainSends(r, x, msgs)
  BY <1>3, <1>6, KeyIs DEF PlainSends, SendTurn, Rounds, Unused, Tags, ReportTags, ReplyTags, Route
<1>9. PlainTakes(r, x)
  BY <1>3, TurnsType DEF PlainTakes
<1> QED BY <1>2, <1>4, <1>7, <1>8, <1>9, PlainStep

-----------------------------------------------------------------------------
\* The left columns.
LEMMA LeftKeysAre ==
  ASSUME NEW r \in Ranks
  PROVE  /\ {<<r, s, "left">> : s \in {r - 1} \cap Ranks} \subseteq Keys
         /\ \A key \in Keys : key \in {<<r, s, "left">> : s \in {r - 1} \cap Ranks} <=> key[1] = r /\ key[3] = "left"
<1>1. ASSUME NEW s \in {r - 1} \cap Ranks PROVE <<r, s, "left">> \in Keys
  <2>1. s \in Ranks /\ r = s + 1
    BY BesideIs
  <2> QED BY <2>1 DEF Keys, Route, Tags
<1>2. ASSUME NEW key \in Keys
      PROVE  key \in {<<r, s, "left">> : s \in {r - 1} \cap Ranks} <=> key[1] = r /\ key[3] = "left"
  <2>1. /\ key = <<key[1], key[2], key[3]>> /\ key[1] \in Ranks /\ key[2] \in Ranks
        /\ Route(key[1], key[2], key[3])
    BY KeyIs
  <2>2. key[3] = "left" => key[1] = key[2] + 1
    BY <2>1 DEF Route, ReportTags, ReplyTags
  <2> QED BY <2>1, <2>2, BesideIs
<1> QED BY <1>1, <1>2

\* Rank 0 numbers the depressions of the tiles.
LEMMA NumberTilesKeeps ==
  ASSUME IInv, NumberTiles, round' = round
  PROVE  IInv' /\ BandsUntouched
<1>0. 0 \in Ranks
  BY BesideIs
<1>1. PICK msgs : msgs = [key \in FromZero("offset") |-> LabelOffsets[key[2]]]
  OBVIOUS
<1>2. /\ pc[0] = "counts" /\ Has(mail, Awaited(0)) /\ pc' = [pc EXCEPT ![0] = "walk"] /\ flat_replay' = flat_replay
      /\ mail' = Sent(Receive(mail, Awaited(0)), msgs) /\ DOMAIN msgs = FromZero("offset")
  <2>1. DOMAIN msgs = FromZero("offset")
    BY <1>1
  <2> QED BY <1>1, <2>1 DEF NumberTiles, At, floodVars, startVars
<1>3. at(0) = 2 /\ Turn("walk") = 3
  BY <1>2, TurnIs DEF at
<1>5. PlainMove(0, "walk")
  BY <1>2, <1>3 DEF PlainMove, ZeroStages, OtherStages, Stages
<1>7. /\ DOMAIN msgs \subseteq Keys
      /\ \A key \in Keys : key \in DOMAIN msgs <=> key[1] = 0 /\ key[2] # 0 /\ key[3] = "offset"
  BY <1>2, ReplyIs DEF ReplyTags
<1>8. Moved(0, msgs)
  BY <1>0, <1>2, <1>7, MailTakenSent
<1>9. PlainSends(0, "walk", msgs)
  BY <1>2, <1>3, <1>7, KeyIs DEF PlainSends, SendTurn, Rounds, Unused, Tags, ReportTags, ReplyTags, Route
<1>10. PlainTakes(0, "walk")
  BY <1>2, <1>3, KeyIs DEF PlainTakes, TakeTurn, Rounds, Unused, Tags, ReportTags, ReplyTags, Route
<1> QED BY <1>0, <1>2, <1>5, <1>8, <1>9, <1>10, PlainStep

\* A rank learns its offset.
LEMMA TakeOffsetKeeps ==
  ASSUME IInv, NEW r \in Ranks, TakeOffset(r), round' = round
  PROVE  IInv' /\ BandsUntouched
<1>2. /\ pc[r] = "offset" /\ Has(mail, Awaited(r)) /\ pc' = [pc EXCEPT ![r] = "walk"] /\ flat_replay' = flat_replay
      /\ mail' = Receive(mail, Awaited(r))
  BY DEF TakeOffset, At, floodVars, startVars
<1>3. at(r) = 2 /\ Turn("walk") = 3
  BY <1>2, TurnIs DEF at
<1>4. pc[r] \in (IF r = 0 THEN ZeroStages ELSE OtherStages)
  BY DEF IInv, StageIs
<1>5. PlainMove(r, "walk")
  BY <1>2, <1>3, <1>4 DEF PlainMove, ZeroStages, OtherStages, Stages
<1>6. PICK msgs : msgs = NoMail
  OBVIOUS
<1>7. DOMAIN msgs = {}
  BY <1>6 DEF NoMail
<1>8. Moved(r, msgs)
  BY <1>2, <1>6, MailTaken
<1>9. PlainSends(r, "walk", msgs)
  BY <1>2, <1>3, <1>4, <1>7, KeyIs DEF PlainSends, SendTurn, Rounds, Unused, Tags, ReportTags, ReplyTags, Route, ZeroStages, OtherStages
<1>10. PlainTakes(r, "walk")
  BY <1>2, <1>3, <1>4, KeyIs DEF PlainTakes, TakeTurn, Rounds, Unused, Tags, ReportTags, ReplyTags, Route, ZeroStages, OtherStages
<1> QED BY <1>2, <1>5, <1>8, <1>9, <1>10, PlainStep

\* The walks within the tile.
LEMMA WalkKeeps ==
  ASSUME IInv, NEW r \in Ranks, Walk(r), round' = round
  PROVE  IInv' /\ BandsUntouched
<1>1. PICK x : x = IF r = 0 THEN "gather" ELSE "resolved"
  OBVIOUS
<1>2. PICK v, w : /\ pc[r] = "walk" /\ pc' = [pc EXCEPT ![r] = x] /\ flat_replay' = flat_replay
                  /\ mail' = Sent(Sent(mail, Report(r, "lw", v)),
                             Report(r, "edge", w))
  BY <1>1 DEF Walk, At, floodVars, startVars
<1>3. at(r) = 3 /\ Turn(x) = 4
  BY <1>1, <1>2, TurnIs DEF at
<1>4. pc[r] \in (IF r = 0 THEN ZeroStages ELSE OtherStages)
  BY DEF IInv, StageIs
<1>5. PlainMove(r, x)
  BY <1>1, <1>2, <1>3, <1>4 DEF PlainMove, ZeroStages, OtherStages, Stages
<1>6. PICK f, g : f = Report(r, "lw", v) /\ g = Report(r, "edge", w)
  OBVIOUS
<1>61. /\ DOMAIN f \subseteq Keys
       /\ \A key \in Keys : key \in DOMAIN f <=> key[1] = r /\ r # 0 /\ key[2] = 0 /\ key[3] = "lw"
  BY <1>6, ReportIs DEF ReportTags
<1>62. /\ DOMAIN g \subseteq Keys
       /\ \A key \in Keys : key \in DOMAIN g <=> key[1] = r /\ r # 0 /\ key[2] = 0 /\ key[3] = "edge"
  BY <1>6, ReportIs DEF ReportTags
<1>63. DOMAIN f \cap DOMAIN g = {}
  BY <1>61, <1>62
<1>64. mail' = Sent(Sent(mail, f), g)
  BY <1>2, <1>6
<1>8. PICK msgs : Moved(r, msgs) /\ IsBoth(msgs, f, g)
  BY <1>2, <1>61, <1>62, <1>63, <1>64, AwaitsNone, MailSentTwice
<1>7. \A key \in Keys : key \in DOMAIN msgs <=> key[1] = r /\ r # 0 /\ key[2] = 0 /\ key[3] \in {"lw", "edge"}
  BY <1>61, <1>62, <1>8 DEF IsBoth
<1>9. PlainSends(r, x, msgs)
  BY <1>2, <1>3, <1>4, <1>7, KeyIs DEF PlainSends, SendTurn, Rounds, Unused, Tags, ReportTags, ReplyTags, Route, ZeroStages, OtherStages
<1>10. PlainTakes(r, x)
  BY <1>2, <1>3, <1>4, KeyIs DEF PlainTakes, TakeTurn, Rounds, Unused, Tags, ReportTags, ReplyTags, Route, ZeroStages, OtherStages
<1> QED BY <1>2, <1>5, <1>8, <1>9, <1>10, PlainStep

\* The chase on rank 0.
LEMMA ResolveKeeps ==
  ASSUME IInv, Resolve, round' = round
  PROVE  IInv' /\ BandsUntouched
<1>0. 0 \in Ranks
  BY BesideIs
<1>1. PICK x : x = AfterConduits
  OBVIOUS
<1>2. PICK msgs : /\ pc[0] = "gather" /\ Has(mail, Awaited(0)) /\ pc' = [pc EXCEPT ![0] = x] /\ flat_replay' = flat_replay
                  /\ mail' = Sent(Receive(mail, Awaited(0)), msgs) /\ DOMAIN msgs = FromZero("resolved")
  BY <1>1 DEF Resolve, At, floodVars, startVars
<1>3. at(0) = 4 /\ Turn(x) = IF flat_replay THEN 5 ELSE 9
  BY <1>1, <1>2, TurnIs DEF at, AfterConduits
<1>5. PlainMove(0, x)
  BY <1>1, <1>2, <1>3 DEF PlainMove, ZeroStages, OtherStages, Stages, AfterConduits
<1>7. /\ DOMAIN msgs \subseteq Keys
      /\ \A key \in Keys : key \in DOMAIN msgs <=> key[1] = 0 /\ key[2] # 0 /\ key[3] = "resolved"
  BY <1>2, ReplyIs DEF ReplyTags
<1>8. Moved(0, msgs)
  BY <1>0, <1>2, <1>7, MailTakenSent
<1>9. PlainSends(0, x, msgs)
  BY <1>2, <1>3, <1>7, KeyIs DEF PlainSends, SendTurn, Rounds, Unused, Tags, ReportTags, ReplyTags, Route
<1>10. PlainTakes(0, x)
  BY <1>2, <1>3, KeyIs DEF PlainTakes, TakeTurn, Rounds, Unused, Tags, ReportTags, ReplyTags, Route
<1> QED BY <1>0, <1>2, <1>5, <1>8, <1>9, <1>10, PlainStep

\* A rank lays the resolved labels over its own.
LEMMA OverlayKeeps ==
  ASSUME IInv, NEW r \in Ranks, Overlay(r), round' = round
  PROVE  IInv' /\ BandsUntouched
<1>1. PICK x : x = AfterConduits
  OBVIOUS
<1>2. /\ pc[r] = "resolved" /\ Has(mail, Awaited(r)) /\ pc' = [pc EXCEPT ![r] = x] /\ flat_replay' = flat_replay
      /\ mail' = Receive(mail, Awaited(r))
  BY <1>1 DEF Overlay, At, floodVars, startVars
<1>3. at(r) = 4 /\ Turn(x) = IF flat_replay THEN 5 ELSE 9
  BY <1>1, <1>2, TurnIs DEF at, AfterConduits
<1>4. pc[r] \in (IF r = 0 THEN ZeroStages ELSE OtherStages)
  BY DEF IInv, StageIs
<1>5. PlainMove(r, x)
  BY <1>1, <1>2, <1>3, <1>4 DEF PlainMove, ZeroStages, OtherStages, Stages, AfterConduits
<1>6. PICK msgs : msgs = NoMail
  OBVIOUS
<1>7. DOMAIN msgs = {}
  BY <1>6 DEF NoMail
<1>8. Moved(r, msgs)
  BY <1>2, <1>6, MailTaken
<1>9. PlainSends(r, x, msgs)
  BY <1>2, <1>3, <1>4, <1>7, KeyIs DEF PlainSends, SendTurn, Rounds, Unused, Tags, ReportTags, ReplyTags, Route, ZeroStages, OtherStages
<1>10. PlainTakes(r, x)
  BY <1>2, <1>3, <1>4, KeyIs DEF PlainTakes, TakeTurn, Rounds, Unused, Tags, ReportTags, ReplyTags, Route, ZeroStages, OtherStages
<1> QED BY <1>2, <1>5, <1>8, <1>9, <1>10, PlainStep

\* Rank 0 picks the leaf of each basin.
LEMMA PickSurvivorsKeeps ==
  ASSUME IInv, PickSurvivors, round' = round
  PROVE  IInv' /\ BandsUntouched
<1>0. 0 \in Ranks
  BY BesideIs
<1>21. pc[0] = "leaves" /\ Has(mail, Awaited(0))
  BY DEF PickSurvivors, At
<1>22. pc' = [pc EXCEPT ![0] = "used"] /\ flat_replay' = flat_replay
  BY DEF PickSurvivors, floodVars, startVars
<1>23. mail' = Sent(Receive(mail, Awaited(0)), [key \in FromZero("rep") |-> surv'])
  BY DEF PickSurvivors
<1>2. PICK msgs : /\ pc[0] = "leaves" /\ Has(mail, Awaited(0)) /\ pc' = [pc EXCEPT ![0] = "used"] /\ flat_replay' = flat_replay
                 /\ mail' = Sent(Receive(mail, Awaited(0)), msgs) /\ DOMAIN msgs = FromZero("rep")
  BY <1>21, <1>22, <1>23
<1>3. at(0) = 7 /\ Turn("used") = 8
  BY <1>2, TurnIs DEF at
<1>31. flat_replay
  BY <1>0, <1>3 DEF IInv, StageIs
<1>5. PlainMove(0, "used")
  BY <1>2, <1>3 DEF PlainMove, ZeroStages, OtherStages, Stages
<1>7. /\ DOMAIN msgs \subseteq Keys
      /\ \A key \in Keys : key \in DOMAIN msgs <=> key[1] = 0 /\ key[2] # 0 /\ key[3] = "rep"
  BY <1>2, ReplyIs DEF ReplyTags
<1>8. Moved(0, msgs)
  BY <1>0, <1>2, <1>7, MailTakenSent
<1>9. PlainSends(0, "used", msgs)
  BY <1>2, <1>3, <1>31, <1>7, KeyIs DEF PlainSends, SendTurn, Rounds, Unused, Tags, ReportTags, ReplyTags, Route
<1>10. PlainTakes(0, "used")
  BY <1>2, <1>3, KeyIs DEF PlainTakes, TakeTurn, Rounds, Unused, Tags, ReportTags, ReplyTags, Route
<1> QED BY <1>0, <1>2, <1>5, <1>8, <1>9, <1>10, PlainStep

\* A rank maps its cells to these leaves.
LEMMA MapCellsKeeps ==
  ASSUME IInv, NEW r \in Ranks, MapCells(r), round' = round
  PROVE  IInv' /\ BandsUntouched
<1>21. pc[r] = "surv" /\ Has(mail, Awaited(r))
  BY DEF MapCells, At
<1>22. pc' = [pc EXCEPT ![r] = "dense"] /\ flat_replay' = flat_replay
  BY DEF MapCells, floodVars, startVars
<1>23. mail' = Sent(Receive(mail, Awaited(r)), Report(r, "flrel", Range(SurvivorOf(r, First(mail, <<0, r, "rep">>)))))
  BY DEF MapCells
<1>2. PICK v : /\ pc[r] = "surv" /\ Has(mail, Awaited(r)) /\ pc' = [pc EXCEPT ![r] = "dense"] /\ flat_replay' = flat_replay
                 /\ mail' = Sent(Receive(mail, Awaited(r)), Report(r, "flrel", v))
  BY <1>21, <1>22, <1>23
<1>3. at(r) = 7 /\ Turn("dense") = 8
  BY <1>2, TurnIs DEF at
<1>31. flat_replay
  BY <1>3 DEF IInv, StageIs
<1>4. pc[r] \in (IF r = 0 THEN ZeroStages ELSE OtherStages)
  BY DEF IInv, StageIs
<1>5. PlainMove(r, "dense")
  BY <1>2, <1>3, <1>4 DEF PlainMove, ZeroStages, OtherStages, Stages
<1>6. PICK msgs : msgs = Report(r, "flrel", v)
  OBVIOUS
<1>7. /\ DOMAIN msgs \subseteq Keys
      /\ \A key \in Keys : key \in DOMAIN msgs <=> key[1] = r /\ r # 0 /\ key[2] = 0 /\ key[3] = "flrel"
  BY <1>6, ReportIs DEF ReportTags
<1>8. Moved(r, msgs)
  BY <1>2, <1>6, <1>7, MailTakenSent
<1>9. PlainSends(r, "dense", msgs)
  BY <1>2, <1>3, <1>4, <1>31, <1>7, KeyIs DEF PlainSends, SendTurn, Rounds, Unused, Tags, ReportTags, ReplyTags, Route, ZeroStages, OtherStages
<1>10. PlainTakes(r, "dense")
  BY <1>2, <1>3, <1>4, KeyIs DEF PlainTakes, TakeTurn, Rounds, Unused, Tags, ReportTags, ReplyTags, Route, ZeroStages, OtherStages
<1> QED BY <1>2, <1>5, <1>8, <1>9, <1>10, PlainStep

\* Rank 0 numbers the leaves in use.
LEMMA DensifyKeeps ==
  ASSUME IInv, Densify, round' = round
  PROVE  IInv' /\ BandsUntouched
<1>0. 0 \in Ranks
  BY BesideIs
<1>21. pc[0] = "used" /\ Has(mail, Awaited(0))
  BY DEF Densify, At
<1>22. pc' = [pc EXCEPT ![0] = "settled"] /\ flat_replay' = flat_replay
  BY DEF Densify, floodVars, startVars
<1>23. mail' = Sent(Receive(mail, Awaited(0)), [key \in FromZero("flrel") |-> fl_relabel'])
  BY DEF Densify
<1>2. PICK msgs : /\ pc[0] = "used" /\ Has(mail, Awaited(0)) /\ pc' = [pc EXCEPT ![0] = "settled"] /\ flat_replay' = flat_replay
                 /\ mail' = Sent(Receive(mail, Awaited(0)), msgs) /\ DOMAIN msgs = FromZero("flrel")
  BY <1>21, <1>22, <1>23
<1>3. at(0) = 8 /\ Turn("settled") = 9
  BY <1>2, TurnIs DEF at
<1>31. flat_replay
  BY <1>0, <1>3 DEF IInv, StageIs
<1>5. PlainMove(0, "settled")
  BY <1>2, <1>3 DEF PlainMove, ZeroStages, OtherStages, Stages
<1>7. /\ DOMAIN msgs \subseteq Keys
      /\ \A key \in Keys : key \in DOMAIN msgs <=> key[1] = 0 /\ key[2] # 0 /\ key[3] = "flrel"
  BY <1>2, ReplyIs DEF ReplyTags
<1>8. Moved(0, msgs)
  BY <1>0, <1>2, <1>7, MailTakenSent
<1>9. PlainSends(0, "settled", msgs)
  BY <1>2, <1>3, <1>31, <1>7, KeyIs DEF PlainSends, SendTurn, Rounds, Unused, Tags, ReportTags, ReplyTags, Route
<1>10. PlainTakes(0, "settled")
  BY <1>2, <1>3, KeyIs DEF PlainTakes, TakeTurn, Rounds, Unused, Tags, ReportTags, ReplyTags, Route
<1> QED BY <1>0, <1>2, <1>5, <1>8, <1>9, <1>10, PlainStep

\* A rank takes these numbers over.
LEMMA TakeDenseKeeps ==
  ASSUME IInv, NEW r \in Ranks, TakeDense(r), round' = round
  PROVE  IInv' /\ BandsUntouched
<1>2. /\ pc[r] = "dense" /\ Has(mail, Awaited(r)) /\ pc' = [pc EXCEPT ![r] = "settled"] /\ flat_replay' = flat_replay
      /\ mail' = Receive(mail, Awaited(r))
  BY DEF TakeDense, At, floodVars, startVars
<1>3. at(r) = 8 /\ Turn("settled") = 9
  BY <1>2, TurnIs DEF at
<1>31. flat_replay
  BY <1>3 DEF IInv, StageIs
<1>4. pc[r] \in (IF r = 0 THEN ZeroStages ELSE OtherStages)
  BY DEF IInv, StageIs
<1>5. PlainMove(r, "settled")
  BY <1>2, <1>3, <1>4 DEF PlainMove, ZeroStages, OtherStages, Stages
<1>6. PICK msgs : msgs = NoMail
  OBVIOUS
<1>7. DOMAIN msgs = {}
  BY <1>6 DEF NoMail
<1>8. Moved(r, msgs)
  BY <1>2, <1>6, MailTaken
<1>9. PlainSends(r, "settled", msgs)
  BY <1>2, <1>3, <1>4, <1>31, <1>7, KeyIs DEF PlainSends, SendTurn, Rounds, Unused, Tags, ReportTags, ReplyTags, Route, ZeroStages, OtherStages
<1>10. PlainTakes(r, "settled")
  BY <1>2, <1>3, <1>4, KeyIs DEF PlainTakes, TakeTurn, Rounds, Unused, Tags, ReportTags, ReplyTags, Route, ZeroStages, OtherStages
<1> QED BY <1>2, <1>5, <1>8, <1>9, <1>10, PlainStep

\* The scan of a tile.
LEMMA ScanTileKeeps ==
  ASSUME IInv, NEW r \in Ranks, ScanTile(r), round' = round
  PROVE  IInv' /\ BandsUntouched
<1>21. pc[r] = "scan"
  BY DEF ScanTile, At
<1>22. pc' = [pc EXCEPT ![r] = "seam"] /\ flat_replay' = flat_replay
  BY DEF ScanTile, floodVars, startVars
<1>23. mail' = Sent(mail, LeftStrip(r))
  BY DEF ScanTile
<1>24. DOMAIN LeftStrip(r) = {<<r, s, "left">> : s \in {r - 1} \cap Ranks}
  BY DEF LeftStrip
<1>2. PICK msgs : /\ pc[r] = "scan" /\ pc' = [pc EXCEPT ![r] = "seam"] /\ flat_replay' = flat_replay
                 /\ mail' = Sent(mail, msgs) /\ DOMAIN msgs = {<<r, s, "left">> : s \in {r - 1} \cap Ranks}
  BY <1>21, <1>22, <1>23, <1>24
<1>3. at(r) = 10 /\ Turn("seam") = 11
  BY <1>2, TurnIs DEF at
<1>4. pc[r] \in (IF r = 0 THEN ZeroStages ELSE OtherStages)
  BY DEF IInv, StageIs
<1>5. PlainMove(r, "seam")
  BY <1>2, <1>3, <1>4 DEF PlainMove, ZeroStages, OtherStages, Stages
<1>7. /\ DOMAIN msgs \subseteq Keys
      /\ \A key \in Keys : key \in DOMAIN msgs <=> key[1] = r /\ key[3] = "left"
  BY <1>2, LeftKeysAre
<1>8. Moved(r, msgs)
  BY <1>2, <1>7, AwaitsNone, MailSent
<1>9. PlainSends(r, "seam", msgs)
  BY <1>2, <1>3, <1>4, <1>7, KeyIs DEF PlainSends, SendTurn, Rounds, Unused, Tags, ReportTags, ReplyTags, Route, ZeroStages, OtherStages
<1>10. PlainTakes(r, "seam")
  BY <1>2, <1>3, <1>4, KeyIs DEF PlainTakes, TakeTurn, Rounds, Unused, Tags, ReportTags, ReplyTags, Route, ZeroStages, OtherStages
<1> QED BY <1>2, <1>5, <1>8, <1>9, <1>10, PlainStep

\* The scan of the seam on the right.
LEMMA ScanSeamKeeps ==
  ASSUME IInv, NEW r \in Ranks, ScanSeam(r), round' = round
  PROVE  IInv' /\ BandsUntouched
<1>1. PICK x : x = IF r = 0 THEN "merge" ELSE "ship"
  OBVIOUS
<1>2. PICK v, w : /\ pc[r] = "seam" /\ Has(mail, Awaited(r)) /\ pc' = [pc EXCEPT ![r] = x] /\ flat_replay' = flat_replay
                  /\ mail' = Sent(Sent(Receive(mail, Awaited(r)), Report(r, "intra", v)),
                             Report(r, "odbedge", w))
  BY <1>1 DEF ScanSeam, At, floodVars, startVars
<1>3. at(r) = 11 /\ Turn(x) = 12
  BY <1>1, <1>2, TurnIs DEF at
<1>4. pc[r] \in (IF r = 0 THEN ZeroStages ELSE OtherStages)
  BY DEF IInv, StageIs
<1>5. PlainMove(r, x)
  BY <1>1, <1>2, <1>3, <1>4 DEF PlainMove, ZeroStages, OtherStages, Stages
<1>6. PICK f, g : f = Report(r, "intra", v) /\ g = Report(r, "odbedge", w)
  OBVIOUS
<1>61. /\ DOMAIN f \subseteq Keys
       /\ \A key \in Keys : key \in DOMAIN f <=> key[1] = r /\ r # 0 /\ key[2] = 0 /\ key[3] = "intra"
  BY <1>6, ReportIs DEF ReportTags
<1>62. /\ DOMAIN g \subseteq Keys
       /\ \A key \in Keys : key \in DOMAIN g <=> key[1] = r /\ r # 0 /\ key[2] = 0 /\ key[3] = "odbedge"
  BY <1>6, ReportIs DEF ReportTags
<1>63. DOMAIN f \cap DOMAIN g = {}
  BY <1>61, <1>62
<1>64. mail' = Sent(Sent(Receive(mail, Awaited(r)), f), g)
  BY <1>2, <1>6
<1>8. PICK msgs : Moved(r, msgs) /\ IsBoth(msgs, f, g)
  BY <1>2, <1>61, <1>62, <1>63, <1>64, MailTakenSentTwice
<1>7. \A key \in Keys : key \in DOMAIN msgs <=> key[1] = r /\ r # 0 /\ key[2] = 0 /\ key[3] \in {"intra", "odbedge"}
  BY <1>61, <1>62, <1>8 DEF IsBoth
<1>9. PlainSends(r, x, msgs)
  BY <1>2, <1>3, <1>4, <1>7, KeyIs DEF PlainSends, SendTurn, Rounds, Unused, Tags, ReportTags, ReplyTags, Route, ZeroStages, OtherStages
<1>10. PlainTakes(r, x)
  BY <1>2, <1>3, <1>4, KeyIs DEF PlainTakes, TakeTurn, Rounds, Unused, Tags, ReportTags, ReplyTags, Route, ZeroStages, OtherStages
<1> QED BY <1>2, <1>5, <1>8, <1>9, <1>10, PlainStep

\* Rank 0 merges the databases.
LEMMA MergeKeeps ==
  ASSUME IInv, Merge, round' = round
  PROVE  IInv' /\ BandsUntouched
<1>0. 0 \in Ranks
  BY BesideIs
<1>2. /\ pc[0] = "merge" /\ Has(mail, Awaited(0)) /\ pc' = [pc EXCEPT ![0] = "records"] /\ flat_replay' = flat_replay
      /\ mail' = Receive(mail, Awaited(0))
  BY DEF Merge, At, floodVars, startVars
<1>3. at(0) = 12 /\ Turn("records") = 13
  BY <1>2, TurnIs DEF at
<1>5. PlainMove(0, "records")
  BY <1>2, <1>3 DEF PlainMove, ZeroStages, OtherStages, Stages
<1>6. PICK msgs : msgs = NoMail
  OBVIOUS
<1>7. DOMAIN msgs = {}
  BY <1>6 DEF NoMail
<1>8. Moved(0, msgs)
  BY <1>0, <1>2, <1>6, MailTaken
<1>9. PlainSends(0, "records", msgs)
  BY <1>2, <1>3, <1>7, KeyIs DEF PlainSends, SendTurn, Rounds, Unused, Tags, ReportTags, ReplyTags, Route
<1>10. PlainTakes(0, "records")
  BY <1>2, <1>3, KeyIs DEF PlainTakes, TakeTurn, Rounds, Unused, Tags, ReportTags, ReplyTags, Route
<1> QED BY <1>0, <1>2, <1>5, <1>8, <1>9, <1>10, PlainStep

\* A rank ships the records of its leaves.
LEMMA ShipRecordsKeeps ==
  ASSUME IInv, NEW r \in Ranks, ShipRecords(r), round' = round
  PROVE  IInv' /\ BandsUntouched
<1>2. PICK v : /\ pc[r] = "ship" /\ pc' = [pc EXCEPT ![r] = "placed"] /\ flat_replay' = flat_replay
               /\ mail' = Sent(mail, Report(r, "deprec", v))
  BY DEF ShipRecords, At, floodVars, startVars
<1>3. at(r) = 12 /\ Turn("placed") = 14
  BY <1>2, TurnIs DEF at
<1>4. pc[r] \in (IF r = 0 THEN ZeroStages ELSE OtherStages)
  BY DEF IInv, StageIs
<1>5. PlainMove(r, "placed")
  BY <1>2, <1>3, <1>4 DEF PlainMove, ZeroStages, OtherStages, Stages
<1>6. PICK msgs : msgs = Report(r, "deprec", v)
  OBVIOUS
<1>7. /\ DOMAIN msgs \subseteq Keys
      /\ \A key \in Keys : key \in DOMAIN msgs <=> key[1] = r /\ r # 0 /\ key[2] = 0 /\ key[3] = "deprec"
  BY <1>6, ReportIs DEF ReportTags
<1>8. Moved(r, msgs)
  BY <1>2, <1>6, <1>7, AwaitsNone, MailSent
<1>9. PlainSends(r, "placed", msgs)
  BY <1>2, <1>3, <1>4, <1>7, KeyIs DEF PlainSends, SendTurn, Rounds, Unused, Tags, ReportTags, ReplyTags, Route, ZeroStages, OtherStages
<1>10. PlainTakes(r, "placed")
  BY <1>2, <1>3, <1>4, KeyIs DEF PlainTakes, TakeTurn, Rounds, Unused, Tags, ReportTags, ReplyTags, Route, ZeroStages, OtherStages
<1> QED BY <1>2, <1>5, <1>8, <1>9, <1>10, PlainStep

\* Rank 0 assembles the hierarchy, over any outlets.
LEMMA AssembleKeeps ==
  ASSUME IInv, NEW db, Assemble(db), round' = round
  PROVE  IInv' /\ BandsUntouched
<1>0. 0 \in Ranks
  BY BesideIs
<1>2. PICK msgs : /\ pc[0] = "sweep" /\ pc' = [pc EXCEPT ![0] = "totals"] /\ flat_replay' = flat_replay
                  /\ mail' = Sent(mail, msgs) /\ DOMAIN msgs = FromZero("tree")
  BY DEF Assemble, At, floodVars, startVars
<1>3. at(0) = 15 /\ Turn("totals") = 16
  BY <1>2, TurnIs DEF at
<1>5. PlainMove(0, "totals")
  BY <1>2, <1>3 DEF PlainMove, ZeroStages, OtherStages, Stages
<1>7. /\ DOMAIN msgs \subseteq Keys
      /\ \A key \in Keys : key \in DOMAIN msgs <=> key[1] = 0 /\ key[2] # 0 /\ key[3] = "tree"
  BY <1>2, ReplyIs DEF ReplyTags
<1>8. Moved(0, msgs)
  BY <1>0, <1>2, <1>7, AwaitsNone, MailSent
<1>9. PlainSends(0, "totals", msgs)
  BY <1>2, <1>3, <1>7, KeyIs DEF PlainSends, SendTurn, Rounds, Unused, Tags, ReportTags, ReplyTags, Route
<1>10. PlainTakes(0, "totals")
  BY <1>2, <1>3, KeyIs DEF PlainTakes, TakeTurn, Rounds, Unused, Tags, ReportTags, ReplyTags, Route
<1> QED BY <1>0, <1>2, <1>5, <1>8, <1>9, <1>10, PlainStep

\* A rank charges its cells.
LEMMA TallyKeeps ==
  ASSUME IInv, NEW r \in Ranks, Tally(r), round' = round
  PROVE  IInv' /\ BandsUntouched
<1>2. PICK v : /\ pc[r] = "tree" /\ Has(mail, Awaited(r)) /\ pc' = [pc EXCEPT ![r] = "flows"] /\ flat_replay' = flat_replay
               /\ mail' = Sent(Receive(mail, Awaited(r)), Report(r, "marg", v))
  BY DEF Tally, At, floodVars, startVars
<1>3. at(r) = 15 /\ Turn("flows") = 17
  BY <1>2, TurnIs DEF at
<1>4. pc[r] \in (IF r = 0 THEN ZeroStages ELSE OtherStages)
  BY DEF IInv, StageIs
<1>5. PlainMove(r, "flows")
  BY <1>2, <1>3, <1>4 DEF PlainMove, ZeroStages, OtherStages, Stages
<1>6. PICK msgs : msgs = Report(r, "marg", v)
  OBVIOUS
<1>7. /\ DOMAIN msgs \subseteq Keys
      /\ \A key \in Keys : key \in DOMAIN msgs <=> key[1] = r /\ r # 0 /\ key[2] = 0 /\ key[3] = "marg"
  BY <1>6, ReportIs DEF ReportTags
<1>8. Moved(r, msgs)
  BY <1>2, <1>6, <1>7, MailTakenSent
<1>9. PlainSends(r, "flows", msgs)
  BY <1>2, <1>3, <1>4, <1>7, KeyIs DEF PlainSends, SendTurn, Rounds, Unused, Tags, ReportTags, ReplyTags, Route, ZeroStages, OtherStages
<1>10. PlainTakes(r, "flows")
  BY <1>2, <1>3, <1>4, KeyIs DEF PlainTakes, TakeTurn, Rounds, Unused, Tags, ReportTags, ReplyTags, Route, ZeroStages, OtherStages
<1> QED BY <1>2, <1>5, <1>8, <1>9, <1>10, PlainStep

\* Rank 0 adds the parts up.
LEMMA TotalKeeps ==
  ASSUME IInv, Total, round' = round
  PROVE  IInv' /\ BandsUntouched
<1>0. 0 \in Ranks
  BY BesideIs
<1>2. /\ pc[0] = "totals" /\ Has(mail, Awaited(0)) /\ pc' = [pc EXCEPT ![0] = "flows"] /\ flat_replay' = flat_replay
      /\ mail' = Receive(mail, Awaited(0))
  BY DEF Total, At, floodVars, startVars
<1>3. at(0) = 16 /\ Turn("flows") = 17
  BY <1>2, TurnIs DEF at
<1>5. PlainMove(0, "flows")
  BY <1>2, <1>3 DEF PlainMove, ZeroStages, OtherStages, Stages
<1>6. PICK msgs : msgs = NoMail
  OBVIOUS
<1>7. DOMAIN msgs = {}
  BY <1>6 DEF NoMail
<1>8. Moved(0, msgs)
  BY <1>0, <1>2, <1>6, MailTaken
<1>9. PlainSends(0, "flows", msgs)
  BY <1>2, <1>3, <1>7, KeyIs DEF PlainSends, SendTurn, Rounds, Unused, Tags, ReportTags, ReplyTags, Route
<1>10. PlainTakes(0, "flows")
  BY <1>2, <1>3, KeyIs DEF PlainTakes, TakeTurn, Rounds, Unused, Tags, ReportTags, ReplyTags, Route
<1> QED BY <1>0, <1>2, <1>5, <1>8, <1>9, <1>10, PlainStep

\* Rank 0 places the leaves, under any labels.
LEMMA PlaceKeeps ==
  ASSUME IInv, NEW relabel, NEW pits, Place(relabel, pits), round' = round
  PROVE  IInv' /\ BandsUntouched
<1>0. 0 \in Ranks
  BY BesideIs
<1>2. /\ pc[0] = "records" /\ Has(mail, Awaited(0)) /\ pc' = [pc EXCEPT ![0] = "placed"] /\ flat_replay' = flat_replay
      /\ mail' = Receive(mail, Awaited(0))
  BY DEF Place, At, floodVars, startVars
<1>3. at(0) = 13 /\ Turn("placed") = 14
  BY <1>2, TurnIs DEF at
<1>5. PlainMove(0, "placed")
  BY <1>2, <1>3 DEF PlainMove, ZeroStages, OtherStages, Stages
<1>6. PICK msgs : msgs = NoMail
  OBVIOUS
<1>7. DOMAIN msgs = {}
  BY <1>6 DEF NoMail
<1>8. Moved(0, msgs)
  BY <1>0, <1>2, <1>6, MailTaken
<1>9. PlainSends(0, "placed", msgs)
  BY <1>2, <1>3, <1>7, KeyIs DEF PlainSends, SendTurn, Rounds, Unused, Tags, ReportTags, ReplyTags, Route
<1>10. PlainTakes(0, "placed")
  BY <1>2, <1>3, KeyIs DEF PlainTakes, TakeTurn, Rounds, Unused, Tags, ReportTags, ReplyTags, Route
<1> QED BY <1>0, <1>2, <1>5, <1>8, <1>9, <1>10, PlainStep

\* A rank points its cells across the seam.
LEMMA FixFlowsKeeps ==
  ASSUME IInv, NEW r \in Ranks, FixFlows(r), round' = round
  PROVE  IInv' /\ BandsUntouched
<1>2. /\ pc[r] = "flows" /\ pc' = [pc EXCEPT ![r] = "shipped"] /\ flat_replay' = flat_replay
      /\ mail' = mail
  BY DEF FixFlows, At, floodVars, startVars
<1>3. at(r) = 17 /\ Turn("shipped") = 18
  BY <1>2, TurnIs DEF at
<1>4. pc[r] \in (IF r = 0 THEN ZeroStages ELSE OtherStages)
  BY DEF IInv, StageIs
<1>5. PlainMove(r, "shipped")
  BY <1>2, <1>3, <1>4 DEF PlainMove, ZeroStages, OtherStages, Stages
<1>6. PICK msgs : msgs = NoMail
  OBVIOUS
<1>7. DOMAIN msgs = {}
  BY <1>6 DEF NoMail
<1>8. Moved(r, msgs)
  BY <1>2, <1>6, AwaitsNone, MailKept
<1>9. PlainSends(r, "shipped", msgs)
  BY <1>2, <1>3, <1>4, <1>7, KeyIs DEF PlainSends, SendTurn, Rounds, Unused, Tags, ReportTags, ReplyTags, Route, ZeroStages, OtherStages
<1>10. PlainTakes(r, "shipped")
  BY <1>2, <1>3, <1>4, KeyIs DEF PlainTakes, TakeTurn, Rounds, Unused, Tags, ReportTags, ReplyTags, Route, ZeroStages, OtherStages
<1> QED BY <1>2, <1>5, <1>8, <1>9, <1>10, PlainStep

\* Rank 0 contracts the seam artefacts.
LEMMA VerifyKeeps ==
  ASSUME IInv, Verify, round' = round
  PROVE  IInv' /\ BandsUntouched
<1>0. 0 \in Ranks
  BY BesideIs
<1>2. /\ pc[0] = "verify" /\ pc' = [pc EXCEPT ![0] = "done"] /\ flat_replay' = flat_replay
      /\ mail' = mail
  BY DEF Verify, At, floodVars, startVars
<1>3. at(0) = 19 /\ Turn("done") = 20
  BY <1>2, TurnIs DEF at
<1>5. PlainMove(0, "done")
  BY <1>2, <1>3 DEF PlainMove, ZeroStages, OtherStages, Stages
<1>6. PICK msgs : msgs = NoMail
  OBVIOUS
<1>7. DOMAIN msgs = {}
  BY <1>6 DEF NoMail
<1>8. Moved(0, msgs)
  BY <1>0, <1>2, <1>6, AwaitsNone, MailKept
<1>9. PlainSends(0, "done", msgs)
  BY <1>2, <1>3, <1>7, KeyIs DEF PlainSends, SendTurn, Rounds, Unused, Tags, ReportTags, ReplyTags, Route
<1>10. PlainTakes(0, "done")
  BY <1>2, <1>3, KeyIs DEF PlainTakes, TakeTurn, Rounds, Unused, Tags, ReportTags, ReplyTags, Route
<1> QED BY <1>0, <1>2, <1>5, <1>8, <1>9, <1>10, PlainStep

-----------------------------------------------------------------------------
\* What the channels of the rounds say of two ranks.
LEMMA RoundsAre ==
  ASSUME IInv, NEW t \in Others
  PROVE  /\ Len(Waiting(mail, <<t, 0, "chg">>)) = round[t] - Decided(0)
         /\ Len(Waiting(mail, <<0, t, "cont">>)) = Decided(0) - Decided(t)
         /\ Decided(0) <= round[t] /\ Decided(t) <= Decided(0)
         /\ Decided(t) = (IF at(t) = 6 THEN round[t] - 1 ELSE round[t])
         /\ Decided(0) = (IF at(0) = 6 THEN round[0] - 1 ELSE round[0])
         /\ round[t] \in Nat /\ round[0] \in Nat
<1>1. t \in Ranks /\ t # 0 /\ 0 \in Ranks
  BY BesideIs DEF Others
<1>2. PICK k, l : k = <<t, 0, "chg">> /\ l = <<0, t, "cont">>
  OBVIOUS
<1>3. k \in Keys /\ l \in Keys
  BY <1>1, <1>2 DEF Keys, Route, Tags, ReportTags, ReplyTags
<1>4. Len(Waiting(mail, k)) = SentOn(k) - TakenOff(k) /\ Len(Waiting(mail, l)) = SentOn(l) - TakenOff(l)
  BY <1>3 DEF IInv, ChannelsAre
<1>5. SentOn(k) = round[t] /\ TakenOff(k) = Decided(0) /\ SentOn(l) = Decided(0) /\ TakenOff(l) = Decided(t)
  BY <1>2 DEF SentOn, TakenOff
<1>6. round[t] \in Nat /\ round[0] \in Nat
  BY <1>1 DEF IInv, StageIs
<1>7. Decided(t) \in Int /\ Decided(0) \in Int
  BY <1>6 DEF Decided
<1>8. Len(Waiting(mail, k)) \in Nat /\ Len(Waiting(mail, l)) \in Nat
  BY WaitingIs, QueueIs DEF IInv, Shapes
<1>9. Len(Waiting(mail, k)) = round[t] - Decided(0) /\ Len(Waiting(mail, l)) = Decided(0) - Decided(t)
  BY <1>4, <1>5
<1>10. Decided(0) <= round[t] /\ Decided(t) <= Decided(0)
  BY <1>6, <1>7, <1>8, <1>9
<1>11. /\ Decided(t) = (IF at(t) = 6 THEN round[t] - 1 ELSE round[t])
       /\ Decided(0) = (IF at(0) = 6 THEN round[0] - 1 ELSE round[0])
  BY DEF Decided
<1> QED BY <1>2, <1>6, <1>9, <1>10, <1>11

\* A queue of a length.
LEMMA EmptyOrNot ==
  ASSUME IInv, NEW key
  PROVE  /\ Len(Waiting(mail, key)) \in Nat /\ (Len(Waiting(mail, key)) = 0 <=> Waiting(mail, key) = <<>>)
BY WaitingIs, QueueIs DEF IInv, Shapes

\* The ranks meet.
LEMMA LeaveBarrierKeeps ==
  ASSUME IInv, LeaveBarrier
  PROVE  IInv'
<1>1. PICK b \in Barriers : Meet(b)
  BY DEF LeaveBarrier
<1>2. mail' = mail /\ round' = round /\ flat_replay' = flat_replay
  BY DEF LeaveBarrier, floodVars, startVars, haloVars
<1>3. PICK p, n, m : /\ p = Turn(b.at) /\ n = Turn(b.zero) /\ m = Turn(b.others)
                     /\ p \in {9, 14, 18} /\ n = p + 1
                     /\ m = IF p = 18 THEN 20 ELSE p + 1
                     /\ b.zero \in ZeroStages \ {"round"} /\ b.others \in OtherStages \ {"round"}
  BY TurnIs DEF Barriers, ZeroStages, OtherStages, Stages
<1>4. \A r \in Ranks : pc[r] = b.at /\ pc'[r] = (IF r = 0 THEN b.zero ELSE b.others)
  BY <1>1 DEF Meet
<1>5. \A r \in Ranks : at(r) = p /\ at(r)' = (IF r = 0 THEN n ELSE m)
  BY <1>3, <1>4 DEF at
<1>6. IsMail(mail) /\ DOMAIN mail \subseteq Keys /\ pc' = [r \in Ranks |-> pc'[r]] /\ round = [r \in Ranks |-> round[r]] /\ flat_replay \in BOOLEAN
  BY <1>1 DEF IInv, Shapes, Meet
<1>7. Shapes'
  BY <1>2, <1>6 DEF Shapes, IsMail
<1>8. 0 \in Ranks
  BY BesideIs
<1>9. \A key : Waiting(mail, key)' = Waiting(mail, key)
  BY <1>2 DEF Waiting
<1>10. ChannelsAre'
  <2>1. ASSUME NEW key \in Keys PROVE SentOn(key)' = SentOn(key) /\ TakenOff(key)' = TakenOff(key)
    <3>1. key[1] \in Ranks /\ key[2] \in Ranks
      BY KeyIs
    <3>2. \A r \in Ranks : BandsOut(r)' = BandsOut(r) /\ BandsIn(r)' = BandsIn(r) /\ Decided(r)' = Decided(r)
      BY <1>2, <1>3, <1>5 DEF BandsOut, BandsIn, Decided
    <3>3. SendTurn(key) \in 0 .. 15 /\ TakeTurn(key) \in 1 .. 16 /\ SendTurn(key) \notin {9, 14} /\ TakeTurn(key) \notin {9, 14}
      BY TurnsType DEF SendTurn, TakeTurn
    <3>4. ASSUME NEW r \in Ranks, NEW i \in 0 .. 16 \ {9, 14} PROVE Past(r, i)' = Past(r, i)
      <4>1. (at(r)' > i) = (at(r) > i)
        BY <1>3, <1>5
      <4> QED BY <4>1 DEF Past
    <3>5. Past(key[1], SendTurn(key))' = Past(key[1], SendTurn(key)) /\ Past(key[2], TakeTurn(key))' = Past(key[2], TakeTurn(key))
      BY <3>1, <3>3, <3>4
    <3> QED BY <1>2, <1>8, <3>1, <3>2, <3>5 DEF SentOn, TakenOff, Used
  <2>2. Keys' = Keys
    BY DEF Keys
  <2>3. \A key \in Keys : Len(Waiting(mail, key)) = SentOn(key) - TakenOff(key)
    BY DEF IInv, ChannelsAre
  <2>4. ASSUME NEW key \in Keys PROVE Len(Waiting(mail, key)') = (SentOn(key) - TakenOff(key))'
    BY <1>9, <2>1, <2>3
  <2> QED BY <2>2, <2>4 DEF ChannelsAre
<1>11. ASSUME NEW r \in Ranks PROVE StageIs(r)'
  <2>1. StageIs(r)
    BY DEF IInv
  <2>2. pc'[r] \in (IF r = 0 THEN ZeroStages ELSE OtherStages) /\ pc'[r] # "round" /\ at(r)' > 8 /\ at(r) > 8 /\ at(r)' \in Int
    BY <1>3, <1>4, <1>5
  <2>3. pc[r] # "round"
    BY <1>3, <1>5, TurnIs DEF at
  <2> QED BY <1>2, <1>3, <1>5, <2>1, <2>2, <2>3 DEF StageIs
<1>12. BarriersHold'
  <2>1. ASSUME NEW r \in Ranks, NEW s \in Ranks, NEW c \in {9, 14, 18} PROVE at(r)' > c => at(s)' > c
    BY <1>3, <1>5
  <2> QED BY <2>1 DEF BarriersHold
<1>13. RoundsEnd'
  <2>1. ASSUME NEW t \in Others, flat_replay
        PROVE  /\ at(0)' > 6 => at(t)' >= 6 /\ round'[t] = round'[0]
               /\ at(t)' > 6 => at(0)' > 6
               /\ Waiting(mail, <<0, t, "cont">>)' # <<>> => Waiting(mail, <<0, t, "cont">>)'[1] = (at(0)' <= 6)
    <3>1. t \in Ranks
      BY DEF Others
    <3>2. /\ at(0) > 6 => at(t) >= 6 /\ round[t] = round[0]
          /\ Waiting(mail, <<0, t, "cont">>) # <<>> => Waiting(mail, <<0, t, "cont">>)[1] = (at(0) <= 6)
      BY <2>1 DEF IInv, RoundsEnd
    <3>3. (at(0)' <= 6) = (at(0) <= 6)
      BY <1>3, <1>5, <1>8
    <3>4. at(0)' > 6 /\ at(t)' > 6 /\ at(t)' >= 6 /\ at(0) > 6
      BY <1>3, <1>5, <1>8, <3>1
    <3> QED BY <1>2, <1>9, <3>2, <3>3, <3>4
  <2> QED BY <1>2, <2>1 DEF RoundsEnd
<1> QED BY <1>7, <1>10, <1>11, <1>12, <1>13 DEF IInv

-----------------------------------------------------------------------------
\* In the rounds the other channels are left alone.
LEMMA NoOthers ==
  ASSUME NEW r \in Ranks, NEW key \in Keys, key[3] \notin Rounds \cup {"rep"}, flat_replay' = flat_replay,
         at(r) \in {5, 6}, at(r)' \in 5 .. 7, \A q \in Ranks \ {r} : at(q)' = at(q)
  PROVE  SentOn(key)' = SentOn(key) /\ TakenOff(key)' = TakenOff(key)
<1>1. key[1] \in Ranks /\ key[2] \in Ranks /\ key[3] \in Tags
  BY KeyIs
<1>2. SendTurn(key) \in 0 .. 15 \ {5, 6} /\ TakeTurn(key) \in 1 .. 16 \ {5, 6}
  BY <1>1 DEF SendTurn, TakeTurn, Tags, ReportTags, ReplyTags, Rounds
<1>3. ASSUME NEW q \in Ranks, NEW i \in 0 .. 16 \ {5, 6} PROVE Past(q, i)' = Past(q, i)
  <2>1. (at(q)' > i) = (at(q) > i)
    <3>1. CASE q = r
      BY <3>1
    <3>2. CASE q # r
      BY <3>2
    <3> QED BY <3>1, <3>2
  <2> QED BY <2>1 DEF Past
<1>4. Past(key[1], SendTurn(key))' = Past(key[1], SendTurn(key)) /\ Past(key[2], TakeTurn(key))' = Past(key[2], TakeTurn(key))
  BY <1>1, <1>2, <1>3
<1> QED BY <1>4 DEF SentOn, TakenOff, Used, Rounds

\* A rank in the rounds, and what a step there has to keep.
RoundStep(r, x, msgs) ==
  /\ x \in (IF r = 0 THEN ZeroStages ELSE OtherStages)
  /\ at(r) \in {5, 6} /\ Turn(x) \in 5 .. 7 /\ x # "round"
  /\ pc' = [pc EXCEPT ![r] = x] /\ flat_replay' = flat_replay
  /\ Moved(r, msgs)

\* A step of the rounds leads to a stage of its rank.
LEMMA RoundStage ==
  ASSUME IInv, NEW r \in Ranks, NEW x, NEW msgs, RoundStep(r, x, msgs), round' = [q \in Ranks |-> round'[q]],
         round'[r] \in Nat \ {0}, \A q \in Ranks \ {r} : round'[q] = round[q]
  PROVE  /\ flat_replay /\ pc'[r] = x /\ at(r)' = Turn(x) /\ (\A q \in Ranks \ {r} : pc'[q] = pc[q] /\ at(q)' = at(q))
         /\ Shapes' /\ BarriersHold' /\ \A q \in Ranks : StageIs(q)'
<1>1. pc = [q \in Ranks |-> pc[q]] /\ flat_replay \in BOOLEAN
  BY DEF IInv, Shapes
<1>2. pc'[r] = x /\ \A q \in Ranks \ {r} : pc'[q] = pc[q]
  BY <1>1 DEF RoundStep
<1>3. at(r)' = Turn(x) /\ \A q \in Ranks \ {r} : at(q)' = at(q)
  BY <1>2 DEF at
<1>4. flat_replay
  BY DEF IInv, StageIs, RoundStep
<1>5. Shapes'
  <2>1. pc' = [q \in Ranks |-> pc'[q]] /\ flat_replay' \in BOOLEAN
    BY <1>1 DEF RoundStep
  <2> QED BY <2>1 DEF Shapes, RoundStep, Moved
<1>6. BarriersHold'
  <2>1. ASSUME NEW q \in Ranks, NEW b \in {9, 14, 18} PROVE at(q)' > b <=> at(q) > b
    BY <1>3 DEF RoundStep
  <2>2. BarriersHold
    BY DEF IInv
  <2> QED BY <2>1, <2>2 DEF BarriersHold
<1>7. ASSUME NEW q \in Ranks PROVE StageIs(q)'
  <2>1. CASE q = r
    BY <1>2, <1>3, <1>4, <2>1 DEF StageIs, RoundStep
  <2>2. CASE q # r
    <3>1. pc'[q] = pc[q] /\ at(q)' = at(q) /\ StageIs(q) /\ round'[q] = round[q] /\ flat_replay' = flat_replay
      BY <1>2, <1>3, <2>2 DEF IInv, RoundStep
    <3> QED BY <3>1 DEF StageIs
  <2> QED BY <2>1, <2>2
<1> QED BY <1>2, <1>3, <1>4, <1>5, <1>6, <1>7

\* A rank votes.
LEMMA RoundKeeps ==
  ASSUME IInv, NEW r \in Ranks, Round(r)
  PROVE  IInv'
<1>1. PICK x : x = IF r = 0 THEN "votes" ELSE "answer"
  OBVIOUS
<1>2. /\ pc[r] \in {"round", "bands"} /\ Has(mail, Awaited(r)) /\ pc' = [pc EXCEPT ![r] = x] /\ flat_replay' = flat_replay
      /\ round' = [round EXCEPT ![r] = @ + 1]
  BY <1>1 DEF Round, At, floodVars, startVars
<1>3. PICK v : mail' = Sent(Receive(mail, Awaited(r)), Report(r, "chg", v))
  BY DEF Round
<1>4. PICK msgs : msgs = Report(r, "chg", v)
  OBVIOUS
<1>5. DOMAIN msgs \subseteq Keys /\ \A key \in Keys : key \in DOMAIN msgs <=> key[1] = r /\ r # 0 /\ key[2] = 0 /\ key[3] = "chg"
  BY <1>4, ReportIs DEF ReportTags
<1>6. Moved(r, msgs)
  BY <1>2, <1>3, <1>4, <1>5, MailTakenSent
<1>7. at(r) = 5 /\ Turn(x) = 6
  BY <1>1, <1>2, TurnIs DEF at
<1>8. RoundStep(r, x, msgs)
  BY <1>1, <1>2, <1>6, <1>7 DEF RoundStep, ZeroStages, OtherStages, Stages
<1>9. /\ round = [q \in Ranks |-> round[q]] /\ round[r] \in Nat /\ (round[r] = 0 <=> pc[r] = "round")
  BY <1>7, <1>8, TurnIs DEF IInv, Shapes, StageIs, RoundStep
<1>10. /\ round'[r] = round[r] + 1 /\ \A q \in Ranks \ {r} : round'[q] = round[q]
       /\ round' = [q \in Ranks |-> round'[q]] /\ round'[r] \in Nat \ {0}
  BY <1>2, <1>9
<1>11. /\ flat_replay /\ at(r)' = 6 /\ (\A q \in Ranks \ {r} : pc'[q] = pc[q] /\ at(q)' = at(q))
       /\ Shapes' /\ BarriersHold' /\ \A q \in Ranks : StageIs(q)'
  BY <1>7, <1>8, <1>10, RoundStage
<1>12. 0 \in Ranks
  BY BesideIs
<1>13. ASSUME NEW q \in Ranks
       PROVE  /\ Decided(q)' = Decided(q) /\ BandsOut(q)' = BandsOut(q)
              /\ BandsIn(q)' = BandsIn(q) + (IF q = r /\ pc[r] = "bands" THEN 1 ELSE 0)
              /\ Decided(q) \in Int /\ BandsOut(q) \in Int /\ BandsIn(q) \in Int /\ round[q] \in Nat
  <2>1. round[q] \in Nat
    BY DEF IInv, StageIs
  <2>2. CASE q = r
    BY <1>2, <1>7, <1>9, <1>10, <1>11, <2>2 DEF Decided, BandsOut, BandsIn
  <2>3. CASE q # r
    <3>1. round'[q] = round[q] /\ at(q)' = at(q) /\ flat_replay' = flat_replay
      BY <1>2, <1>10, <1>11, <2>3
    <3>2. Decided(q)' = Decided(q) /\ BandsOut(q)' = BandsOut(q) /\ BandsIn(q)' = BandsIn(q)
      BY <3>1 DEF Decided, BandsOut, BandsIn
    <3>3. Decided(q) \in Int /\ BandsOut(q) \in Int /\ BandsIn(q) \in Int
      BY <2>1 DEF Decided, BandsOut, BandsIn
    <3> QED BY <2>1, <2>3, <3>2, <3>3
  <2> QED BY <2>1, <2>2, <2>3
<1>14. ASSUME NEW key \in Keys
       PROVE  (SentOn(key) - TakenOff(key))' =
               (SentOn(key) - TakenOff(key)) - (IF key \in Awaited(r) THEN 1 ELSE 0) + (IF key \in DOMAIN msgs THEN 1 ELSE 0)
  <2>1. key[1] \in Ranks /\ key[2] \in Ranks /\ (key[3] = "chg" => key[2] = 0 /\ key[1] # 0)
    BY KeyIs DEF Route, ReportTags, ReplyTags
  <2>2. key \in Awaited(r) <=> key[2] = r /\ Due(r, key)
    BY AwaitedIs DEF IInv
  <2>3. key \in Awaited(r) <=> key[2] = r /\ key[3] = "band" /\ pc[r] = "bands"
    BY <1>2, <1>7, <2>2 DEF Due, TakeTurn
  <2>4. CASE key[3] = "band"
    <3>1. key \notin DOMAIN msgs
      BY <1>5, <2>4
    <3>2. SentOn(key) = BandsOut(key[1]) /\ TakenOff(key) = BandsIn(key[2]) /\ SentOn(key)' = BandsOut(key[1])' /\ TakenOff(key)' = BandsIn(key[2])'
      BY <2>4 DEF SentOn, TakenOff
    <3> QED BY <1>13, <2>1, <2>3, <2>4, <3>1, <3>2
  <2>5. CASE key[3] = "chg"
    <3>1. key \in DOMAIN msgs <=> key[1] = r
      BY <1>5, <2>1, <2>5
    <3>2. SentOn(key) = round[key[1]] /\ TakenOff(key) = Decided(0) /\ SentOn(key)' = round'[key[1]] /\ TakenOff(key)' = Decided(0)'
      BY <2>5 DEF SentOn, TakenOff
    <3>3. key \notin Awaited(r)
      BY <2>3, <2>5
    <3>4. round'[key[1]] = round[key[1]] + (IF key[1] = r THEN 1 ELSE 0)
      BY <1>10, <2>1, <1>13
    <3> QED BY <1>12, <1>13, <2>1, <3>1, <3>2, <3>3, <3>4
  <2>6. CASE key[3] = "cont"
    <3>1. key \notin DOMAIN msgs /\ key \notin Awaited(r)
      BY <1>5, <2>3, <2>6
    <3>2. SentOn(key) = Decided(0) /\ TakenOff(key) = Decided(key[2]) /\ SentOn(key)' = Decided(0)' /\ TakenOff(key)' = Decided(key[2])'
      BY <2>6 DEF SentOn, TakenOff
    <3> QED BY <1>12, <1>13, <2>1, <3>1, <3>2
  <2>7. CASE key[3] \notin Rounds
    <3>1. key \notin DOMAIN msgs /\ key \notin Awaited(r)
      BY <1>5, <2>3, <2>7 DEF Rounds
    <3>2. SentOn(key)' = SentOn(key) /\ TakenOff(key)' = TakenOff(key)
      <4>1. CASE key[3] = "rep"
        <5>1. ASSUME NEW q \in Ranks, NEW i \in {6, 7} PROVE Past(q, i)' = Past(q, i)
          <6>1. (at(q)' > i) = (at(q) > i)
            BY <1>7, <1>11
          <6> QED BY <6>1 DEF Past
        <5>2. SendTurn(key) \in {6, 7} /\ TakeTurn(key) = 7
          BY <4>1 DEF SendTurn, TakeTurn
        <5> QED BY <1>2, <2>1, <4>1, <5>1, <5>2 DEF SentOn, TakenOff, Used
      <4>2. CASE key[3] # "rep"
        BY <1>2, <1>7, <1>11, <2>7, <4>2, NoOthers
      <4> QED BY <4>1, <4>2
    <3>3. SentOn(key) \in Int /\ TakenOff(key) \in Int
      BY <2>7 DEF SentOn, TakenOff, Rounds, Used, Past
    <3> QED BY <3>1, <3>2, <3>3
  <2> QED BY <2>4, <2>5, <2>6, <2>7 DEF Rounds
<1>15. ChannelsAre'
  <2>1. ASSUME NEW key \in Keys PROVE Len(Waiting(mail, key)') = (SentOn(key) - TakenOff(key))'
    BY <1>6, <1>14, CountedOut
  <2>2. Keys' = Keys
    BY DEF Keys
  <2> QED BY <2>1, <2>2 DEF ChannelsAre
<1>16. RoundsEnd'
  <2>1. ASSUME NEW t \in Others
        PROVE  /\ at(0)' > 6 => at(t)' >= 6 /\ round'[t] = round'[0]
               /\ at(t)' > 6 => at(0)' > 6
               /\ Waiting(mail, <<0, t, "cont">>)' # <<>> => Waiting(mail, <<0, t, "cont">>)'[1] = (at(0)' <= 6)
    <3>1. t \in Ranks /\ t # 0
      BY DEF Others
    <3>2. /\ at(0) > 6 => at(t) >= 6 /\ round[t] = round[0]
          /\ at(t) > 6 => at(0) > 6
          /\ Waiting(mail, <<0, t, "cont">>) # <<>> => Waiting(mail, <<0, t, "cont">>)[1] = (at(0) <= 6)
      BY <1>11 DEF IInv, RoundsEnd
    <3>3. (at(0)' <= 6) = (at(0) <= 6) /\ (at(0)' > 6) = (at(0) > 6) /\ (at(t)' > 6) = (at(t) > 6)
      BY <1>7, <1>11, <1>12, <3>1
    <3>4. Waiting(mail, <<0, t, "cont">>)' = Waiting(mail, <<0, t, "cont">>)
      <4> DEFINE key == <<0, t, "cont">>
      <4>1. key \in Keys
        BY <1>12, <3>1 DEF Keys, Route, Tags, ReportTags, ReplyTags
      <4>2. key \notin DOMAIN msgs
        BY <1>5, <4>1
      <4>3. key \notin Awaited(r)
        <5>1. pc[r] # "answer" /\ StageIs(r)
          BY <1>2 DEF IInv
        <5> QED BY <4>1, <5>1, AwaitedIs DEF Due
      <4> QED BY <1>6, <4>2, <4>3 DEF Moved, Kept
    <3>5. at(0)' > 6 => at(t)' >= 6 /\ round'[t] = round'[0]
      <4>1. at(0) > 6 => r # 0 /\ r # t
        BY <1>7, <3>1, <3>2
      <4> QED BY <1>10, <1>11, <1>12, <3>1, <3>2, <3>3, <4>1
    <3> QED BY <3>2, <3>3, <3>4, <3>5
  <2> QED BY <2>1 DEF RoundsEnd
<1> QED BY <1>11, <1>15, <1>16 DEF IInv

-----------------------------------------------------------------------------
\* What rank 0 sends with its decision.
Again == Wants(0, held[0], stable[0]) \/ \E t \in Others : First(mail, <<t, 0, "chg">>)
DecidedAs(go, msgs) ==
  /\ pc' = [pc EXCEPT ![0] = IF go THEN "bands" ELSE "leaves"]
  /\ Moved(0, msgs)
  /\ \A key \in Keys : key \in DOMAIN msgs <=> key[1] = 0 /\ (key[3] = "cont" \/ (go /\ key[3] = "band"))
  /\ \A t \in Others : msgs[<<0, t, "cont">>] = go
  /\ \A key \in DOMAIN msgs : key[3] = "band" => msgs[key] = Bands(0)[key]

\* The channels on which a rank sends its bands.
LEMMA BandKeys ==
  ASSUME NEW r \in Ranks
  PROVE  /\ DOMAIN Bands(r) \subseteq Keys
         /\ \A key \in Keys : key \in DOMAIN Bands(r) <=> key[1] = r /\ key[3] = "band"
<1>1. DOMAIN Bands(r) = {<<r, s, "band">> : s \in Beside(r)}
  BY DEF Bands
<1> QED BY <1>1, SeamKeysAre

\* What rank 0 does when it has every vote.
LEMMA DecisionIs ==
  ASSUME IInv, Decide
  PROVE  \E go \in BOOLEAN : \E msgs : DecidedAs(go, msgs)
<1>0. 0 \in Ranks
  BY BesideIs
<1>1. pc[0] = "votes" /\ Has(mail, Awaited(0))
  BY DEF Decide, At
<1>2. PICK go \in BOOLEAN : go = Again
  BY DEF Again
<1>3. PICK f : f = [key \in FromZero("cont") |-> go]
  OBVIOUS
<1>4. DOMAIN f = FromZero("cont") /\ \A t \in Others : f[<<0, t, "cont">>] = go
  BY <1>3 DEF FromZero
<1>5. f = [key \in FromZero("cont") |-> Again]
  BY <1>2, <1>3
<1>6. pc' = [pc EXCEPT ![0] = IF go THEN "bands" ELSE "leaves"]
  BY <1>2 DEF Decide, Again
<1>7. mail' = IF go THEN Sent(Sent(Receive(mail, Awaited(0)), f), Bands(0)) ELSE Sent(Receive(mail, Awaited(0)), f)
  BY <1>2, <1>5 DEF Decide, Again
<1>8. /\ DOMAIN f \subseteq Keys
      /\ \A key \in Keys : key \in DOMAIN f <=> key[1] = 0 /\ key[2] # 0 /\ key[3] = "cont"
  BY <1>4, ReplyIs DEF ReplyTags
<1>9. \A key \in Keys : key[3] = "cont" => key[2] # 0
  BY KeyIs DEF Route, ReportTags
<1>10. \A t \in Others : <<0, t, "cont">> \in DOMAIN f
  BY <1>4 DEF FromZero
<1>11. CASE go = FALSE
  <2>1. mail' = Sent(Receive(mail, Awaited(0)), f)
    BY <1>7, <1>11
  <2>2. Moved(0, f)
    BY <1>0, <1>1, <1>8, <2>1, MailTakenSent
  <2>4. \A key \in DOMAIN f : key[3] = "band" => f[key] = Bands(0)[key]
    BY <1>8
  <2>3. DecidedAs(go, f)
    BY <1>4, <1>6, <1>8, <1>9, <1>11, <2>2, <2>4 DEF DecidedAs
  <2> QED BY <2>3
<1>12. CASE go = TRUE
  <2>1. PICK g : g = Bands(0)
    OBVIOUS
  <2>2. DOMAIN g \subseteq Keys /\ \A key \in Keys : key \in DOMAIN g <=> key[1] = 0 /\ key[3] = "band"
    BY <1>0, <2>1, BandKeys
  <2>3. DOMAIN f \cap DOMAIN g = {}
    BY <1>8, <2>2
  <2>4. mail' = Sent(Sent(Receive(mail, Awaited(0)), f), g)
    BY <1>7, <1>12, <2>1
  <2>5. PICK msgs : Moved(0, msgs) /\ IsBoth(msgs, f, g)
    BY <1>0, <1>1, <1>8, <2>2, <2>3, <2>4, MailTakenSentTwice
  <2>6. \A key \in Keys : key \in DOMAIN msgs <=> key[1] = 0 /\ (key[3] = "cont" \/ (go /\ key[3] = "band"))
    BY <1>8, <1>9, <1>12, <2>2, <2>5 DEF IsBoth
  <2>7. \A t \in Others : msgs[<<0, t, "cont">>] = go
    BY <1>4, <1>10, <2>5 DEF IsBoth
  <2>9. \A key \in DOMAIN msgs : key[3] = "band" => msgs[key] = Bands(0)[key]
    BY <1>8, <2>1, <2>5 DEF IsBoth
  <2>8. DecidedAs(go, msgs)
    BY <1>6, <2>5, <2>6, <2>7, <2>9 DEF DecidedAs
  <2> QED BY <2>8
<1> QED BY <1>11, <1>12

\* The decision of rank 0 keeps the invariant.
LEMMA DecideKeeps ==
  ASSUME IInv, Decide
  PROVE  IInv'
<1>0. 0 \in Ranks
  BY BesideIs
<1>go. PICK go \in BOOLEAN : \E msgs : DecidedAs(go, msgs)
  BY DecisionIs
<1>1. PICK msgs : DecidedAs(go, msgs)
  BY <1>go
<1>2. PICK x : x = IF go THEN "bands" ELSE "leaves"
  OBVIOUS
<1>3. /\ pc[0] = "votes" /\ pc' = [pc EXCEPT ![0] = x] /\ flat_replay' = flat_replay /\ round' = round /\ Moved(0, msgs)
  BY <1>1, <1>2 DEF Decide, At, floodVars, startVars, DecidedAs
<1>4. at(0) = 6 /\ Turn(x) = IF go THEN 5 ELSE 7
  BY <1>2, <1>3, TurnIs DEF at
<1>5. RoundStep(0, x, msgs)
  BY <1>2, <1>3, <1>4 DEF RoundStep, ZeroStages, Stages
<1>6. round = [q \in Ranks |-> round[q]] /\ round[0] \in Nat \ {0}
  BY <1>0, <1>3, <1>4, TurnIs DEF IInv, Shapes, StageIs, at
<1>7. /\ flat_replay /\ at(0)' = Turn(x) /\ (\A q \in Ranks \ {0} : pc'[q] = pc[q] /\ at(q)' = at(q))
      /\ Shapes' /\ BarriersHold' /\ \A q \in Ranks : StageIs(q)'
  <2>1. round' = [q \in Ranks |-> round'[q]] /\ round'[0] \in Nat \ {0} /\ \A q \in Ranks \ {0} : round'[q] = round[q]
    BY <1>3, <1>6
  <2> QED BY <1>0, <1>5, <2>1, RoundStage
<1>8. ASSUME NEW q \in Ranks
      PROVE  /\ Decided(q)' = Decided(q) + (IF q = 0 THEN 1 ELSE 0)
             /\ BandsOut(q)' = BandsOut(q) + (IF q = 0 /\ go THEN 1 ELSE 0)
             /\ BandsIn(q)' = BandsIn(q)
             /\ Decided(q) \in Int /\ BandsOut(q) \in Int /\ BandsIn(q) \in Int /\ round[q] \in Nat
  <2>1. round[q] \in Nat
    BY DEF IInv, StageIs
  <2>2. CASE q = 0
    BY <1>3, <1>4, <1>6, <1>7, <2>2 DEF Decided, BandsOut, BandsIn
  <2>3. CASE q # 0
    <3>1. round'[q] = round[q] /\ at(q)' = at(q) /\ flat_replay' = flat_replay
      BY <1>3, <1>7, <2>3
    <3>2. Decided(q)' = Decided(q) /\ BandsOut(q)' = BandsOut(q) /\ BandsIn(q)' = BandsIn(q)
      BY <3>1 DEF Decided, BandsOut, BandsIn
    <3>3. Decided(q) \in Int /\ BandsOut(q) \in Int /\ BandsIn(q) \in Int
      BY <2>1 DEF Decided, BandsOut, BandsIn
    <3> QED BY <2>1, <2>3, <3>2, <3>3
  <2> QED BY <2>2, <2>3
<1>9. \A key \in Keys : key \in DOMAIN msgs <=> key[1] = 0 /\ (key[3] = "cont" \/ (go /\ key[3] = "band"))
  BY <1>1 DEF DecidedAs
<1>10. ASSUME NEW key \in Keys
       PROVE  (SentOn(key) - TakenOff(key))' =
               (SentOn(key) - TakenOff(key)) - (IF key \in Awaited(0) THEN 1 ELSE 0) + (IF key \in DOMAIN msgs THEN 1 ELSE 0)
  <2>1. /\ key[1] \in Ranks /\ key[2] \in Ranks /\ (key[3] = "chg" => key[2] = 0 /\ key[1] # 0)
        /\ (key[3] = "cont" => key[1] = 0 /\ key[2] # 0)
    BY KeyIs DEF Route, ReportTags, ReplyTags
  <2>2. key \in Awaited(0) <=> key[2] = 0 /\ Due(0, key)
    BY <1>0, AwaitedIs DEF IInv
  <2>3. key \in Awaited(0) <=> key[3] = "chg"
    BY <1>3, <1>4, <2>1, <2>2 DEF Due, TakeTurn
  <2>4. CASE key[3] = "band"
    <3>1. key \in DOMAIN msgs <=> key[1] = 0 /\ go
      BY <1>9, <2>4
    <3>2. SentOn(key) = BandsOut(key[1]) /\ TakenOff(key) = BandsIn(key[2]) /\ SentOn(key)' = BandsOut(key[1])' /\ TakenOff(key)' = BandsIn(key[2])'
      BY <2>4 DEF SentOn, TakenOff
    <3> QED BY <1>8, <2>1, <2>3, <2>4, <3>1, <3>2
  <2>5. CASE key[3] = "chg"
    <3>1. key \notin DOMAIN msgs /\ key \in Awaited(0)
      BY <1>9, <2>3, <2>5
    <3>2. SentOn(key) = round[key[1]] /\ TakenOff(key) = Decided(0) /\ SentOn(key)' = round'[key[1]] /\ TakenOff(key)' = Decided(0)'
      BY <2>5 DEF SentOn, TakenOff
    <3> QED BY <1>0, <1>3, <1>8, <2>1, <3>1, <3>2
  <2>6. CASE key[3] = "cont"
    <3>1. key \in DOMAIN msgs /\ key \notin Awaited(0)
      BY <1>9, <2>1, <2>3, <2>6
    <3>2. SentOn(key) = Decided(0) /\ TakenOff(key) = Decided(key[2]) /\ SentOn(key)' = Decided(0)' /\ TakenOff(key)' = Decided(key[2])'
      BY <2>6 DEF SentOn, TakenOff
    <3>3. Decided(key[2])' = Decided(key[2]) /\ Decided(0)' = Decided(0) + 1 /\ Decided(0) \in Int /\ Decided(key[2]) \in Int
      BY <1>0, <1>8, <2>1, <2>6
    <3> QED BY <3>1, <3>2, <3>3
  <2>7. CASE key[3] \notin Rounds
    <3>1. key \notin DOMAIN msgs /\ key \notin Awaited(0)
      BY <1>9, <2>3, <2>7 DEF Rounds
    <3>2. SentOn(key)' = SentOn(key) /\ TakenOff(key)' = TakenOff(key)
      <4>1. CASE key[3] = "rep"
        <5>1. Past(0, 7)' = Past(0, 7) /\ \A q \in Ranks \ {0}, i \in {6, 7} : Past(q, i)' = Past(q, i)
          BY <1>4, <1>7 DEF Past
        <5>2. (key[1] = 0 => SendTurn(key) = 7) /\ SendTurn(key) \in {6, 7} /\ TakeTurn(key) = 7
          BY <4>1 DEF SendTurn, TakeTurn
        <5> QED BY <1>3, <2>1, <4>1, <5>1, <5>2 DEF SentOn, TakenOff, Used
      <4>2. CASE key[3] # "rep"
        BY <1>0, <1>3, <1>4, <1>7, <2>7, <4>2, NoOthers
      <4> QED BY <4>1, <4>2
    <3>3. SentOn(key) \in Int /\ TakenOff(key) \in Int
      BY <2>7 DEF SentOn, TakenOff, Rounds, Used, Past
    <3> QED BY <3>1, <3>2, <3>3
  <2> QED BY <2>4, <2>5, <2>6, <2>7 DEF Rounds
<1>11. ChannelsAre'
  <2>1. ASSUME NEW key \in Keys PROVE Len(Waiting(mail, key)') = (SentOn(key) - TakenOff(key))'
    BY <1>0, <1>3, <1>10, CountedOut
  <2>2. Keys' = Keys
    BY DEF Keys
  <2> QED BY <2>1, <2>2 DEF ChannelsAre
<1>12. ASSUME NEW t \in Others
       PROVE  at(t) = 6 /\ round[t] = round[0] /\ Waiting(mail, <<0, t, "cont">>) = <<>>
  <2>1. t \in Ranks /\ t # 0 /\ <<t, 0, "chg">> \in Awaited(0)
    BY <1>3 DEF Others, Awaited, ToZero
  <2>2. Waiting(mail, <<t, 0, "chg">>) # <<>>
    BY <1>3, <2>1 DEF Moved
  <2>3. Len(Waiting(mail, <<t, 0, "chg">>)) >= 1
    BY <2>2, EmptyOrNot
  <2>4. at(t) > 6 => at(0) > 6
    BY <1>7 DEF IInv, RoundsEnd
  <2>5. at(t) \in 0 .. 20
    BY <2>1, NowType DEF IInv
  <2>7. at(t) <= 6
    BY <1>4, <2>4, <2>5
  <2>8. /\ Len(Waiting(mail, <<t, 0, "chg">>)) = round[t] - Decided(0)
        /\ Len(Waiting(mail, <<0, t, "cont">>)) = Decided(0) - Decided(t)
        /\ Decided(t) <= Decided(0)
        /\ Decided(t) = (IF at(t) = 6 THEN round[t] - 1 ELSE round[t])
        /\ Decided(0) = round[0] - 1
        /\ round[t] \in Nat /\ round[0] \in Nat
    BY <1>4, RoundsAre
  <2>9. round[t] >= round[0]
    BY <2>3, <2>8
  <2>10. at(t) = 6
    BY <2>8, <2>9
  <2>6. at(t) = 6 /\ round[t] = round[0] /\ Len(Waiting(mail, <<0, t, "cont">>)) = 0
    BY <2>8, <2>9, <2>10
  <2> QED BY <2>6, EmptyOrNot
<1>13. RoundsEnd'
  <2>1. ASSUME NEW t \in Others
        PROVE  /\ at(0)' > 6 => at(t)' >= 6 /\ round'[t] = round'[0]
               /\ at(t)' > 6 => at(0)' > 6
               /\ Waiting(mail, <<0, t, "cont">>)' # <<>> => Waiting(mail, <<0, t, "cont">>)'[1] = (at(0)' <= 6)
    <3>1. t \in Ranks /\ t # 0
      BY DEF Others
    <3>2. at(t)' = 6 /\ round'[t] = round'[0]
      BY <1>3, <1>7, <1>12, <3>1
    <3>3. go = (at(0)' <= 6)
      BY <1>4, <1>7
    <3>4. Waiting(mail, <<0, t, "cont">>)' = <<go>>
      <4>1. PICK key : key = <<0, t, "cont">>
        OBVIOUS
      <4>2. key \in Keys
        BY <1>0, <3>1, <4>1 DEF Keys, Route, Tags, ReportTags, ReplyTags
      <4>3. key \in DOMAIN msgs /\ msgs[key] = go
        BY <1>1, <4>1, <4>2 DEF DecidedAs
      <4>4. key \notin Awaited(0)
        BY <1>3, <4>1 DEF Awaited, ToZero
      <4>5. Waiting(mail, key)' = Append(Waiting(mail, key), go)
        BY <1>3, <4>3, <4>4 DEF Moved, Kept
      <4>6. Waiting(mail, key)' = Append(<<>>, go)
        BY <1>12, <4>1, <4>5
      <4> QED BY <4>1, <4>6, OneMessage
    <3>5. <<go>>[1] = go
      OBVIOUS
    <3> QED BY <3>2, <3>3, <3>4, <3>5
  <2> QED BY <2>1 DEF RoundsEnd
<1> QED BY <1>7, <1>11, <1>13 DEF IInv

-----------------------------------------------------------------------------
\* What a rank sends when it has heard the decision.
HeededAs(r, go, msgs) ==
  /\ go = First(mail, <<0, r, "cont">>)
  /\ pc' = [pc EXCEPT ![r] = IF go THEN "bands" ELSE "surv"]
  /\ Moved(r, msgs)
  /\ \A key \in Keys : key \in DOMAIN msgs <=> key[1] = r /\ key[3] = (IF go THEN "band" ELSE "rep")
  /\ \A key \in DOMAIN msgs : key[3] = "band" => msgs[key] = Bands(r)[key]

\* A rank takes the decision that rank 0 has made last.
LEMMA HeardIs ==
  ASSUME IInv, NEW r \in Ranks, At(r, "answer")
  PROVE  /\ r \in Others /\ at(r) = 6 /\ flat_replay /\ Waiting(mail, <<0, r, "cont">>) # <<>>
         /\ First(mail, <<0, r, "cont">>) = (at(0) <= 6)
<1>1. pc[r] = "answer" /\ Has(mail, Awaited(r)) /\ pc[r] \in (IF r = 0 THEN ZeroStages ELSE OtherStages)
  BY DEF At, IInv, StageIs
<1>2. r # 0 /\ r \in Others /\ at(r) = 6
  BY <1>1, TurnIs DEF ZeroStages, Others, at
<1>3. flat_replay
  BY <1>2 DEF IInv, StageIs
<1>4. <<0, r, "cont">> \in DOMAIN mail
  BY <1>1 DEF Awaited, Has
<1>5. PICK q : q = Waiting(mail, <<0, r, "cont">>)
  OBVIOUS
<1>6. q # <<>> /\ First(mail, <<0, r, "cont">>) = q[1]
  BY <1>4, <1>5, WaitingIs, QueueIs DEF IInv, Shapes
<1>7. q # <<>> => q[1] = (at(0) <= 6)
  BY <1>2, <1>3, <1>5 DEF IInv, RoundsEnd
<1> QED BY <1>2, <1>3, <1>5, <1>6, <1>7

\* What a rank does that takes the decision.
LEMMA HeedingIs ==
  ASSUME IInv, NEW r \in Ranks, Heed(r)
  PROVE  \E go \in BOOLEAN : \E msgs : HeededAs(r, go, msgs)
<1>1. pc[r] = "answer" /\ Has(mail, Awaited(r)) /\ At(r, "answer") /\ r # 0 /\ First(mail, <<0, r, "cont">>) = (at(0) <= 6)
  BY HeardIs DEF Heed, At, Others
<1>2. PICK go \in BOOLEAN : go = First(mail, <<0, r, "cont">>)
  <2>2. CASE at(0) <= 6
    <3>1. First(mail, <<0, r, "cont">>) = TRUE
      BY <1>1, <2>2
    <3> QED BY <3>1
  <2>3. CASE ~ (at(0) <= 6)
    <3>1. (at(0) <= 6) = FALSE
      BY <2>3
    <3>2. First(mail, <<0, r, "cont">>) = FALSE
      BY <1>1, <3>1
    <3> QED BY <3>2
  <2> QED BY <2>2, <2>3
<1>3. PICK v : v = PitBasins(r)
  OBVIOUS
<1>4. pc' = [pc EXCEPT ![r] = IF go THEN "bands" ELSE "surv"]
  BY <1>2 DEF Heed
<1>5. mail' = Sent(Receive(mail, Awaited(r)), IF go THEN Bands(r) ELSE Report(r, "rep", v))
  BY <1>2, <1>3 DEF Heed
<1>6. PICK f : f = IF go THEN Bands(r) ELSE Report(r, "rep", v)
  OBVIOUS
<1>7. DOMAIN f \subseteq Keys /\ \A key \in Keys : key \in DOMAIN f <=> key[1] = r /\ key[3] = (IF go THEN "band" ELSE "rep")
  <2>1. CASE go
    <3>1. f = Bands(r)
      BY <1>6, <2>1
    <3> QED BY <2>1, <3>1, BandKeys
  <2>2. CASE ~ go
    <3>1. f = Report(r, "rep", v)
      BY <1>6, <2>2
    <3>2. DOMAIN f \subseteq Keys /\ \A key \in Keys : key \in DOMAIN f <=> key[1] = r /\ r # 0 /\ key[2] = 0 /\ key[3] = "rep"
      BY <3>1, ReportIs DEF ReportTags
    <3>3. \A key \in Keys : key[3] = "rep" /\ key[1] # 0 => key[2] = 0
      BY KeyIs DEF Route, ReportTags, ReplyTags
    <3> QED BY <1>1, <2>2, <3>2, <3>3
  <2> QED BY <2>1, <2>2
<1>8. Moved(r, f)
  BY <1>1, <1>5, <1>6, <1>7, MailTakenSent
<1>10. \A key \in DOMAIN f : key[3] = "band" => f[key] = Bands(r)[key]
  BY <1>6, <1>7
<1>9. HeededAs(r, go, f)
  BY <1>2, <1>4, <1>7, <1>8, <1>10 DEF HeededAs
<1> QED BY <1>9

\* Taking the decision keeps the invariant.
LEMMA HeedKeeps ==
  ASSUME IInv, NEW r \in Ranks, Heed(r)
  PROVE  IInv'
<1>0. 0 \in Ranks
  BY BesideIs
<1>go. PICK go \in BOOLEAN : \E msgs : HeededAs(r, go, msgs)
  BY HeedingIs
<1>1. PICK msgs : HeededAs(r, go, msgs)
  BY <1>go
<1>2. PICK x : x = IF go THEN "bands" ELSE "surv"
  OBVIOUS
<1>3. /\ pc[r] = "answer" /\ At(r, "answer") /\ pc' = [pc EXCEPT ![r] = x] /\ flat_replay' = flat_replay /\ round' = round /\ Moved(r, msgs)
  BY <1>1, <1>2 DEF Heed, At, floodVars, startVars, HeededAs
<1>4. at(r) = 6 /\ Turn(x) = (IF go THEN 5 ELSE 7) /\ r \in Others /\ r # 0 /\ flat_replay /\ go = (at(0) <= 6)
      /\ Waiting(mail, <<0, r, "cont">>) # <<>>
  BY <1>1, <1>2, <1>3, TurnIs, HeardIs DEF Others, HeededAs
<1>5. RoundStep(r, x, msgs)
  BY <1>2, <1>3, <1>4 DEF RoundStep, OtherStages, Stages
<1>6. round = [q \in Ranks |-> round[q]] /\ round[r] \in Nat \ {0}
  <2>1. round = [q \in Ranks |-> round[q]]
    BY DEF IInv, Shapes
  <2>2. StageIs(r)
    BY DEF IInv
  <2>3. round[r] \in Nat /\ round[r] # 0
    BY <1>3, <1>4, <2>2 DEF StageIs
  <2> QED BY <2>1, <2>3
<1>7. /\ at(r)' = Turn(x) /\ (\A q \in Ranks \ {r} : pc'[q] = pc[q] /\ at(q)' = at(q))
      /\ Shapes' /\ BarriersHold' /\ \A q \in Ranks : StageIs(q)'
  <2>1. round' = [q \in Ranks |-> round'[q]] /\ round'[r] \in Nat \ {0} /\ \A q \in Ranks \ {r} : round'[q] = round[q]
    BY <1>3, <1>6
  <2> QED BY <1>5, <2>1, RoundStage
<1>8. ASSUME NEW q \in Ranks
      PROVE  /\ Decided(q)' = Decided(q) + (IF q = r THEN 1 ELSE 0)
             /\ BandsOut(q)' = BandsOut(q) + (IF q = r /\ go THEN 1 ELSE 0)
             /\ BandsIn(q)' = BandsIn(q)
             /\ Decided(q) \in Int /\ BandsOut(q) \in Int /\ BandsIn(q) \in Int /\ round[q] \in Nat
  <2>1. round[q] \in Nat
    BY DEF IInv, StageIs
  <2>2. CASE q = r
    BY <1>3, <1>4, <1>6, <1>7, <2>2 DEF Decided, BandsOut, BandsIn
  <2>3. CASE q # r
    <3>1. round'[q] = round[q] /\ at(q)' = at(q) /\ flat_replay' = flat_replay
      BY <1>3, <1>7, <2>3
    <3>2. Decided(q)' = Decided(q) /\ BandsOut(q)' = BandsOut(q) /\ BandsIn(q)' = BandsIn(q)
      BY <3>1 DEF Decided, BandsOut, BandsIn
    <3>3. Decided(q) \in Int /\ BandsOut(q) \in Int /\ BandsIn(q) \in Int
      BY <2>1 DEF Decided, BandsOut, BandsIn
    <3> QED BY <2>1, <2>3, <3>2, <3>3
  <2> QED BY <2>2, <2>3
<1>9. \A key \in Keys : key \in DOMAIN msgs <=> key[1] = r /\ key[3] = (IF go THEN "band" ELSE "rep")
  BY <1>1 DEF HeededAs
<1>10. ASSUME NEW key \in Keys
       PROVE  (SentOn(key) - TakenOff(key))' =
               (SentOn(key) - TakenOff(key)) - (IF key \in Awaited(r) THEN 1 ELSE 0) + (IF key \in DOMAIN msgs THEN 1 ELSE 0)
  <2>1. /\ key[1] \in Ranks /\ key[2] \in Ranks /\ (key[3] = "chg" => key[2] = 0 /\ key[1] # 0)
        /\ (key[3] = "cont" => key[1] = 0 /\ key[2] # 0)
    BY KeyIs DEF Route, ReportTags, ReplyTags
  <2>2. key \in Awaited(r) <=> key[2] = r /\ Due(r, key)
    BY AwaitedIs DEF IInv
  <2>3. key \in Awaited(r) <=> key[2] = r /\ key[3] = "cont"
    BY <1>3, <1>4, <2>1, <2>2 DEF Due, TakeTurn
  <2>4. CASE key[3] = "band"
    <3>1. key \in DOMAIN msgs <=> key[1] = r /\ go
      BY <1>9, <2>4
    <3>2. SentOn(key) = BandsOut(key[1]) /\ TakenOff(key) = BandsIn(key[2]) /\ SentOn(key)' = BandsOut(key[1])' /\ TakenOff(key)' = BandsIn(key[2])'
      BY <2>4 DEF SentOn, TakenOff
    <3> QED BY <1>8, <2>1, <2>3, <2>4, <3>1, <3>2
  <2>5. CASE key[3] = "chg"
    <3>1. key \notin DOMAIN msgs /\ key \notin Awaited(r)
      BY <1>9, <2>3, <2>5
    <3>2. SentOn(key) = round[key[1]] /\ TakenOff(key) = Decided(0) /\ SentOn(key)' = round'[key[1]] /\ TakenOff(key)' = Decided(0)'
      BY <2>5 DEF SentOn, TakenOff
    <3>3. Decided(0)' = Decided(0) /\ Decided(0) \in Int /\ round[key[1]] \in Nat
      BY <1>0, <1>4, <1>8, <2>1
    <3> QED BY <1>3, <3>1, <3>2, <3>3
  <2>6. CASE key[3] = "cont"
    <3>1. key \notin DOMAIN msgs /\ (key \in Awaited(r) <=> key[2] = r)
      BY <1>9, <2>3, <2>6
    <3>2. SentOn(key) = Decided(0) /\ TakenOff(key) = Decided(key[2]) /\ SentOn(key)' = Decided(0)' /\ TakenOff(key)' = Decided(key[2])'
      BY <2>6 DEF SentOn, TakenOff
    <3>3. Decided(key[2])' = Decided(key[2]) + (IF key[2] = r THEN 1 ELSE 0) /\ Decided(key[2]) \in Int
      BY <1>8, <2>1
    <3>4. Decided(0)' = Decided(0) /\ Decided(0) \in Int
      <4>1. Decided(0)' = Decided(0) + (IF 0 = r THEN 1 ELSE 0) /\ Decided(0) \in Int
        BY <1>0, <1>8
      <4> QED BY <1>4, <4>1
    <3> QED BY <3>1, <3>2, <3>3, <3>4
  <2>7. CASE key[3] = "rep"
    <3>1. /\ key \notin Awaited(r) /\ (key \in DOMAIN msgs <=> key[1] = r /\ ~ go)
      BY <1>9, <2>3, <2>7
    <3>2. /\ SentOn(key) = Past(key[1], SendTurn(key)) /\ TakenOff(key) = Past(key[2], TakeTurn(key))
          /\ SentOn(key)' = Past(key[1], SendTurn(key))' /\ TakenOff(key)' = Past(key[2], TakeTurn(key))'
      BY <1>3, <1>4, <2>7 DEF SentOn, TakenOff, Used
    <3>3. SendTurn(key) = (IF key[1] = 0 THEN 7 ELSE 6) /\ TakeTurn(key) = 7
      BY <2>7 DEF SendTurn, TakeTurn
    <3>4. ASSUME NEW q \in Ranks PROVE Past(q, 7)' = Past(q, 7) /\ Past(q, 6)' = Past(q, 6) + (IF q = r /\ ~ go THEN 1 ELSE 0)
      BY <1>4, <1>7 DEF Past
    <3>5. ASSUME NEW q \in Ranks, NEW i \in {6, 7} PROVE Past(q, i) \in Int
      BY DEF Past
    <3>6. TakenOff(key)' = TakenOff(key) /\ TakenOff(key) \in Int
      BY <2>1, <3>2, <3>3, <3>4, <3>5
    <3>7. SentOn(key)' = SentOn(key) + (IF key \in DOMAIN msgs THEN 1 ELSE 0) /\ SentOn(key) \in Int
      BY <1>4, <2>1, <3>1, <3>2, <3>3, <3>4, <3>5
    <3> QED BY <3>1, <3>6, <3>7
  <2>8. CASE key[3] \notin Rounds \cup {"rep"}
    <3>1. key \notin DOMAIN msgs /\ key \notin Awaited(r)
      BY <1>9, <2>3, <2>8 DEF Rounds
    <3>2. SentOn(key)' = SentOn(key) /\ TakenOff(key)' = TakenOff(key)
      BY <1>3, <1>4, <1>7, <2>8, NoOthers
    <3>3. SentOn(key) \in Int /\ TakenOff(key) \in Int
      BY <2>8 DEF SentOn, TakenOff, Rounds, Used, Past
    <3> QED BY <3>1, <3>2, <3>3
  <2> QED BY <2>4, <2>5, <2>6, <2>7, <2>8 DEF Rounds
<1>11. ChannelsAre'
  <2>1. ASSUME NEW key \in Keys PROVE Len(Waiting(mail, key)') = (SentOn(key) - TakenOff(key))'
    BY <1>3, <1>10, CountedOut
  <2>2. Keys' = Keys
    BY DEF Keys
  <2> QED BY <2>1, <2>2 DEF ChannelsAre
<1>12. Waiting(mail, <<0, r, "cont">>)' = <<>>
  <2>1. /\ Decided(0) <= round[r] /\ Decided(r) = round[r] - 1 /\ round[r] \in Nat
    BY <1>4, RoundsAre
  <2>2. PICK key : key = <<0, r, "cont">>
    OBVIOUS
  <2>3. key \in Keys
    BY <1>0, <1>4, <2>2 DEF Keys, Route, Tags, ReportTags, ReplyTags
  <2>4. Len(Waiting(mail, key)') = Decided(0)' - Decided(r)'
    BY <1>11, <2>2, <2>3 DEF ChannelsAre, SentOn, TakenOff, Keys
  <2>5. Decided(0)' = Decided(0) /\ Decided(r)' = Decided(r) + 1 /\ Decided(0) \in Int
    BY <1>0, <1>4, <1>8
  <2>6. Len(Waiting(mail, key)') <= 0
    BY <2>1, <2>4, <2>5
  <2>7. IsMail(mail)'
    BY <1>7 DEF Shapes
  <2>8. PICK q : q = Waiting(mail, key)'
    OBVIOUS
  <2>9. IsQueue(q)
    <3>1. PICK m : m = mail'
      OBVIOUS
    <3>2. IsMail(m) /\ q = Waiting(m, key)
      BY <2>7, <2>8, <3>1 DEF IsMail, Waiting
    <3> QED BY <3>2, WaitingIs
  <2>10. q = <<>>
    BY <2>6, <2>8, <2>9, QueueIs
  <2> QED BY <2>2, <2>8, <2>10
<1>13. RoundsEnd'
  <2>1. ASSUME NEW t \in Others
        PROVE  /\ at(0)' > 6 => at(t)' >= 6 /\ round'[t] = round'[0]
               /\ at(t)' > 6 => at(0)' > 6
               /\ Waiting(mail, <<0, t, "cont">>)' # <<>> => Waiting(mail, <<0, t, "cont">>)'[1] = (at(0)' <= 6)
    <3>1. t \in Ranks /\ t # 0
      BY DEF Others
    <3>2. /\ at(0) > 6 => at(t) >= 6 /\ round[t] = round[0]
          /\ at(t) > 6 => at(0) > 6
          /\ Waiting(mail, <<0, t, "cont">>) # <<>> => Waiting(mail, <<0, t, "cont">>)[1] = (at(0) <= 6)
      BY <1>4 DEF IInv, RoundsEnd
    <3>3. at(0)' = at(0) /\ at(0) \in 0 .. 20
      BY <1>0, <1>4, <1>7, NowType DEF IInv
    <3>4. CASE t = r
      <4>1. at(0) > 6 <=> ~ go
        <5>1. go = (at(0) <= 6)
          BY <1>4
        <5>2. go <=> at(0) <= 6
          BY <5>1, Zenon
        <5> QED BY <3>3, <5>2
      <4> QED BY <1>3, <1>4, <1>7, <1>12, <3>2, <3>3, <3>4, <4>1
    <3>5. CASE t # r
      <4>1. Waiting(mail, <<0, t, "cont">>)' = Waiting(mail, <<0, t, "cont">>)
        <5> DEFINE key == <<0, t, "cont">>
        <5>1. key \in Keys /\ key[1] = 0
          BY <1>0, <3>1 DEF Keys, Route, Tags, ReportTags, ReplyTags
        <5>2. key \notin DOMAIN msgs
          BY <1>4, <1>9, <5>1
        <5>3. key \notin Awaited(r)
          BY <1>3, <3>5 DEF Awaited
        <5> QED BY <1>3, <5>2, <5>3 DEF Moved, Kept
      <4>2. at(t)' = at(t)
        BY <1>7, <3>1, <3>5
      <4> QED BY <1>3, <3>2, <3>3, <4>1, <4>2
    <3> QED BY <3>4, <3>5
  <2> QED BY <2>1 DEF RoundsEnd
<1> QED BY <1>7, <1>11, <1>13 DEF IInv

-----------------------------------------------------------------------------
\* The invariant says nothing of the other variables.
LEMMA StutterKeeps ==
  ASSUME IInv, UNCHANGED vars
  PROVE  IInv'
<1>1. pc' = pc /\ mail' = mail /\ round' = round /\ flat_replay' = flat_replay
  BY DEF vars, rankVars, haloVars
<1>2. at(0)' = at(0) /\ \A r \in Ranks : at(r)' = at(r)
  BY <1>1 DEF at
<1>3. \A key : Waiting(mail, key)' = Waiting(mail, key)
  BY <1>1 DEF Waiting
<1>4. Shapes' /\ Keys' = Keys
  BY <1>1 DEF IInv, Shapes, IsMail, Keys
<1>5. ChannelsAre'
  <2>1. ASSUME NEW key \in Keys PROVE SentOn(key)' = SentOn(key) /\ TakenOff(key)' = TakenOff(key)
    <3>1. key[1] \in Ranks /\ key[2] \in Ranks /\ 0 \in Ranks
      BY KeyIs, BesideIs
    <3>2. \A r \in Ranks : BandsOut(r)' = BandsOut(r) /\ BandsIn(r)' = BandsIn(r) /\ Decided(r)' = Decided(r)
      BY <1>1, <1>2 DEF BandsOut, BandsIn, Decided
    <3>3. Past(key[1], SendTurn(key))' = Past(key[1], SendTurn(key)) /\ Past(key[2], TakeTurn(key))' = Past(key[2], TakeTurn(key))
      BY <1>2, <3>1 DEF Past
    <3> QED BY <1>1, <3>1, <3>2, <3>3 DEF SentOn, TakenOff, Used
  <2>2. \A key \in Keys : Len(Waiting(mail, key)) = SentOn(key) - TakenOff(key)
    BY DEF IInv, ChannelsAre
  <2>3. ASSUME NEW key \in Keys PROVE Len(Waiting(mail, key)') = (SentOn(key) - TakenOff(key))'
    BY <1>3, <2>1, <2>2
  <2> QED BY <1>4, <2>3 DEF ChannelsAre
<1>6. \A r \in Ranks : StageIs(r)'
  BY <1>1, <1>2 DEF IInv, StageIs
<1>7. BarriersHold'
  BY <1>2 DEF IInv, BarriersHold
<1>8. RoundsEnd'
  <2>1. ASSUME NEW t \in Others, flat_replay
        PROVE  /\ at(0)' > 6 => at(t)' >= 6 /\ round'[t] = round'[0]
               /\ at(t)' > 6 => at(0)' > 6
               /\ Waiting(mail, <<0, t, "cont">>)' # <<>> => Waiting(mail, <<0, t, "cont">>)'[1] = (at(0)' <= 6)
    <3>1. at(t)' = at(t)
      BY <1>2 DEF Others
    <3>2. /\ at(0) > 6 => at(t) >= 6 /\ round[t] = round[0]
          /\ at(t) > 6 => at(0) > 6
          /\ Waiting(mail, <<0, t, "cont">>) # <<>> => Waiting(mail, <<0, t, "cont">>)[1] = (at(0) <= 6)
      BY <2>1 DEF IInv, RoundsEnd
    <3> QED BY <1>1, <1>2, <1>3, <3>1, <3>2
  <2> QED BY <1>1, <2>1 DEF RoundsEnd
<1> QED BY <1>4, <1>5, <1>6, <1>7, <1>8 DEF IInv

\* At the start nothing has been sent.
LEMMA InitHolds ==
  ASSUME Init
  PROVE  IInv
<1>0. 0 \in Ranks
  BY BesideIs
<1>1. /\ pc = [r \in Ranks |-> "start"] /\ mail = NoMail /\ round = [r \in Ranks |-> 0] /\ flat_replay \in BOOLEAN
  BY InputsAssumption DEF Init, InitRanks, InitHalo
<1>2. \A r \in Ranks : pc[r] = "start" /\ at(r) = 0 /\ round[r] = 0
  BY <1>1, TurnIs DEF at
<1>3. DOMAIN mail = {} /\ \A key : Waiting(mail, key) = <<>>
  BY <1>1 DEF NoMail, Waiting
<1>4. Shapes
  <2>1. IsMail(mail)
    BY <1>1, <1>3 DEF IsMail, NoMail
  <2>2. pc = [r \in Ranks |-> pc[r]] /\ round = [r \in Ranks |-> round[r]]
    BY <1>1
  <2> QED BY <1>1, <1>3, <2>1, <2>2 DEF Shapes
<1>5. ChannelsAre
  <2>1. ASSUME NEW key \in Keys PROVE Len(Waiting(mail, key)) = SentOn(key) - TakenOff(key)
    <3>1. key[1] \in Ranks /\ key[2] \in Ranks
      BY KeyIs
    <3>2. \A r \in Ranks : BandsOut(r) = 0 /\ BandsIn(r) = 0 /\ Decided(r) = 0
      BY <1>2 DEF BandsOut, BandsIn, Decided
    <3>3. SendTurn(key) >= 0 /\ TakeTurn(key) >= 0 /\ SendTurn(key) \in Int /\ TakeTurn(key) \in Int
      BY TurnsType
    <3>4. Past(key[1], SendTurn(key)) = 0 /\ Past(key[2], TakeTurn(key)) = 0
      BY <1>2, <3>1, <3>3 DEF Past
    <3>5. SentOn(key) = 0 /\ TakenOff(key) = 0
      BY <1>0, <1>2, <3>1, <3>2, <3>4 DEF SentOn, TakenOff, Used
    <3>6. Len(Waiting(mail, key)) = 0
      <4>1. Len(<<>>) = 0
        OBVIOUS
      <4> QED BY <1>3, <4>1
    <3> QED BY <3>5, <3>6
  <2> QED BY <2>1 DEF ChannelsAre
<1>6. ASSUME NEW r \in Ranks PROVE StageIs(r)
  BY <1>2 DEF StageIs, ZeroStages, OtherStages, Stages
<1>7. BarriersHold
  BY <1>2 DEF BarriersHold
<1>8. RoundsEnd
  BY <1>0, <1>2, <1>3 DEF RoundsEnd, Others
<1> QED BY <1>4, <1>5, <1>6, <1>7, <1>8 DEF IInv

\* Every step keeps the invariant.
LEMMA NextKeeps ==
  ASSUME IInv, [Next]_vars
  PROVE  IInv'
<1>1. CASE Conduits
  <2>1. round' = round /\ ConduitStep
    BY <1>1 DEF Conduits, haloVars
  <2> QED BY <2>1, SendStripsKeeps, FloodTileKeeps, TakeOffsetKeeps, WalkKeeps, OverlayKeeps, NumberTilesKeeps, ResolveKeeps DEF ConduitStep
<1>2. CASE FlatLabels
  <2>1. CASE Decide
    BY <2>1, DecideKeeps
  <2>2. CASE PickSurvivors
    BY <2>2, PickSurvivorsKeeps DEF PickSurvivors
  <2>3. CASE Densify
    BY <2>3, DensifyKeeps DEF Densify
  <2>4. ASSUME NEW r \in Ranks, Round(r) \/ Heed(r) PROVE IInv'
    BY <2>4, RoundKeeps, HeedKeeps
  <2>5. ASSUME NEW r \in Ranks, MapCells(r) PROVE IInv'
    BY <2>5, MapCellsKeeps DEF MapCells
  <2>6. ASSUME NEW r \in Ranks, TakeDense(r) PROVE IInv'
    BY <2>6, TakeDenseKeeps DEF TakeDense
  <2> QED BY <1>2, <2>1, <2>2, <2>3, <2>4, <2>5, <2>6 DEF FlatLabels, HaloStep
<1>3. CASE FindOutlets
  <2>1. round' = round /\ OutletStep
    BY <1>3 DEF FindOutlets, haloVars
  <2> QED BY <2>1, MergeKeeps, ScanTileKeeps, ScanSeamKeeps DEF OutletStep
<1>4. CASE BuildTree
  <2>1. round' = round /\ TreeStep
    BY <1>4 DEF BuildTree, haloVars
  <2> QED BY <2>1, PlaceKeeps, AssembleKeeps, TotalKeeps, ShipRecordsKeeps, TallyKeeps DEF TreeStep
<1>5. CASE PointAcross
  <2>1. round' = round /\ \E r \in Ranks : FixFlows(r)
    BY <1>5 DEF PointAcross, haloVars
  <2> QED BY <2>1, FixFlowsKeeps
<1>6. CASE LeaveBarrier
  BY <1>6, LeaveBarrierKeeps
<1>7. CASE Verify
  <2>1. round' = round
    BY <1>7 DEF Verify, haloVars
  <2> QED BY <1>7, <2>1, VerifyKeeps
<1>8. CASE UNCHANGED vars
  BY <1>8, StutterKeeps
<1> QED BY <1>1, <1>2, <1>3, <1>4, <1>5, <1>6, <1>7, <1>8 DEF Next

\* The invariant of the stages holds of every behaviour.
LEMMA Inductive == Spec => []IInv
<1>1. Init => IInv
  BY InitHolds
<1>2. IInv /\ [Next]_vars => IInv'
  BY NextKeeps
<1> QED BY <1>1, <1>2, PTL DEF Spec

-----------------------------------------------------------------------------
\* A rank that no other is behind, rank 0 before the others.
LEMMA HindmostIs ==
  ASSUME IInv
  PROVE  \E r \in Ranks : \A s \in Ranks : at(r) <= at(s) /\ (r # 0 => at(0) > at(r))
<1>0. 0 \in Ranks
  BY BesideIs
<1>1. PICK T : T = {at(s) : s \in Ranks}
  OBVIOUS
<1>2. \A s \in Ranks : at(s) \in 0 .. 20 /\ at(s) \in Nat
  BY NowType DEF IInv
<1>3. T \subseteq Nat /\ T # {}
  BY <1>0, <1>1, <1>2
<1>4. PICK n \in T : \A m \in T : n <= m
  BY <1>3, Least
<1>5. PICK q \in Ranks : at(q) = n
  BY <1>1, <1>4
<1>6. \A s \in Ranks : at(q) <= at(s)
  BY <1>1, <1>4, <1>5
<1>7. CASE at(0) = at(q)
  BY <1>0, <1>6, <1>7
<1>8. CASE at(0) # at(q)
  BY <1>0, <1>2, <1>6, <1>8
<1> QED BY <1>7, <1>8

\* A message is there when more have been sent than taken.
LEMMA ThereIs ==
  ASSUME IInv, NEW key \in Keys, SentOn(key) - TakenOff(key) > 0
  PROVE  key \in DOMAIN mail
<1>1. Len(Waiting(mail, key)) > 0
  BY DEF IInv, ChannelsAre
<1>2. Len(<<>>) = 0
  OBVIOUS
<1>3. Waiting(mail, key) # <<>>
  BY <1>1, <1>2
<1> QED BY <1>3 DEF Waiting

\* Outside the rounds the rank that no other is behind has every message it waits for.
LEMMA HindmostGoes ==
  ASSUME IInv, NEW r \in Ranks, \A s \in Ranks : at(r) <= at(s) /\ (r # 0 => at(0) > at(r)), at(r) \notin {5, 6}
  PROVE  Has(mail, Awaited(r))
<1>0. 0 \in Ranks
  BY BesideIs
<1>1. \A s \in Ranks : at(s) \in 0 .. 20
  BY NowType DEF IInv
<1>2. ASSUME NEW key \in Awaited(r) PROVE key \in DOMAIN mail
  <2>1. key \in Keys /\ key[2] = r /\ Due(r, key)
    BY AwaitedIs DEF IInv
  <2>2. key[3] \notin Rounds /\ TakeTurn(key) = at(r)
    BY <2>1, TurnIs DEF Due, Rounds, at
  <2>3. key[1] \in Ranks /\ Route(key[1], r, key[3]) /\ key[3] \in Tags
    BY <2>1, KeyIs
  <2>4. ~ Unused(key)
    <3>1. ~ flat_replay => at(r) \notin 5 .. 8
      BY DEF IInv, StageIs
    <3>2. key[3] \in {"rep", "flrel"} => TakeTurn(key) \in {7, 8}
      BY DEF TakeTurn
    <3> QED BY <2>2, <3>1, <3>2 DEF Unused
  <2>5. at(key[1]) > SendTurn(key)
    <3>1. SendTurn(key) < TakeTurn(key) \/ (SendTurn(key) = TakeTurn(key) /\ key[1] = 0 /\ r # 0)
      BY <2>2, <2>3 DEF SendTurn, TakeTurn, Route, Tags, ReportTags, ReplyTags, Rounds
    <3>2. SendTurn(key) \in Int
      BY TurnsType
    <3> QED BY <1>1, <2>2, <2>3, <3>1, <3>2
  <2>6. SentOn(key) = 1 /\ TakenOff(key) = 0
    BY <1>1, <2>1, <2>2, <2>4, <2>5 DEF SentOn, TakenOff, Used, Past, Rounds, Unused
  <2> QED BY <2>1, <2>6, ThereIs
<1> QED BY <1>2 DEF Has

\* In the rounds some rank has.
LEMMA RoundsGo ==
  ASSUME IInv, NEW r \in Ranks, \A s \in Ranks : at(r) <= at(s) /\ (r # 0 => at(0) > at(r)), at(r) \in {5, 6}
  PROVE  \E q \in Ranks : at(q) \in {5, 6} /\ Has(mail, Awaited(q))
<1>0. 0 \in Ranks /\ \A t \in Ranks : t # 0 => t \in Others
  BY BesideIs DEF Others
<1>1. \A s \in Ranks : at(s) \in 0 .. 20 /\ at(s) >= 5 /\ round[s] \in Nat
  <2>1. ASSUME NEW s \in Ranks PROVE at(s) \in 0 .. 20 /\ at(s) >= 5 /\ round[s] \in Nat
    <3>1. at(s) \in 0 .. 20 /\ at(r) <= at(s) /\ round[s] \in Nat
      BY NowType DEF IInv
    <3> QED BY <3>1
  <2> QED BY <2>1
<1>2. flat_replay
  BY DEF IInv, StageIs
<1>3. CASE \E q \in Ranks : pc[q] = "round"
  <2>1. PICK q \in Ranks : pc[q] = "round"
    BY <1>3
  <2>2. at(q) = 5 /\ Awaited(q) = {}
    BY <2>1, TurnIs, AwaitsNone DEF at
  <2> QED BY <2>2 DEF Has
<1>4. CASE \E t \in Others : at(t) = 6 /\ Decided(t) < Decided(0)
  <2>1. PICK t \in Others : at(t) = 6 /\ Decided(t) < Decided(0)
    BY <1>4
  <2>2. t \in Ranks /\ pc[t] \in OtherStages
    BY DEF Others, IInv, StageIs
  <2>3. pc[t] = "answer"
    BY <2>1, <2>2, TurnIs DEF at, OtherStages, Stages
  <2>4. Awaited(t) = {<<0, t, "cont">>}
    BY <2>3 DEF Awaited
  <2>5. <<0, t, "cont">> \in DOMAIN mail
    <3>1. Len(Waiting(mail, <<0, t, "cont">>)) = Decided(0) - Decided(t)
      BY RoundsAre
    <3>2. Decided(0) \in Int /\ Decided(t) \in Int
      BY <1>0, <1>1, <2>2 DEF Decided
    <3>3. Len(Waiting(mail, <<0, t, "cont">>)) # 0
      BY <2>1, <3>1, <3>2
    <3>4. Waiting(mail, <<0, t, "cont">>) # <<>>
      BY <3>3, EmptyOrNot
    <3> QED BY <3>4 DEF Waiting
  <2> QED BY <2>1, <2>2, <2>4, <2>5 DEF Has
<1>5. ASSUME \A q \in Ranks : pc[q] # "round", \A t \in Others : ~ (at(t) = 6 /\ Decided(t) < Decided(0))
      PROVE  \E q \in Ranks : at(q) \in {5, 6} /\ Has(mail, Awaited(q))
  <2>1. at(0) <= 6
    <3>1. SUFFICES ASSUME at(0) > 6 PROVE FALSE
      BY <1>0, <1>1
    <3>2. r # 0 /\ r \in Others
      BY <1>0, <1>1, <3>1
    <3>5. at(0) > 6 => at(r) >= 6 /\ round[r] = round[0]
      BY <1>2, <3>2 DEF IInv, RoundsEnd
    <3>3. at(r) = 6 /\ round[r] = round[0]
      BY <3>1, <3>5
    <3>4. Decided(r) = round[r] - 1 /\ Decided(0) = round[0]
      BY <3>1, <3>3 DEF Decided
    <3> QED BY <1>0, <1>1, <1>5, <3>2, <3>3, <3>4
  <2>2. \A t \in Others : t \in Ranks /\ at(t) \in {5, 6} /\ round[t] \in Nat
    <3>1. ASSUME NEW t \in Others PROVE t \in Ranks /\ at(t) \in {5, 6} /\ round[t] \in Nat
      <4>1. t \in Ranks
        BY DEF Others
      <4>2. at(t) > 6 => at(0) > 6
        BY <1>2 DEF IInv, RoundsEnd
      <4>3. at(t) \in 0 .. 20 /\ at(t) >= 5 /\ round[t] \in Nat
        BY <1>1, <4>1
      <4>4. at(0) \in 0 .. 20
        BY <1>0, <1>1
      <4> QED BY <2>1, <4>1, <4>2, <4>3, <4>4
    <3> QED BY <3>1
  <2>3. ASSUME NEW t \in Others, at(t) = 6 PROVE Decided(t) = Decided(0)
    <3>1. Decided(t) <= Decided(0) /\ ~ (Decided(t) < Decided(0))
      BY <1>5, <2>3, RoundsAre
    <3>2. Decided(t) \in Int /\ Decided(0) \in Int
      BY <1>0, <1>1, <2>2 DEF Decided
    <3> QED BY <3>1, <3>2
  <2>4. ASSUME NEW t \in Others, at(t) = 5 PROVE Decided(t) <= Decided(0) /\ Decided(0) <= round[t] /\ Decided(t) = round[t] /\ Decided(0) = Decided(t)
    <3>3. Decided(t) <= Decided(0) /\ Decided(0) <= round[t]
      BY RoundsAre
    <3>4. Decided(t) = round[t]
      BY <2>4 DEF Decided
    <3>1. Decided(t) <= Decided(0) /\ Decided(0) <= round[t] /\ Decided(t) = round[t]
      BY <3>3, <3>4
    <3>2. Decided(t) \in Int /\ Decided(0) \in Int
      BY <1>0, <1>1, <2>2 DEF Decided
    <3> QED BY <3>1, <3>2
  <2>5. \A q \in Ranks : at(q) \in {5, 6} /\ Decided(q) = Decided(0)
    <3>1. ASSUME NEW q \in Ranks PROVE at(q) \in {5, 6} /\ Decided(q) = Decided(0)
      <4>1. CASE q = 0
        BY <1>0, <1>1, <2>1, <4>1
      <4>2. CASE q # 0
        <5>1. q \in Others
          BY <1>0, <4>2
        <5> QED BY <2>2, <2>3, <2>4, <5>1
      <4> QED BY <4>1, <4>2
    <3> QED BY <3>1
  <2>6. CASE \E q \in Ranks : at(q) = 5
    <3>1. PICK q \in Ranks : at(q) = 5
      BY <2>6
    <3>2. pc[q] = "bands" /\ round[q] # 0
      <4>1. pc[q] \in Stages /\ pc[q] # "round" /\ (round[q] = 0 <=> ~ flat_replay \/ at(q) < 5 \/ pc[q] = "round")
        BY <1>5 DEF IInv, StageIs, ZeroStages, OtherStages
      <4>2. pc[q] = "bands"
        BY <3>1, <4>1, TurnIs DEF at, Stages
      <4> QED BY <1>2, <3>1, <4>1, <4>2
    <3>3. ASSUME NEW key \in Awaited(q) PROVE key \in DOMAIN mail
      <4>1. key \in Keys /\ key[2] = q /\ key[3] = "band"
        BY <3>2, AwaitedIs DEF IInv, Awaited
      <4>2. key[1] \in Ranks
        BY <4>1, KeyIs
      <4>3. SentOn(key) = BandsOut(key[1]) /\ TakenOff(key) = BandsIn(q)
        BY <4>1 DEF SentOn, TakenOff
      <4>4. BandsOut(key[1]) = Decided(key[1])
        BY <2>5, <4>2 DEF BandsOut
      <4>5. BandsIn(q) = round[q] - 1 /\ Decided(q) = round[q]
        BY <3>1, <3>2 DEF BandsIn, Decided
      <4>6. Decided(key[1]) = Decided(q)
        BY <2>5, <4>2
      <4>7. SentOn(key) - TakenOff(key) > 0
        BY <1>1, <4>3, <4>4, <4>5, <4>6
      <4> QED BY <4>1, <4>7, ThereIs
    <3> QED BY <3>1, <3>3 DEF Has
  <2>7. CASE ~ \E q \in Ranks : at(q) = 5
    <3>1. \A q \in Ranks : at(q) = 6
      BY <2>5, <2>7
    <3>2. ASSUME NEW key \in Awaited(0) PROVE key \in DOMAIN mail
      <4>1. key \in Keys /\ key[2] = 0 /\ Due(0, key)
        BY <1>0, AwaitedIs DEF IInv
      <4>2. pc[0] = "votes"
        BY <1>0, <3>1, TurnIs DEF at, IInv, StageIs, ZeroStages, Stages
      <4>3. PICK t \in Others : key = <<t, 0, "chg">>
        BY <4>2 DEF Awaited, ToZero
      <4>4. SentOn(key) = round[t] /\ TakenOff(key) = Decided(0) /\ t \in Ranks
        BY <2>2, <4>3 DEF SentOn, TakenOff
      <4>5. Decided(t) = round[t] - 1 /\ Decided(t) = Decided(0)
        BY <2>5, <3>1, <4>4 DEF Decided
      <4>6. SentOn(key) - TakenOff(key) > 0
        BY <1>1, <4>4, <4>5
      <4> QED BY <4>1, <4>6, ThereIs
    <3> QED BY <1>0, <3>1, <3>2 DEF Has
  <2> QED BY <2>6, <2>7
<1> QED BY <1>3, <1>4, <1>5

\* The ranks never wait for each other all at once.
LEMMA SomeGoes ==
  ASSUME IInv
  PROVE  SomeRankCanGoOn
<1>1. SUFFICES ASSUME ~ Done
               PROVE  \/ \E r \in Ranks : pc[r] \notin {b.at : b \in Barriers} \cup {"done"} /\ Has(mail, Awaited(r))
                      \/ \E b \in Barriers : \A r \in Ranks : pc[r] = b.at
  BY DEF SomeRankCanGoOn
<1>2. PICK r \in Ranks : \A s \in Ranks : at(r) <= at(s) /\ (r # 0 => at(0) > at(r))
  BY HindmostIs
<1>3. \A s \in Ranks : at(s) \in 0 .. 20 /\ pc[s] \in Stages
  BY NowType DEF IInv, StageIs, ZeroStages, OtherStages
<1>4. {b.at : b \in Barriers} = {"settled", "placed", "shipped"}
  BY DEF Barriers
<1>5. ASSUME NEW s \in Ranks PROVE (pc[s] = "settled" <=> at(s) = 9) /\ (pc[s] = "placed" <=> at(s) = 14)
         /\ (pc[s] = "shipped" <=> at(s) = 18) /\ (pc[s] = "done" <=> at(s) = 20)
  BY <1>3, TurnIs DEF Stages, at
<1>6. CASE at(r) = 20
  <2>1. \A s \in Ranks : pc[s] = "done"
    <3>1. ASSUME NEW s \in Ranks PROVE pc[s] = "done"
      <4>1. at(s) \in 0 .. 20 /\ at(r) <= at(s)
        BY <1>2, <1>3
      <4>2. at(s) = 20
        BY <1>6, <4>1
      <4> QED BY <1>5, <4>2
    <3> QED BY <3>1
  <2> QED BY <1>1, <2>1 DEF Done
<1>7. CASE at(r) \in {9, 14, 18}
  <2>1. ASSUME NEW s \in Ranks PROVE at(s) = at(r)
    <3>1. at(s) > at(r) => at(r) > at(r)
      BY <1>7 DEF IInv, BarriersHold
    <3> QED BY <1>2, <1>3, <3>1
  <2>2. PICK b \in Barriers : pc[r] = b.at
    BY <1>4, <1>5, <1>7
  <2>3. ASSUME NEW s \in Ranks PROVE pc[s] = b.at
    BY <1>5, <1>7, <2>1, <2>2
  <2> QED BY <2>3
<1>8. CASE at(r) \in {5, 6}
  <2>1. PICK q \in Ranks : at(q) \in {5, 6} /\ Has(mail, Awaited(q))
    BY <1>2, <1>8, RoundsGo
  <2>2. pc[q] \notin {"settled", "placed", "shipped", "done"}
    BY <1>5, <2>1
  <2> QED BY <1>4, <2>1, <2>2
<1>9. CASE at(r) \notin {5, 6, 9, 14, 18, 20}
  <2>1. Has(mail, Awaited(r))
    BY <1>2, <1>9, HindmostGoes
  <2>2. pc[r] \notin {"settled", "placed", "shipped", "done"}
    BY <1>5, <1>9
  <2> QED BY <1>4, <2>1, <2>2
<1> QED BY <1>6, <1>7, <1>8, <1>9

\* Until all ranks are done some rank can go on, for every number of tiles and every
\* order of the messages (SomeRankCanGoOn): the exchanges of rank_main never leave
\* everybody waiting for everybody.
THEOREM NeverStuck == Spec => []SomeRankCanGoOn
<1>1. IInv => SomeRankCanGoOn
  BY SomeGoes
<1> QED BY <1>1, Inductive, PTL

-----------------------------------------------------------------------------
\* The columns of a tile, and those of them a window may hold.
Columns(r) == X0(r) .. X1(r) - 1
Within(r, x) == x >= X0(r) - cap /\ x < X1(r) + cap

\* The n-th band that s sends to r is a tile n - 1 further away, if there is one.
TileAway(s, r, n) ==
  IF s < r THEN IF s - (n - 1) > 0 THEN s - (n - 1) ELSE 0
  ELSE IF s + (n - 1) < ntiles - 1 THEN s + (n - 1) ELSE ntiles - 1
BandOf(s, r, n) == Columns(TileAway(s, r, n))

\* The tiles a window has seen after n rounds, and the columns.
Reach(r, n) == {t \in Ranks : t - r < n /\ r - t < n}
Window(r, n) == Columns(r) \cup {x \in UNION {Columns(s) : s \in Reach(r, n)} : Within(r, x)}
NextBand(r) == IF round[r] = 0 THEN 1 ELSE round[r]

BandsCome(r, s) ==
  \A i \in DOMAIN Waiting(mail, <<s, r, "band">>) : Waiting(mail, <<s, r, "band">>)[i] = BandOf(s, r, BandsIn(r) + i)
WindowIs(r) == held[r] = Window(r, round[r])
PassesOn(r) == fwd[r].R = BandOf(r, r + 1, NextBand(r)) /\ fwd[r].L = BandOf(r, r - 1, NextBand(r))

BandInv ==
  /\ held = [r \in Ranks |-> held[r]] /\ fwd = [r \in Ranks |-> fwd[r]]
  /\ \A r \in Ranks : WindowIs(r) /\ PassesOn(r) /\ \A s \in Beside(r) : BandsCome(r, s)

-----------------------------------------------------------------------------
\* What comes from one side goes on to the other; at the end of the row a tile
\* passes on its own columns for good.
LEMMA AwayIs ==
  ASSUME NEW r \in Ranks, NEW n \in Nat \ {0}
  PROVE  /\ r - 1 \in Ranks => TileAway(r - 1, r, n) = TileAway(r, r + 1, n + 1)
         /\ r + 1 \in Ranks => TileAway(r + 1, r, n) = TileAway(r, r - 1, n + 1)
         /\ r - 1 \notin Ranks => TileAway(r, r + 1, n + 1) = TileAway(r, r + 1, n)
         /\ r + 1 \notin Ranks => TileAway(r, r - 1, n + 1) = TileAway(r, r - 1, n)
<1>1. ntiles \in Nat \ {0} /\ r \in 0 .. ntiles - 1 /\ Ranks = 0 .. ntiles - 1
  BY BesideIs DEF Ranks
<1>2. r - 1 \in Ranks => TileAway(r - 1, r, n) = TileAway(r, r + 1, n + 1)
  BY <1>1 DEF TileAway
<1>3. r + 1 \in Ranks => TileAway(r + 1, r, n) = TileAway(r, r - 1, n + 1)
  BY <1>1 DEF TileAway
<1>4. r - 1 \notin Ranks => r = 0
  BY <1>1
<1>5. r + 1 \notin Ranks => r = ntiles - 1
  BY <1>1
<1>6. r - 1 \notin Ranks => TileAway(r, r + 1, n + 1) = TileAway(r, r + 1, n)
  BY <1>1, <1>4 DEF TileAway
<1>7. r + 1 \notin Ranks => TileAway(r, r - 1, n + 1) = TileAway(r, r - 1, n)
  BY <1>1, <1>5 DEF TileAway
<1> QED BY <1>2, <1>3, <1>6, <1>7

\* The bands that come are the tiles at the rim of what is in reach.
LEMMA ReachGrows ==
  ASSUME NEW r \in Ranks, NEW n \in Nat \ {0}
  PROVE  /\ Reach(r, n) \subseteq Reach(r, n + 1)
         /\ \A s \in Beside(r) : TileAway(s, r, n) \in Reach(r, n + 1)
         /\ \A t \in Reach(r, n + 1) \ Reach(r, n) : \E s \in Beside(r) : t = TileAway(s, r, n)
<1>1. ntiles \in Nat \ {0} /\ r \in 0 .. ntiles - 1 /\ Ranks = 0 .. ntiles - 1
  BY BesideIs DEF Ranks
<1>2. Reach(r, n) \subseteq Reach(r, n + 1)
  BY <1>1 DEF Reach
<1>3. ASSUME NEW s \in Beside(r) PROVE TileAway(s, r, n) \in Reach(r, n + 1)
  <2>1. s \in Ranks /\ (s = r - 1 \/ s = r + 1)
    BY DEF Beside
  <2>2. CASE s = r - 1
    BY <1>1, <2>1, <2>2 DEF TileAway, Reach
  <2>3. CASE s = r + 1
    BY <1>1, <2>1, <2>3 DEF TileAway, Reach
  <2> QED BY <2>1, <2>2, <2>3
<1>4. ASSUME NEW t \in Reach(r, n + 1) \ Reach(r, n) PROVE \E s \in Beside(r) : t = TileAway(s, r, n)
  <2>1. t \in 0 .. ntiles - 1 /\ (t = r - n \/ t = r + n)
    BY <1>1 DEF Reach
  <2>2. CASE t = r - n
    <3>1. r - 1 \in Beside(r)
      BY <1>1, <2>1, <2>2 DEF Beside
    <3>2. t = TileAway(r - 1, r, n)
      BY <1>1, <2>1, <2>2 DEF TileAway
    <3> QED BY <3>1, <3>2
  <2>3. CASE t = r + n
    <3>1. r + 1 \in Beside(r)
      BY <1>1, <2>1, <2>3 DEF Beside
    <3>2. t = TileAway(r + 1, r, n)
      BY <1>1, <2>1, <2>3 DEF TileAway
    <3> QED BY <3>1, <3>2
  <2> QED BY <2>1, <2>2, <2>3
<1> QED BY <1>2, <1>3, <1>4

\* A window before the first round and after it, and after a round with bands.
LEMMA WindowStarts ==
  ASSUME NEW r \in Ranks
  PROVE  Window(r, 0) = Columns(r) /\ Window(r, 1) = Columns(r)
<1>1. r \in Int /\ \A t \in Ranks : t \in Int
  BY BesideIs
<1>2. Reach(r, 0) = {}
  <2>1. ASSUME NEW t \in Ranks PROVE ~ (t - r < 0 /\ r - t < 0)
    BY <1>1
  <2> QED BY <2>1 DEF Reach
<1>3. Reach(r, 1) = {r}
  <2>1. ASSUME NEW t \in Ranks PROVE t - r < 1 /\ r - t < 1 <=> t = r
    BY <1>1
  <2> QED BY <2>1 DEF Reach
<1>4. Window(r, 0) = Columns(r)
  BY <1>2 DEF Window
<1>5. Window(r, 1) = Columns(r)
  BY <1>3 DEF Window
<1> QED BY <1>4, <1>5

\* The window after one more band on each side.
LEMMA WindowGrows ==
  ASSUME NEW r \in Ranks, NEW n \in Nat \ {0}
  PROVE  Window(r, n + 1) = Window(r, n) \cup UNION {Absorbed(r, BandOf(s, r, n)) : s \in Beside(r)}
<1>1. /\ Reach(r, n) \subseteq Reach(r, n + 1)
      /\ \A s \in Beside(r) : TileAway(s, r, n) \in Reach(r, n + 1)
      /\ \A t \in Reach(r, n + 1) \ Reach(r, n) : \E s \in Beside(r) : t = TileAway(s, r, n)
  BY ReachGrows
<1>2. \A s : Absorbed(r, BandOf(s, r, n)) = {x \in Columns(TileAway(s, r, n)) : Within(r, x)}
  BY DEF Absorbed, BandOf, Within
<1>3. ASSUME NEW x \in Window(r, n + 1) PROVE x \in Window(r, n) \cup UNION {Absorbed(r, BandOf(s, r, n)) : s \in Beside(r)}
  <2>1. CASE x \in Columns(r)
    BY <2>1 DEF Window
  <2>2. CASE x \notin Columns(r)
    <3>1. PICK t \in Reach(r, n + 1) : x \in Columns(t) /\ Within(r, x)
      BY <2>2 DEF Window
    <3>2. CASE t \in Reach(r, n)
      BY <3>1, <3>2 DEF Window
    <3>3. CASE t \notin Reach(r, n)
      <4>1. PICK s \in Beside(r) : t = TileAway(s, r, n)
        BY <1>1, <3>3
      <4>2. x \in Absorbed(r, BandOf(s, r, n))
        BY <1>2, <3>1, <4>1
      <4> QED BY <4>2
    <3> QED BY <3>2, <3>3
  <2> QED BY <2>1, <2>2
<1>4. ASSUME NEW x \in Window(r, n) \cup UNION {Absorbed(r, BandOf(s, r, n)) : s \in Beside(r)} PROVE x \in Window(r, n + 1)
  <2>1. CASE x \in Window(r, n)
    BY <1>1, <2>1 DEF Window
  <2>2. CASE x \notin Window(r, n)
    <3>1. PICK s \in Beside(r) : x \in Absorbed(r, BandOf(s, r, n))
      BY <2>2
    <3>2. x \in Columns(TileAway(s, r, n)) /\ Within(r, x)
      BY <1>2, <3>1
    <3> QED BY <1>1, <3>2 DEF Window
  <2> QED BY <2>1, <2>2
<1> QED BY <1>3, <1>4

-----------------------------------------------------------------------------
\* What a vote does to the messages and the rounds.
VotedAs(r, msgs) ==
  /\ Moved(r, msgs)
  /\ \A key \in Keys : key[3] = "band" => key \notin DOMAIN msgs
  /\ flat_replay /\ pc[r] \in {"round", "bands"} /\ Has(mail, Awaited(r))
  /\ round[r] \in Nat /\ (round[r] = 0 <=> pc[r] = "round")
  /\ round'[r] = round[r] + 1 /\ \A q \in Ranks \ {r} : round'[q] = round[q]

\* What taking the bands does to the window of a rank.
LEMMA VotingIs ==
  ASSUME IInv, NEW r \in Ranks, Round(r)
  PROVE  \E msgs : VotedAs(r, msgs)
<1>1. /\ pc[r] \in {"round", "bands"} /\ Has(mail, Awaited(r)) /\ round' = [round EXCEPT ![r] = @ + 1]
  BY DEF Round, At
<1>2. PICK v : mail' = Sent(Receive(mail, Awaited(r)), Report(r, "chg", v))
  BY DEF Round
<1>3. PICK msgs : msgs = Report(r, "chg", v)
  OBVIOUS
<1>4. DOMAIN msgs \subseteq Keys /\ \A key \in Keys : key \in DOMAIN msgs <=> key[1] = r /\ r # 0 /\ key[2] = 0 /\ key[3] = "chg"
  BY <1>3, ReportIs DEF ReportTags
<1>5. Moved(r, msgs)
  BY <1>1, <1>2, <1>3, <1>4, MailTakenSent
<1>6. at(r) = 5
  BY <1>1, TurnIs DEF at
<1>7. /\ round = [q \in Ranks |-> round[q]] /\ round[r] \in Nat /\ (round[r] = 0 <=> pc[r] = "round") /\ flat_replay
  BY <1>6 DEF IInv, Shapes, StageIs
<1>8. /\ round'[r] = round[r] + 1 /\ \A q \in Ranks \ {r} : round'[q] = round[q]
  BY <1>1, <1>7
<1>9. VotedAs(r, msgs)
  BY <1>1, <1>4, <1>5, <1>7, <1>8 DEF VotedAs
<1> QED BY <1>9

\* The columns that come with the bands a rank takes.
LEMMA BandsTaken ==
  ASSUME IInv, BandInv, NEW r \in Ranks, pc[r] = "bands", Has(mail, Awaited(r)), round[r] \in Nat \ {0}
  PROVE  /\ \A s \in Beside(r) : <<s, r, "band">> \in Awaited(r) /\ First(mail, <<s, r, "band">>) = BandOf(s, r, round[r])
         /\ \A s : <<s, r, "band">> \in Awaited(r) => s \in Beside(r)
         /\ UNION {Absorbed(r, First(mail, k)) : k \in Awaited(r)} = UNION {Absorbed(r, BandOf(s, r, round[r])) : s \in Beside(r)}
<1>1. Awaited(r) = {<<s, r, "band">> : s \in Beside(r)}
  BY DEF Awaited
<1>2. ASSUME NEW s \in Beside(r) PROVE First(mail, <<s, r, "band">>) = BandOf(s, r, round[r])
  <2>1. PICK key, q : key = <<s, r, "band">> /\ q = Waiting(mail, key)
    OBVIOUS
  <2>2. key \in DOMAIN mail
    BY <1>1, <2>1 DEF Has
  <2>3. q # <<>> /\ First(mail, key) = q[1] /\ 1 \in DOMAIN q
    BY <2>1, <2>2, WaitingIs, QueueIs DEF IInv, Shapes
  <2>4. q[1] = BandOf(s, r, BandsIn(r) + 1)
    BY <2>1, <2>3 DEF BandInv, BandsCome
  <2>5. BandsIn(r) + 1 = round[r]
    BY DEF BandsIn
  <2> QED BY <2>1, <2>3, <2>4, <2>5
<1>3. PICK V, W : V = UNION {Absorbed(r, First(mail, k)) : k \in Awaited(r)} /\ W = UNION {Absorbed(r, BandOf(s, r, round[r])) : s \in Beside(r)}
  OBVIOUS
<1>4. ASSUME NEW x \in V PROVE x \in W
  <2>1. PICK k \in Awaited(r) : x \in Absorbed(r, First(mail, k))
    BY <1>3
  <2>2. PICK s \in Beside(r) : k = <<s, r, "band">>
    BY <1>1
  <2>3. x \in Absorbed(r, BandOf(s, r, round[r]))
    BY <1>2, <2>1, <2>2
  <2> QED BY <1>3, <2>3
<1>5. ASSUME NEW x \in W PROVE x \in V
  <2>1. PICK s \in Beside(r) : x \in Absorbed(r, BandOf(s, r, round[r]))
    BY <1>3
  <2>2. <<s, r, "band">> \in Awaited(r) /\ x \in Absorbed(r, First(mail, <<s, r, "band">>))
    BY <1>1, <1>2, <2>1
  <2> QED BY <1>3, <2>2
<1>6. V = W
  BY <1>4, <1>5
<1>7. \A s \in Beside(r) : <<s, r, "band">> \in Awaited(r) /\ First(mail, <<s, r, "band">>) = BandOf(s, r, round[r])
  BY <1>1, <1>2
<1>8. \A s : <<s, r, "band">> \in Awaited(r) => s \in Beside(r)
  BY <1>1
<1> QED BY <1>3, <1>6, <1>7, <1>8

\* A vote widens the window by what has come.
LEMMA VoteWindow ==
  ASSUME IInv, BandInv, NEW r \in Ranks, Round(r), NEW msgs, VotedAs(r, msgs)
  PROVE  /\ held' = [held EXCEPT ![r] = Window(r, round[r] + 1)]
         /\ PassedOn(r).R = BandOf(r, r + 1, round[r] + 1) /\ PassedOn(r).L = BandOf(r, r - 1, round[r] + 1)
<1>1. held' = [held EXCEPT ![r] = held[r] \cup UNION {Absorbed(r, First(mail, k)) : k \in Awaited(r)}]
  BY DEF Round
<1>2. held[r] = Window(r, round[r]) /\ fwd[r].R = BandOf(r, r + 1, NextBand(r)) /\ fwd[r].L = BandOf(r, r - 1, NextBand(r))
  BY DEF BandInv, WindowIs, PassesOn
<1>3. pc[r] \in {"round", "bands"} /\ Has(mail, Awaited(r)) /\ round[r] \in Nat /\ (round[r] = 0 <=> pc[r] = "round")
  BY DEF VotedAs
<1>4. CASE pc[r] = "round"
  <2>1. Awaited(r) = {} /\ round[r] = 0 /\ NextBand(r) = 1
    BY <1>3, <1>4, AwaitsNone DEF NextBand
  <2>2. held[r] \cup UNION {Absorbed(r, First(mail, k)) : k \in Awaited(r)} = Window(r, round[r] + 1)
    BY <1>2, <2>1, WindowStarts
  <2>3. PassedOn(r).R = fwd[r].R /\ PassedOn(r).L = fwd[r].L
    BY <2>1 DEF PassedOn
  <2>4. round[r] + 1 = 1
    BY <2>1
  <2>5. PassedOn(r).R = BandOf(r, r + 1, 1) /\ PassedOn(r).L = BandOf(r, r - 1, 1)
    BY <1>2, <2>1, <2>3
  <2>6. PassedOn(r).R = BandOf(r, r + 1, round[r] + 1) /\ PassedOn(r).L = BandOf(r, r - 1, round[r] + 1)
    BY <2>4, <2>5
  <2>7. held' = [held EXCEPT ![r] = Window(r, round[r] + 1)]
    BY <1>1, <2>2
  <2> QED BY <2>6, <2>7
<1>5. CASE pc[r] = "bands"
  <2>1. round[r] \in Nat \ {0} /\ NextBand(r) = round[r]
    BY <1>3, <1>5 DEF NextBand
  <2>2. /\ \A s \in Beside(r) : <<s, r, "band">> \in Awaited(r) /\ First(mail, <<s, r, "band">>) = BandOf(s, r, round[r])
        /\ \A s : <<s, r, "band">> \in Awaited(r) => s \in Beside(r)
        /\ UNION {Absorbed(r, First(mail, k)) : k \in Awaited(r)} = UNION {Absorbed(r, BandOf(s, r, round[r])) : s \in Beside(r)}
    BY <1>3, <1>5, <2>1, BandsTaken
  <2>3. held[r] \cup UNION {Absorbed(r, First(mail, k)) : k \in Awaited(r)} = Window(r, round[r] + 1)
    BY <1>2, <2>1, <2>2, WindowGrows
  <2>4. (r - 1 \in Beside(r) <=> r - 1 \in Ranks) /\ (r + 1 \in Beside(r) <=> r + 1 \in Ranks)
    BY DEF Beside
  <2>5. PassedOn(r).R = BandOf(r, r + 1, round[r] + 1)
    <3>1. CASE r - 1 \in Ranks
      <4>1. PassedOn(r).R = BandOf(r - 1, r, round[r])
        BY <2>2, <2>4, <3>1 DEF PassedOn
      <4> QED BY <2>1, <3>1, <4>1, AwayIs DEF BandOf
    <3>2. CASE r - 1 \notin Ranks
      <4>1. PassedOn(r).R = fwd[r].R
        BY <2>2, <2>4, <3>2 DEF PassedOn
      <4> QED BY <1>2, <2>1, <3>2, <4>1, AwayIs DEF BandOf
    <3> QED BY <3>1, <3>2
  <2>6. PassedOn(r).L = BandOf(r, r - 1, round[r] + 1)
    <3>1. CASE r + 1 \in Ranks
      <4>1. PassedOn(r).L = BandOf(r + 1, r, round[r])
        BY <2>2, <2>4, <3>1 DEF PassedOn
      <4> QED BY <2>1, <3>1, <4>1, AwayIs DEF BandOf
    <3>2. CASE r + 1 \notin Ranks
      <4>1. PassedOn(r).L = fwd[r].L
        BY <2>2, <2>4, <3>2 DEF PassedOn
      <4> QED BY <1>2, <2>1, <3>2, <4>1, AwayIs DEF BandOf
    <3> QED BY <3>1, <3>2
  <2> QED BY <1>1, <2>3, <2>5, <2>6
<1> QED BY <1>3, <1>4, <1>5

-----------------------------------------------------------------------------
\* A vote keeps windows and bands.
LEMMA VoteBands ==
  ASSUME IInv, BandInv, NEW r \in Ranks, Round(r)
  PROVE  BandInv'
<1>1. PICK msgs : VotedAs(r, msgs)
  BY VotingIs
<1>2. PICK n, w, f : n = round[r] /\ w = Window(r, n + 1) /\ f = PassedOn(r)
  OBVIOUS
<1>3. /\ held' = [held EXCEPT ![r] = w] /\ f.R = BandOf(r, r + 1, n + 1) /\ f.L = BandOf(r, r - 1, n + 1)
  BY <1>1, <1>2, VoteWindow
<1>4. fwd' = [fwd EXCEPT ![r] = f]
  BY <1>2 DEF Round
<1>5. /\ n \in Nat /\ round'[r] = n + 1 /\ (\A q \in Ranks \ {r} : round'[q] = round[q]) /\ (n = 0 <=> pc[r] = "round") /\ Moved(r, msgs)
      /\ (\A key \in Keys : key[3] = "band" => key \notin DOMAIN msgs) /\ pc[r] \in {"round", "bands"}
  BY <1>1, <1>2 DEF VotedAs
<1>6. /\ held = [q \in Ranks |-> held[q]] /\ fwd = [q \in Ranks |-> fwd[q]]
  BY DEF BandInv
<1>7. cap' = cap
  BY DEF cap, Round, floodVars, startVars
<1>8. /\ held' = [q \in Ranks |-> held'[q]] /\ fwd' = [q \in Ranks |-> fwd'[q]] /\ held'[r] = w /\ fwd'[r] = f
      /\ \A q \in Ranks \ {r} : held'[q] = held[q] /\ fwd'[q] = fwd[q]
  BY <1>3, <1>4, <1>6
<1>9. ASSUME NEW q \in Ranks PROVE WindowIs(q)' /\ PassesOn(q)'
  <2>1. WindowIs(q) /\ PassesOn(q)
    BY DEF BandInv
  <2>2. CASE q = r
    <3>1. held'[r] = Window(r, n + 1) /\ round'[r] = n + 1
      BY <1>2, <1>5, <1>8
    <3>2. NextBand(r)' = n + 1
      BY <1>5 DEF NextBand
    <3>3. \A i : Window(r, i)' = Window(r, i)
      BY <1>7 DEF Window, Within
    <3>4. WindowIs(r)'
      BY <3>1, <1>7 DEF WindowIs, Window, Within
    <3>5. PassesOn(r)'
      BY <1>3, <1>8, <3>2 DEF PassesOn
    <3> QED BY <2>2, <3>4, <3>5
  <2>3. CASE q # r
    <3>1. held'[q] = held[q] /\ fwd'[q] = fwd[q] /\ round'[q] = round[q]
      BY <1>5, <1>8, <2>3
    <3>2. WindowIs(q)'
      BY <1>7, <2>1, <3>1 DEF WindowIs, Window, Within
    <3>3. PassesOn(q)'
      BY <2>1, <3>1 DEF PassesOn, NextBand
    <3> QED BY <3>2, <3>3
  <2> QED BY <2>2, <2>3
<1>10. ASSUME NEW q \in Ranks, NEW s \in Beside(q) PROVE BandsCome(q, s)'
  <2>1. PICK key, a, b : key = <<s, q, "band">> /\ a = Waiting(mail, key) /\ b = Waiting(mail, key)'
    OBVIOUS
  <2>2. key \in Keys /\ key[3] = "band"
    BY <2>1, BesideIs DEF Keys, Route, Tags
  <2>3. b = IF key \in Awaited(r) THEN Tail(a) ELSE a
    BY <1>5, <2>1, <2>2 DEF Moved, Kept
  <2>4. key \in Awaited(r) <=> q = r /\ pc[r] = "bands"
    BY <2>1, <2>2, AwaitedIs DEF IInv, Due
  <2>5. \A i \in DOMAIN a : a[i] = BandOf(s, q, BandsIn(q) + i)
    BY <2>1 DEF BandInv, BandsCome
  <2>6. BandsIn(q)' = BandsIn(q) + (IF q = r /\ pc[r] = "bands" THEN 1 ELSE 0) /\ BandsIn(q) \in Int
    <3>1. round[q] \in Nat
      BY DEF IInv, StageIs
    <3>2. CASE q = r
      BY <1>2, <1>5, <3>2 DEF BandsIn
    <3>3. CASE q # r
      BY <1>5, <3>1, <3>3 DEF BandsIn
    <3> QED BY <3>2, <3>3
  <2>7. IsQueue(a) /\ (key \in Awaited(r) => a # <<>>)
    BY <1>5, <2>1, WaitingIs DEF IInv, Shapes, Moved
  <2>8. ASSUME NEW i \in DOMAIN b PROVE b[i] = BandOf(s, q, BandsIn(q)' + i)
    <3>1. CASE key \in Awaited(r)
      <4>1. /\ IsQueue(b) /\ Len(b) = Len(a) - 1 /\ \A j \in 1 .. Len(a) - 1 : b[j] = a[j + 1]
        BY <2>3, <2>7, <3>1, TailIs
      <4>2. DOMAIN b = 1 .. Len(b) /\ Len(a) \in Nat /\ DOMAIN a = 1 .. Len(a)
        BY <2>7, <4>1, QueueIs
      <4>3. i \in 1 .. Len(a) - 1 /\ i + 1 \in DOMAIN a
        BY <4>1, <4>2
      <4>4. b[i] = BandOf(s, q, BandsIn(q) + (i + 1))
        BY <2>5, <4>1, <4>3
      <4>5. BandsIn(q)' + i = BandsIn(q) + (i + 1)
        BY <2>4, <2>6, <3>1, <4>3
      <4> QED BY <4>4, <4>5
    <3>2. CASE key \notin Awaited(r)
      BY <2>3, <2>4, <2>5, <2>6, <3>2
    <3> QED BY <3>1, <3>2
  <2> QED BY <2>1, <2>8 DEF BandsCome
<1> QED BY <1>8, <1>9, <1>10 DEF BandInv

-----------------------------------------------------------------------------
\* The bands a rank sends when another round follows are the next ones.
LEMMA BandsAreNext ==
  ASSUME IInv, BandInv, NEW r \in Ranks, at(r) = 6, NEW key \in DOMAIN Bands(r)
  PROVE  key \in Keys /\ Bands(r)[key] = BandOf(r, key[2], round[r])
<1>1. round[r] \in Nat \ {0} /\ NextBand(r) = round[r]
  <2>1. round[r] \in Nat /\ (round[r] = 0 <=> ~ flat_replay \/ at(r) < 5 \/ pc[r] = "round") /\ (~ flat_replay => at(r) \notin 5 .. 8)
    BY DEF IInv, StageIs
  <2>2. pc[r] # "round"
    BY TurnIs DEF at
  <2> QED BY <2>1, <2>2 DEF NextBand
<1>2. key \in Keys /\ key[1] = r /\ key[3] = "band"
  BY BandKeys
<1>3. PICK s \in Beside(r) : key = <<r, s, "band">>
  BY DEF Bands
<1>4. s = r - 1 \/ s = r + 1
  BY <1>3 DEF Beside
<1>5. r \in Int
  BY BesideIs
<1>6. Bands(r)[key] = IF key[2] > r THEN fwd[r].R ELSE fwd[r].L
  BY DEF Bands
<1>7. fwd[r].R = BandOf(r, r + 1, round[r]) /\ fwd[r].L = BandOf(r, r - 1, round[r])
  BY <1>1 DEF BandInv, PassesOn
<1>8. CASE s = r + 1
  BY <1>2, <1>3, <1>5, <1>6, <1>7, <1>8
<1>9. CASE s = r - 1
  BY <1>2, <1>3, <1>5, <1>6, <1>7, <1>9
<1> QED BY <1>2, <1>4, <1>8, <1>9

\* A decision and its hearing append them.
LEMMA SentBands ==
  ASSUME IInv, BandInv, NEW r \in Ranks, at(r) = 6, NEW msgs, Moved(r, msgs),
         \A key \in DOMAIN msgs : key[3] = "band" => key \in DOMAIN Bands(r) /\ msgs[key] = Bands(r)[key],
         held' = held, fwd' = fwd, round' = round, halo_cap' = halo_cap
  PROVE  BandInv'
<1>1. /\ held' = [q \in Ranks |-> held'[q]] /\ fwd' = [q \in Ranks |-> fwd'[q]]
  BY DEF BandInv
<1>2. ASSUME NEW q \in Ranks PROVE WindowIs(q)' /\ PassesOn(q)'
  <2>1. WindowIs(q) /\ PassesOn(q)
    BY DEF BandInv
  <2> QED BY <2>1 DEF WindowIs, PassesOn, Window, Within, cap, NextBand
<1>3. flat_replay
  BY DEF IInv, StageIs
<1>4. ASSUME NEW q \in Ranks, NEW s \in Beside(q) PROVE BandsCome(q, s)'
  <2>1. PICK key, a, b : key = <<s, q, "band">> /\ a = Waiting(mail, key) /\ b = Waiting(mail, key)'
    OBVIOUS
  <2>2. key \in Keys /\ key[3] = "band" /\ key[1] = s /\ key[2] = q /\ s \in Ranks
    BY <2>1, BesideIs DEF Keys, Route, Tags
  <2>3. key \notin Awaited(r)
    <3>1. pc[r] # "bands"
      BY TurnIs DEF at
    <3> QED BY <2>2, <3>1, AwaitedIs DEF IInv, Due
  <2>4. b = IF key \in DOMAIN msgs THEN Append(a, msgs[key]) ELSE a
    BY <2>1, <2>3 DEF Moved, Kept
  <2>5. \A i \in DOMAIN a : a[i] = BandOf(s, q, BandsIn(q) + i)
    BY <2>1 DEF BandInv, BandsCome
  <2>6. BandsIn(q)' = BandsIn(q)
    BY DEF BandsIn
  <2>7. IsQueue(a)
    BY <2>1, WaitingIs DEF IInv, Shapes
  <2>8. CASE key \notin DOMAIN msgs
    <3>1. b = a
      BY <2>4, <2>8
    <3> QED BY <2>1, <2>5, <2>6, <3>1 DEF BandsCome
  <2>9. CASE key \in DOMAIN msgs
    <3>1. PICK v : v = msgs[key]
      OBVIOUS
    <3>2. s = r /\ v = BandOf(s, q, round[s])
      <4>1. key \in DOMAIN Bands(r) /\ v = Bands(r)[key]
        BY <2>2, <2>9, <3>1
      <4>2. key[1] = r
        BY <2>2, <4>1, BandKeys
      <4>3. Bands(r)[key] = BandOf(r, key[2], round[r])
        BY <4>1, BandsAreNext
      <4> QED BY <2>2, <4>1, <4>2, <4>3
    <3>3. Len(a) = round[s] - 1 - BandsIn(q)
      <4>1. Len(a) = SentOn(key) - TakenOff(key)
        BY <2>1, <2>2 DEF IInv, ChannelsAre
      <4>2. SentOn(key) = BandsOut(s) /\ TakenOff(key) = BandsIn(q)
        BY <2>2 DEF SentOn, TakenOff
      <4>3. BandsOut(s) = round[s] - 1
        BY <1>3, <3>2 DEF BandsOut, Decided
      <4> QED BY <4>1, <4>2, <4>3
    <3>4. round[s] \in Nat /\ BandsIn(q) \in Int /\ Len(a) \in Nat /\ DOMAIN a = 1 .. Len(a)
      <4>1. round[s] \in Nat /\ round[q] \in Nat
        BY <2>2 DEF IInv, StageIs
      <4>2. BandsIn(q) \in Int
        BY <4>1 DEF BandsIn
      <4> QED BY <2>7, <4>1, <4>2, QueueIs
    <3>5. b = Append(a, v)
      BY <2>4, <2>9, <3>1
    <3>6. /\ IsQueue(b) /\ Len(b) = Len(a) + 1 /\ (\A i \in 1 .. Len(a) : b[i] = a[i]) /\ b[Len(a) + 1] = v
      BY <2>7, <3>5, Appended
    <3>7. DOMAIN b = 1 .. Len(b)
      BY <3>6, QueueIs
    <3>8. ASSUME NEW i \in DOMAIN b PROVE b[i] = BandOf(s, q, BandsIn(q)' + i)
      <4>1. i \in 1 .. Len(a) + 1
        BY <3>6, <3>7
      <4>2. CASE i \in 1 .. Len(a)
        BY <2>5, <2>6, <3>4, <3>6, <4>2
      <4>3. CASE i = Len(a) + 1
        <5>1. BandsIn(q) + i = round[s]
          BY <3>3, <3>4, <4>3
        <5> QED BY <2>6, <3>2, <3>6, <4>3, <5>1
      <4> QED BY <3>4, <4>1, <4>2, <4>3
    <3> QED BY <2>1, <3>8 DEF BandsCome
  <2> QED BY <2>8, <2>9
<1> QED BY <1>1, <1>2, <1>4 DEF BandInv

\* A step that sends and takes no band.
LEMMA OtherSteps ==
  ASSUME BandInv, BandsUntouched, held' = held, fwd' = fwd, round' = round, halo_cap' = halo_cap
  PROVE  BandInv'
<1>1. /\ held' = [q \in Ranks |-> held'[q]] /\ fwd' = [q \in Ranks |-> fwd'[q]]
  BY DEF BandInv
<1>2. ASSUME NEW q \in Ranks PROVE WindowIs(q)' /\ PassesOn(q)'
  <2>1. WindowIs(q) /\ PassesOn(q)
    BY DEF BandInv
  <2> QED BY <2>1 DEF WindowIs, PassesOn, Window, Within, cap, NextBand
<1>3. ASSUME NEW q \in Ranks, NEW s \in Beside(q) PROVE BandsCome(q, s)'
  <2>1. PICK key : key = <<s, q, "band">>
    OBVIOUS
  <2>2. key \in Keys /\ key[3] = "band"
    BY <2>1, BesideIs DEF Keys, Route, Tags
  <2>3. Waiting(mail, key)' = Waiting(mail, key)
    BY <2>2 DEF BandsUntouched
  <2>4. BandsIn(q)' = BandsIn(q)
    BY DEF BandsIn
  <2>5. BandsCome(q, s)
    BY DEF BandInv
  <2> QED BY <2>1, <2>3, <2>4, <2>5 DEF BandsCome
<1> QED BY <1>1, <1>2, <1>3 DEF BandInv

-----------------------------------------------------------------------------
\* The decision of rank 0 keeps the bands in order.
LEMMA DecideBands ==
  ASSUME IInv, BandInv, Decide
  PROVE  BandInv'
<1>go. PICK go \in BOOLEAN : \E msgs : DecidedAs(go, msgs)
  BY DecisionIs
<1>1. PICK msgs : DecidedAs(go, msgs)
  BY <1>go
<1>2. 0 \in Ranks /\ at(0) = 6
  BY BesideIs, TurnIs DEF Decide, At, at
<1>3. Moved(0, msgs) /\ \A key \in DOMAIN msgs : key[3] = "band" => msgs[key] = Bands(0)[key]
  BY <1>1 DEF DecidedAs
<1>4. ASSUME NEW key \in DOMAIN msgs, key[3] = "band" PROVE key \in DOMAIN Bands(0) /\ msgs[key] = Bands(0)[key]
  <2>1. key \in Keys
    BY <1>3 DEF Moved
  <2>2. key[1] = 0
    BY <1>1, <2>1 DEF DecidedAs
  <2> QED BY <1>2, <1>3, <1>4, <2>1, <2>2, BandKeys
<1>5. held' = held /\ fwd' = fwd /\ round' = round /\ halo_cap' = halo_cap
  BY DEF Decide, floodVars, startVars
<1> QED BY <1>2, <1>3, <1>4, <1>5, SentBands

\* A rank that takes the decision keeps the bands in order.
LEMMA HeedBands ==
  ASSUME IInv, BandInv, NEW r \in Ranks, Heed(r)
  PROVE  BandInv'
<1>go. PICK go \in BOOLEAN : \E msgs : HeededAs(r, go, msgs)
  BY HeedingIs
<1>1. PICK msgs : HeededAs(r, go, msgs)
  BY <1>go
<1>2. at(r) = 6
  BY TurnIs DEF Heed, At, at
<1>3. Moved(r, msgs) /\ \A key \in DOMAIN msgs : key[3] = "band" => msgs[key] = Bands(r)[key]
  BY <1>1 DEF HeededAs
<1>4. ASSUME NEW key \in DOMAIN msgs, key[3] = "band" PROVE key \in DOMAIN Bands(r) /\ msgs[key] = Bands(r)[key]
  <2>1. key \in Keys
    BY <1>3 DEF Moved
  <2>2. key[1] = r
    BY <1>1, <2>1 DEF HeededAs
  <2> QED BY <1>3, <1>4, <2>1, <2>2, BandKeys
<1>5. held' = held /\ fwd' = fwd /\ round' = round /\ halo_cap' = halo_cap
  BY DEF Heed, floodVars, startVars
<1> QED BY <1>2, <1>3, <1>4, <1>5, SentBands

\* At the start a window is the tile and no band has been sent.
LEMMA InitBands ==
  ASSUME Init
  PROVE  BandInv
<1>1. /\ round = [r \in Ranks |-> 0] /\ held = [r \in Ranks |-> X0(r) .. X1(r) - 1]
      /\ fwd = [r \in Ranks |-> [R |-> held[r], L |-> held[r]]] /\ mail = NoMail
  BY DEF Init, InitRanks, InitHalo
<1>2. /\ held = [r \in Ranks |-> held[r]] /\ fwd = [r \in Ranks |-> fwd[r]]
  BY <1>1
<1>3. ASSUME NEW r \in Ranks PROVE WindowIs(r) /\ PassesOn(r)
  <2>1. round[r] = 0 /\ held[r] = Columns(r) /\ fwd[r].R = Columns(r) /\ fwd[r].L = Columns(r) /\ NextBand(r) = 1
    BY <1>1 DEF Columns, NextBand
  <2>2. WindowIs(r)
    BY <2>1, WindowStarts DEF WindowIs
  <2>3. ntiles \in Nat /\ r \in 0 .. ntiles - 1
    BY BesideIs DEF Ranks
  <2>4. TileAway(r, r + 1, 1) = r /\ TileAway(r, r - 1, 1) = r
    BY <2>3 DEF TileAway
  <2>5. PassesOn(r)
    BY <2>1, <2>4 DEF PassesOn, BandOf
  <2> QED BY <2>2, <2>5
<1>4. ASSUME NEW r \in Ranks, NEW s \in Beside(r) PROVE BandsCome(r, s)
  <2>1. Waiting(mail, <<s, r, "band">>) = <<>>
    BY <1>1 DEF NoMail, Waiting
  <2> QED BY <2>1 DEF BandsCome
<1> QED BY <1>2, <1>3, <1>4 DEF BandInv

\* Nobody else touches the windows or the cap.
LEMMA ActsLeaveWindows ==
  ASSUME IInv, Next
  PROVE  \/ Decide \/ \E r \in Ranks : Round(r) \/ Heed(r)
         \/ BandsUntouched /\ held' = held /\ fwd' = fwd /\ round' = round /\ halo_cap' = halo_cap
<1>1. CASE Conduits
  <2>1. round' = round /\ held' = held /\ fwd' = fwd /\ ConduitStep
    BY <1>1 DEF Conduits, haloVars
  <2>2. BandsUntouched
    BY <2>1, SendStripsKeeps, FloodTileKeeps, TakeOffsetKeeps, WalkKeeps, OverlayKeeps, NumberTilesKeeps, ResolveKeeps DEF ConduitStep
  <2>3. halo_cap' = halo_cap
    <3>1. ASSUME NEW r \in Ranks, SendStrips(r) PROVE halo_cap' = halo_cap
      BY <3>1 DEF SendStrips, floodVars, startVars
    <3>2. ASSUME NEW r \in Ranks, FloodTile(r) PROVE halo_cap' = halo_cap
      BY <3>2 DEF FloodTile, floodVars, startVars
    <3>3. ASSUME NEW r \in Ranks, TakeOffset(r) PROVE halo_cap' = halo_cap
      BY <3>3 DEF TakeOffset, floodVars, startVars
    <3>4. ASSUME NEW r \in Ranks, Walk(r) PROVE halo_cap' = halo_cap
      BY <3>4 DEF Walk, floodVars, startVars
    <3>5. ASSUME NEW r \in Ranks, Overlay(r) PROVE halo_cap' = halo_cap
      BY <3>5 DEF Overlay, floodVars, startVars
    <3>6. ASSUME NumberTiles PROVE halo_cap' = halo_cap
      BY <3>6 DEF NumberTiles, floodVars, startVars
    <3>7. ASSUME Resolve PROVE halo_cap' = halo_cap
      BY <3>7 DEF Resolve, floodVars, startVars
    <3> QED BY <2>1, <3>1, <3>2, <3>3, <3>4, <3>5, <3>6, <3>7 DEF ConduitStep
  <2> QED BY <2>1, <2>2, <2>3
<1>2. CASE FlatLabels
  <2>1. ASSUME PickSurvivors PROVE BandsUntouched /\ held' = held /\ fwd' = fwd /\ round' = round /\ halo_cap' = halo_cap
    <3>1. held' = held /\ fwd' = fwd /\ round' = round /\ halo_cap' = halo_cap
      BY <2>1 DEF PickSurvivors, floodVars, startVars
    <3> QED BY <2>1, <3>1, PickSurvivorsKeeps
  <2>2. ASSUME Densify PROVE BandsUntouched /\ held' = held /\ fwd' = fwd /\ round' = round /\ halo_cap' = halo_cap
    <3>1. held' = held /\ fwd' = fwd /\ round' = round /\ halo_cap' = halo_cap
      BY <2>2 DEF Densify, floodVars, startVars
    <3> QED BY <2>2, <3>1, DensifyKeeps
  <2>3. ASSUME NEW r \in Ranks, MapCells(r) PROVE BandsUntouched /\ held' = held /\ fwd' = fwd /\ round' = round /\ halo_cap' = halo_cap
    <3>1. held' = held /\ fwd' = fwd /\ round' = round /\ halo_cap' = halo_cap
      BY <2>3 DEF MapCells, floodVars, startVars
    <3> QED BY <2>3, <3>1, MapCellsKeeps
  <2>4. ASSUME NEW r \in Ranks, TakeDense(r) PROVE BandsUntouched /\ held' = held /\ fwd' = fwd /\ round' = round /\ halo_cap' = halo_cap
    <3>1. held' = held /\ fwd' = fwd /\ round' = round /\ halo_cap' = halo_cap
      BY <2>4 DEF TakeDense, floodVars, startVars
    <3> QED BY <2>4, <3>1, TakeDenseKeeps
  <2> QED BY <1>2, <2>1, <2>2, <2>3, <2>4 DEF FlatLabels, HaloStep
<1>3. CASE FindOutlets
  <2>1. round' = round /\ held' = held /\ fwd' = fwd /\ OutletStep
    BY <1>3 DEF FindOutlets, haloVars
  <2>2. BandsUntouched
    BY <2>1, MergeKeeps, ScanTileKeeps, ScanSeamKeeps DEF OutletStep
  <2>3. halo_cap' = halo_cap
    BY <2>1 DEF OutletStep, Merge, ScanTile, ScanSeam, floodVars, startVars
  <2> QED BY <2>1, <2>2, <2>3
<1>4. CASE BuildTree
  <2>1. round' = round /\ held' = held /\ fwd' = fwd /\ TreeStep
    BY <1>4 DEF BuildTree, haloVars
  <2>2. BandsUntouched
    BY <2>1, PlaceKeeps, AssembleKeeps, TotalKeeps, ShipRecordsKeeps, TallyKeeps DEF TreeStep
  <2>3. halo_cap' = halo_cap
    <3>1. ASSUME Place(fl_relabel, surv) PROVE halo_cap' = halo_cap
      BY <3>1 DEF Place, floodVars, startVars
    <3>2. ASSUME Assemble(outlet_db_dist) PROVE halo_cap' = halo_cap
      BY <3>2 DEF Assemble, floodVars, startVars
    <3>3. ASSUME Total PROVE halo_cap' = halo_cap
      BY <3>3 DEF Total, floodVars, startVars
    <3>4. ASSUME NEW r \in Ranks, ShipRecords(r) PROVE halo_cap' = halo_cap
      BY <3>4 DEF ShipRecords, floodVars, startVars
    <3>5. ASSUME NEW r \in Ranks, Tally(r) PROVE halo_cap' = halo_cap
      BY <3>5 DEF Tally, floodVars, startVars
    <3> QED BY <2>1, <3>1, <3>2, <3>3, <3>4, <3>5 DEF TreeStep
  <2> QED BY <2>1, <2>2, <2>3
<1>5. CASE PointAcross
  <2>1. round' = round /\ held' = held /\ fwd' = fwd /\ \E r \in Ranks : FixFlows(r)
    BY <1>5 DEF PointAcross, haloVars
  <2>2. BandsUntouched
    BY <2>1, FixFlowsKeeps
  <2>3. halo_cap' = halo_cap
    BY <2>1 DEF FixFlows, floodVars, startVars
  <2> QED BY <2>1, <2>2, <2>3
<1>6. CASE LeaveBarrier
  <2>1. mail' = mail /\ held' = held /\ fwd' = fwd /\ round' = round /\ halo_cap' = halo_cap
    BY <1>6 DEF LeaveBarrier, haloVars, floodVars, startVars
  <2>2. BandsUntouched
    BY <2>1 DEF BandsUntouched, Waiting
  <2> QED BY <2>1, <2>2
<1>7. CASE Verify
  <2>1. mail' = mail /\ held' = held /\ fwd' = fwd /\ round' = round /\ halo_cap' = halo_cap
    BY <1>7 DEF Verify, haloVars, floodVars, startVars
  <2>2. BandsUntouched
    BY <2>1 DEF BandsUntouched, Waiting
  <2> QED BY <2>1, <2>2
<1> QED BY <1>1, <1>2, <1>3, <1>4, <1>5, <1>6, <1>7 DEF Next

\* Every step keeps the windows and the bands.
LEMMA NextBands ==
  ASSUME IInv, BandInv, [Next]_vars
  PROVE  BandInv'
<1>1. CASE Next
  <2>1. CASE Decide
    BY <2>1, DecideBands
  <2>2. ASSUME NEW r \in Ranks, Round(r) PROVE BandInv'
    BY <2>2, VoteBands
  <2>3. ASSUME NEW r \in Ranks, Heed(r) PROVE BandInv'
    BY <2>3, HeedBands
  <2>4. CASE BandsUntouched /\ held' = held /\ fwd' = fwd /\ round' = round /\ halo_cap' = halo_cap
    BY <2>4, OtherSteps
  <2> QED BY <1>1, <2>1, <2>2, <2>3, <2>4, ActsLeaveWindows
<1>2. CASE UNCHANGED vars
  <2>1. mail' = mail /\ held' = held /\ fwd' = fwd /\ round' = round /\ halo_cap' = halo_cap
    BY <1>2 DEF vars, rankVars, haloVars
  <2>2. BandsUntouched
    BY <2>1 DEF BandsUntouched, Waiting
  <2> QED BY <2>1, <2>2, OtherSteps
<1> QED BY <1>1, <1>2

\* What they come to.
LEMMA InOrder ==
  ASSUME IInv, BandInv
  PROVE  BandsArriveInOrder
<1>1. ASSUME NEW r \in Ranks
      PROVE  held[r] = (X0(r) .. X1(r) - 1) \cup
                {x \in UNION {X0(s) .. X1(s) - 1 : s \in {t \in Ranks : t - r < round[r] /\ r - t < round[r]}} :
                   x >= X0(r) - cap /\ x < X1(r) + cap}
  <2>1. held[r] = Window(r, round[r])
    BY DEF BandInv, WindowIs
  <2> QED BY <2>1 DEF Window, Columns, Reach, Within
<1>2. ASSUME NEW r \in Ranks, NEW s \in Ranks PROVE round[r] <= round[s] + 1
  <2>1. ASSUME NEW q \in Ranks PROVE Decided(0) <= round[q] /\ round[q] <= Decided(0) + 1 /\ round[q] \in Nat /\ Decided(0) \in Int
    <3>1. round[q] \in Nat /\ round[0] \in Nat
      BY BesideIs DEF IInv, StageIs
    <3>2. Decided(0) = IF at(0) = 6 THEN round[0] - 1 ELSE round[0]
      BY DEF Decided
    <3>3. CASE q = 0
      BY <3>1, <3>2, <3>3
    <3>4. CASE q # 0
      <4>1. Decided(0) <= round[q] /\ Decided(q) <= Decided(0) /\ Decided(q) = (IF at(q) = 6 THEN round[q] - 1 ELSE round[q])
        BY <3>4, RoundsAre DEF Others
      <4> QED BY <3>1, <3>2, <4>1
    <3> QED BY <3>3, <3>4
  <2> QED BY <2>1
<1> QED BY <1>1, <1>2 DEF BandsArriveInOrder

\* The bands of the growing halo are those of the tile that comes next on either side,
\* and the window has no gap (BandsArriveInOrder), for every number of tiles and every
\* order of the messages.
THEOREM BandsArriveInOrderAlways == Spec => []BandsArriveInOrder
<1>1. Init => IInv /\ BandInv
  BY InitHolds, InitBands
<1>2. IInv /\ BandInv /\ [Next]_vars => IInv' /\ BandInv'
  BY NextKeeps, NextBands
<1>3. IInv /\ BandInv => BandsArriveInOrder
  BY InOrder
<1> QED BY <1>1, <1>2, <1>3, PTL DEF Spec

-----------------------------------------------------------------------------
(***************************************************************************)
(* The grid and its tiles.                                                 *)
(***************************************************************************)
\* The cells of the raster, counted.
CellTotal == Width * Height

\* The cells are as many as the grid has places, and finitely many.
LEMMA CellCount ==
  CellTotal \in Nat \ {0} /\ Cells \subseteq Nat /\ IsFiniteSet(Cells) /\ Cardinality(Cells) = CellTotal
<1>1. CellTotal \in Nat \ {0}
  <2>1. Width \in Nat \ {0} /\ Height \in Nat \ {0}
    BY GridAssumption
  <2>2. Width * Height \in Int /\ Width * Height > 0
    BY <2>1, SMTT(30)
  <2> QED BY <2>2 DEF CellTotal
<1>2. IsFiniteSet(0 .. CellTotal - 1) /\ Cardinality(0 .. CellTotal - 1) = CellTotal
  BY <1>1, FS_Interval
<1> QED BY <1>1, <1>2 DEF Cells, CellTotal

\* Row and column of a cell, and back.
LEMMA RowAndColumn ==
  /\ \A c \in Cells : /\ XOf(c) \in 0 .. Width - 1 /\ YOf(c) \in 0 .. Height - 1
                      /\ c = YOf(c) * Width + XOf(c)
  /\ \A x \in 0 .. Width - 1, y \in 0 .. Height - 1 :
       /\ y * Width + x \in Cells
       /\ XOf(y * Width + x) = x /\ YOf(y * Width + x) = y
<1>1. Width \in Nat \ {0} /\ Height \in Nat \ {0}
  BY GridAssumption
<1>2. ASSUME NEW c \in Cells
      PROVE  /\ XOf(c) \in 0 .. Width - 1 /\ YOf(c) \in 0 .. Height - 1
             /\ c = YOf(c) * Width + XOf(c)
  <2>1. c \in Int /\ 0 <= c /\ c < Width * Height
    BY <1>1, CellCount DEF Cells, CellTotal
  <2> DEFINE q == c \div Width
             r == c % Width
  <2>2. q \in Int /\ r \in 0 .. Width - 1 /\ c = q * Width + r
    <3>1. c % Width \in 0 .. Width - 1
      BY <1>1, <2>1
    <3>2. c \div Width \in Int
      BY <1>1, <2>1
    <3>3. c = ((c \div Width) * Width) + (c % Width)
      BY <1>1, <2>1
    <3> QED BY <3>1, <3>2, <3>3
  <2>3. q >= 0
    BY <1>1, <2>1
  <2>4. q < Height
    <3>1. q \in Int /\ Height \in Int /\ Width \in Int /\ Width > 0
      BY <1>1, <2>2
    <3>2. ASSUME q >= Height PROVE FALSE
      <4>1. q * Width >= Height * Width
        <5> HIDE DEF q
        <5> QED BY <3>1, <3>2
      <4> HIDE DEF q, r
      <4> QED BY <4>1, <2>1, <2>2, <3>1
    <3> HIDE DEF q
    <3> QED BY <3>1, <3>2
  <2>5. XOf(c) = r /\ YOf(c) = q
    BY DEF XOf, YOf
  <2> HIDE DEF q, r
  <2> QED BY <1>1, <2>2, <2>3, <2>4, <2>5
<1>3. ASSUME NEW x \in 0 .. Width - 1, NEW y \in 0 .. Height - 1
      PROVE  /\ y * Width + x \in Cells
             /\ XOf(y * Width + x) = x /\ YOf(y * Width + x) = y
  <2>1. x \in Nat /\ y \in Nat /\ x < Width /\ y + 1 <= Height
    BY <1>1
  <2>2. (y * Width + x) % Width = x /\ (y * Width + x) \div Width = y
    BY <1>1, <2>1
  <2>3. y * Width + x < (y + 1) * Width
    BY <1>1, <2>1
  <2>4. (y + 1) * Width <= Height * Width
    BY <1>1, <2>1
  <2>5. y * Width + x \in Nat /\ (y + 1) * Width \in Nat /\ Height * Width = Width * Height
    BY <1>1, <2>1
  <2>6. y * Width + x \in 0 .. Width * Height - 1
    BY <2>3, <2>4, <2>5, CellCount DEF CellTotal
  <2> QED BY <2>2, <2>6 DEF Cells, XOf, YOf
<1> QED BY <1>2, <1>3

\* A pass over a sequence that appends a value for some of the members.
Collects(F, n, S, keep, val) ==
  /\ \A i \in 1 .. n : keep[i] => val[i] \in S
  /\ F[{}] = <<>>
  /\ \A i \in 1 .. n :
       F[1 .. i] = IF keep[i] THEN Append(F[1 .. i - 1], val[i]) ELSE F[1 .. i - 1]

\* What such a fold gathers: the values of the indices it keeps, and no others.
LEMMA Collected ==
  ASSUME NEW n \in Nat, NEW S, NEW keep, NEW val, NEW F, Collects(F, n, S, keep, val)
  PROVE  /\ F[1 .. n] \in Seq(S)
         /\ ToSet(F[1 .. n]) = {val[i] : i \in {j \in 1 .. n : keep[j]}}
<1> DEFINE Is(k) == /\ F[1 .. k] \in Seq(S)
                    /\ ToSet(F[1 .. k]) = {val[i] : i \in {j \in 1 .. k : keep[j]}}
           T == {k \in 0 .. n : Is(k)}
<1> USE DEF Collects
<1>1. 0 \in T
  <2>1. 1 .. 0 = {}
    OBVIOUS
  <2>2. Is(0)
    <3>1. F[1 .. 0] = <<>> /\ ToSet(<<>>) = {} /\ <<>> \in Seq(S)
      BY <2>1 DEF ToSet
    <3>2. {val[i] : i \in {j \in 1 .. 0 : keep[j]}} = {}
      OBVIOUS
    <3> QED BY <3>1, <3>2
  <2> HIDE DEF Is
  <2> QED BY <2>2
<1>2. ASSUME NEW k \in 0 .. n - 1, k \in T PROVE k + 1 \in T
  <2>1. Is(k) /\ k + 1 \in 1 .. n /\ (k + 1) - 1 = k
    BY <1>2
  <2>2. CASE keep[k + 1]
    <3>1. F[1 .. k + 1] = Append(F[1 .. k], val[k + 1])
      BY <2>1, <2>2
    <3>2. val[k + 1] \in S
      BY <2>1, <2>2
    <3>3. F[1 .. k] \in Seq(S)
      BY <2>1
    <3>4. /\ F[1 .. k + 1] \in Seq(S)
          /\ ToSet(F[1 .. k + 1]) = ToSet(F[1 .. k]) \cup {val[k + 1]}
      BY <3>1, <3>2, <3>3, AppendSet
    <3>5. {j \in 1 .. k + 1 : keep[j]} = {j \in 1 .. k : keep[j]} \cup {k + 1}
      BY <2>1, <2>2
    <3>7. Is(k + 1)
      BY <3>1, <3>4, <3>5, <2>1
    <3> HIDE DEF Is
    <3> QED BY <3>7
  <2>3. CASE ~ keep[k + 1]
    <3>1. F[1 .. k + 1] = F[1 .. k]
      BY <2>1, <2>3
    <3>2. {j \in 1 .. k + 1 : keep[j]} = {j \in 1 .. k : keep[j]}
      BY <2>1, <2>3
    <3>3. Is(k + 1)
      BY <3>1, <3>2, <2>1
    <3> HIDE DEF Is
    <3> QED BY <3>3
  <2> QED BY <2>2, <2>3
<1>3. n \in T
  <2>1. 0 .. n \subseteq T
    <3> HIDE DEF T
    <3> QED BY <1>1, <1>2, Upwards
  <2>2. n \in 0 .. n
    OBVIOUS
  <2> HIDE DEF T
  <2> QED BY <2>1, <2>2
<1> HIDE DEF Collects
<1> QED BY <1>3

\* The neighbours of a cell are the cells at its offsets that lie in the grid.
CellAt(c, o) == (YOf(c) + o[2]) * Width + XOf(c) + o[1]
InReach(c, o) == InGrid(XOf(c) + o[1], YOf(c) + o[2])

\* The offsets lead to what is at most one step away, and with each one back.
LEMMA OffsetsAre ==
  /\ Offsets \in Seq(Int \X Int)
  /\ \A i \in DOMAIN Offsets :
       /\ Offsets[i] # <<0, 0>>
       /\ Offsets[i][1] \in -1 .. 1 /\ Offsets[i][2] \in -1 .. 1
       /\ \E j \in DOMAIN Offsets : /\ Offsets[j][1] = -Offsets[i][1]
                                  /\ Offsets[j][2] = -Offsets[i][2]
<1>1. CASE Diagonals
  <2>1. Offsets = << <<-1, 0>>, <<-1, -1>>, <<0, -1>>, <<1, -1>>,
                     <<1, 0>>, <<1, 1>>, <<0, 1>>, <<-1, 1>> >>
    BY <1>1 DEF Offsets
  <2>2. DOMAIN Offsets = 1 .. 8
    BY <2>1
  <2>3. Offsets \in Seq(Int \X Int)
    BY <2>1
  <2> QED BY <2>1, <2>2, <2>3
<1>2. CASE ~ Diagonals
  <2>1. Offsets = << <<-1, 0>>, <<0, -1>>, <<1, 0>>, <<0, 1>> >>
    BY <1>2 DEF Offsets
  <2>2. DOMAIN Offsets = 1 .. 4
    BY <2>1
  <2>3. Offsets \in Seq(Int \X Int)
    BY <2>1
  <2> QED BY <2>1, <2>2, <2>3
<1> QED BY <1>1, <1>2

\* The neighbours of a cell are the cells at its offsets within the raster.
LEMMA NeighboursAre ==
  ASSUME NEW c \in Cells
  PROVE  /\ Neighbours[c] \in Seq(Cells)
         /\ Around(c) = {CellAt(c, Offsets[i]) : i \in {j \in DOMAIN Offsets : InReach(c, Offsets[j])}}
<1> DEFINE k == Len(Offsets)
           keep == [i \in 1 .. k |-> InReach(c, Offsets[i])]
           val == [i \in 1 .. k |-> CellAt(c, Offsets[i])]
           Op == [a \in (1 .. k) \X Seq(Cells) |->
                    IF keep[a[1]] THEN Append(a[2], val[a[1]]) ELSE a[2]]
           Is(f) == f = [s \in SUBSET DOMAIN Offsets |->
                           IF s = {} THEN <<>>
                           ELSE LET x == Max(s)
                                IN  IF InReach(c, Offsets[x])
                                    THEN Append(f[s \ {x}], CellAt(c, Offsets[x]))
                                    ELSE f[s \ {x}]]
           it == CHOOSE f : Is(f)
<1>1. k \in Nat /\ DOMAIN Offsets = 1 .. k
  BY OffsetsAre
<1>2. keep \in [1 .. k -> BOOLEAN]
  BY DEF InReach, InGrid
<1>3. \A i \in 1 .. k : keep[i] => val[i] \in Cells
  <2> SUFFICES ASSUME NEW i \in 1 .. k, InReach(c, Offsets[i]) PROVE CellAt(c, Offsets[i]) \in Cells
    OBVIOUS
  <2>1. Offsets[i] \in Int \X Int
    BY <1>1, OffsetsAre
  <2>2. XOf(c) \in Int /\ YOf(c) \in Int /\ Width \in Int
    BY RowAndColumn, GridAssumption
  <2> DEFINE x == XOf(c) + Offsets[i][1]
             y == YOf(c) + Offsets[i][2]
  <2>3. x \in 0 .. Width - 1 /\ y \in 0 .. Height - 1
    BY DEF InReach, InGrid
  <2>4. y * Width + x \in Cells
    BY <2>3, RowAndColumn
  <2>5. CellAt(c, Offsets[i]) = y * Width + x
    BY <2>1, <2>2 DEF CellAt
  <2> QED BY <2>4, <2>5
<1>4. Op \in [(1 .. k) \X Seq(Cells) -> Seq(Cells)]
  <2>1. ASSUME NEW a \in (1 .. k) \X Seq(Cells)
        PROVE  (IF keep[a[1]] THEN Append(a[2], val[a[1]]) ELSE a[2]) \in Seq(Cells)
    <3>1. a[1] \in 1 .. k /\ a[2] \in Seq(Cells)
      OBVIOUS
    <3> HIDE DEF keep, val
    <3> QED BY <3>1, <1>3
  <2> QED BY <2>1
<1>5. PICK F : IsFold(F, k, Seq(Cells), <<>>, Op)
  <2>1. <<>> \in Seq(Cells)
    OBVIOUS
  <2> HIDE DEF Op, k
  <2> QED BY <1>1, <1>4, <2>1, FoldExists
<1>6. Is(F)
  <2> USE DEF IsFold
  <2>1. ASSUME NEW S \in SUBSET (1 .. k), S # {}
        PROVE  F[S] = IF InReach(c, Offsets[Max(S)])
                      THEN Append(F[S \ {Max(S)}], CellAt(c, Offsets[Max(S)]))
                      ELSE F[S \ {Max(S)}]
    <3>1. Max(S) \in S
      <4>1. S \subseteq 0 .. k
        OBVIOUS
      <4> HIDE DEF k
      <4> QED BY <1>1, <2>1, <4>1, MaxOfBounded
    <3>2. F[S \ {Max(S)}] \in Seq(Cells)
      BY <1>5
    <3>3. F[S] = Op[<<Max(S), F[S \ {Max(S)}]>>]
      BY <1>5, <2>1
    <3> QED BY <3>1, <3>2, <3>3
  <2>2. F = [S \in SUBSET (1 .. k) |-> F[S]]
    BY <1>5
  <2> QED BY <2>1, <2>2, <1>1, <1>5
<1>7. Is(it)
  <2> HIDE DEF Is
  <2> QED BY <1>6
<1>8. it[{}] = <<>>
  BY <1>7
<1>9. ASSUME NEW i \in 1 .. k
      PROVE  it[1 .. i] = IF keep[i] THEN Append(it[1 .. i - 1], val[i]) ELSE it[1 .. i - 1]
  <2>1. 1 .. i # {} /\ Max(1 .. i) = i /\ (1 .. i) \ {i} = 1 .. i - 1
    BY Prefix
  <2>2. 1 .. i \in SUBSET DOMAIN Offsets
    BY <1>1
  <2>3. it[1 .. i] = IF InReach(c, Offsets[i])
                     THEN Append(it[(1 .. i) \ {i}], CellAt(c, Offsets[i]))
                     ELSE it[(1 .. i) \ {i}]
    <3> HIDE DEF it, k, keep, val
    <3> QED BY <1>7, <2>1, <2>2
  <2> HIDE DEF it, k
  <2> QED BY <2>1, <2>3
<1>10. Neighbours[c] = it[1 .. k]
  BY <1>1 DEF Neighbours, FoldLeft, MapThenFoldSet, InReach, CellAt
<1>11. /\ it[1 .. k] \in Seq(Cells)
       /\ ToSet(it[1 .. k]) = {val[i] : i \in {j \in 1 .. k : keep[j]}}
  <2> HIDE DEF it, keep, val, k
  <2>1. Collects(it, k, Cells, keep, val)
    BY <1>3, <1>8, <1>9 DEF Collects
  <2> QED BY <1>1, <2>1, Collected
<1>12. {val[i] : i \in {j \in 1 .. k : keep[j]}}
         = {CellAt(c, Offsets[i]) : i \in {j \in DOMAIN Offsets : InReach(c, Offsets[j])}}
  BY <1>1
<1> QED
  <2> HIDE DEF it, keep, val, k
  <2> QED BY <1>10, <1>11, <1>12 DEF Around

-----------------------------------------------------------------------------
\* A cell and its neighbours see each other, from at most a column away.
LEMMA AroundIsMutual ==
  ASSUME NEW c \in Cells
  PROVE  /\ Around(c) \subseteq Cells
         /\ c \notin Around(c)
         /\ \A n \in Around(c) : c \in Around(n) /\ XOf(c) - 1 <= XOf(n) /\ XOf(n) <= XOf(c) + 1
<1>1. Width \in Nat \ {0} /\ Height \in Nat \ {0}
  BY GridAssumption
<1>2. ASSUME NEW n \in Around(c) 
      PROVE n \in Cells /\ n # c /\ c \in Around(n) /\ XOf(c) - 1 <= XOf(n) /\ XOf(n) <= XOf(c) + 1
  <2>1. PICK i \in DOMAIN Offsets : InReach(c, Offsets[i]) /\ n = CellAt(c, Offsets[i])
    BY <1>2, NeighboursAre
  <2> DEFINE a == Offsets[i][1]
             b == Offsets[i][2]
             x == XOf(c)
             y == YOf(c)
  <2>2. Offsets[i] = <<a, b>> /\ a \in -1 .. 1 /\ b \in -1 .. 1 /\ ~ (a = 0 /\ b = 0)
    <3>1. Offsets[i] \in Int \X Int
      BY OffsetsAre
    <3> QED BY <3>1, OffsetsAre
  <2>3. x \in 0 .. Width - 1 /\ y \in 0 .. Height - 1
    BY RowAndColumn
  <2>4. x + a \in 0 .. Width - 1 /\ y + b \in 0 .. Height - 1
    BY <2>1 DEF InReach, InGrid
  <2>5. n = (y + b) * Width + (x + a)
    <3>1. n = (y + b) * Width + x + a
      BY <2>1 DEF CellAt
    <3>2. (y + b) * Width \in Int /\ x \in Int /\ a \in Int
      BY <1>1, <2>2, <2>3
    <3> DEFINE p == (y + b) * Width
    <3> HIDE DEF p, x, a
    <3> QED BY <3>1, <3>2 DEF p
  <2>6. n \in Cells /\ XOf(n) = x + a /\ YOf(n) = y + b
    BY <2>4, <2>5, RowAndColumn
  <2>7. n # c
    BY <2>2, <2>3, <2>6
  <2>8. PICK j \in DOMAIN Offsets : Offsets[j][1] = -a /\ Offsets[j][2] = -b
    BY OffsetsAre
  <2>9. InReach(n, Offsets[j])
    <3>1. XOf(n) + Offsets[j][1] = x /\ YOf(n) + Offsets[j][2] = y
      <4> HIDE DEF a, b, x, y
      <4> QED BY <2>2, <2>3, <2>6, <2>8
    <3> QED BY <3>1, <2>3 DEF InReach, InGrid
  <2>10. CellAt(n, Offsets[j]) = c
    <3>1. (YOf(n) + Offsets[j][2]) = y
      <4> HIDE DEF a, b, x, y
      <4> QED BY <2>2, <2>3, <2>6, <2>8
    <3>2. y * Width \in Int
      BY <1>1, <2>3
    <3> DEFINE p == y * Width
    <3>3. CellAt(n, Offsets[j]) = p + XOf(n) + Offsets[j][1]
      BY <3>1 DEF CellAt
    <3>4. p + XOf(n) + Offsets[j][1] = p + x
      <4> HIDE DEF p, a, b, x, y
      <4> QED BY <2>2, <2>3, <2>6, <2>8, <3>2 DEF p
    <3>5. c = p + x
      BY RowAndColumn
    <3> QED BY <3>3, <3>4, <3>5
  <2>11. XOf(c) - 1 <= XOf(n) /\ XOf(n) <= XOf(c) + 1
    <3> HIDE DEF a, b, x, y
    <3>1. x - 1 <= x + a /\ x + a <= x + 1
      BY <2>2, <2>3
    <3> QED BY <2>6, <3>1 DEF x
  <2> QED BY <2>6, <2>7, <2>8, <2>9, <2>10, <2>11, NeighboursAre
<1> QED BY <1>2

\* The raster has cells, finitely many.
LEMMA CellIs ==
  /\ Width \in Nat \ {0} /\ Height \in Nat \ {0} /\ IsFiniteSet(Cells)
  /\ \A c \in Cells : XOf(c) \in 0 .. Width - 1
BY GridAssumption, CellCount, RowAndColumn

-----------------------------------------------------------------------------
\* The tiles follow one another from the first column to the last.
LEMMA BoundsAre ==
  /\ ntiles \in Nat \ {0} /\ X0(0) = 0 /\ X1(ntiles - 1) = Width
  /\ \A r \in Ranks : r \in Nat /\ X0(r) \in Nat /\ X1(r) \in Nat /\ X0(r) < X1(r)
  /\ \A r \in Ranks : r + 1 \in Ranks => X0(r + 1) = X1(r)
<1>1. Bounds \in Seq(Nat) /\ Len(Bounds) \in Nat /\ Len(Bounds) >= 2
  BY BoundsAssumption
<1>2. Bounds[Len(Bounds)] = Width
  BY BoundsAssumption DEF Last
<1>3. \A i \in 1 .. Len(Bounds) : Bounds[i] \in Nat
  BY <1>1
<1>4. \A r \in Ranks : r \in Nat /\ r + 1 \in 1 .. Len(Bounds) - 1 /\ r + 2 \in 1 .. Len(Bounds)
                       /\ r + 1 \in 1 .. Len(Bounds)
  BY <1>1 DEF Ranks, ntiles
<1>5. ASSUME NEW r \in Ranks
      PROVE  r \in Nat /\ X0(r) \in Nat /\ X1(r) \in Nat /\ X0(r) < X1(r)
  <2>1. (r + 1) + 1 = r + 2
    BY <1>4
  <2>2. Bounds[r + 1] < Bounds[(r + 1) + 1]
    BY <1>4, BoundsAssumption
  <2> QED BY <1>3, <1>4, <2>1, <2>2 DEF X0, X1
<1>6. ASSUME NEW r \in Ranks, r + 1 \in Ranks PROVE X0(r + 1) = X1(r)
  <2>1. (r + 1) + 1 = r + 2
    BY <1>4
  <2> QED BY <2>1 DEF X0, X1
<1>7. X0(0) = 0
  BY BoundsAssumption DEF X0
<1>8. X1(ntiles - 1) = Width
  <2>1. (ntiles - 1) + 2 = Len(Bounds)
    BY <1>1 DEF ntiles
  <2> QED BY <1>2, <2>1 DEF X1
<1>9. ntiles \in Nat \ {0}
  <2>1. PICK n : n = Len(Bounds)
    OBVIOUS
  <2>2. n - 1 \in Nat \ {0}
    BY <1>1, <2>1
  <2> QED BY <2>1, <2>2, Zenon DEF ntiles
<1> QED BY <1>5, <1>6, <1>7, <1>8, <1>9

\* A tile further on begins where an earlier one has ended.
LEMMA TilesAscend ==
  ASSUME NEW r \in Ranks, NEW s \in Ranks, r < s
  PROVE  X1(r) <= X0(s) /\ X1(r) < X1(s) /\ X0(r) < X0(s)
<1> DEFINE T == {i \in 0 .. s - r - 1 : X1(r) <= X0(r + 1 + i)}
<1>1. r \in Nat /\ s \in Nat /\ s - r - 1 \in Nat /\ ntiles \in Nat
  BY BoundsAre
<1>2. 0 \in T
  <2>1. r + 1 \in Ranks /\ r + 1 + 0 = r + 1
    BY <1>1 DEF Ranks
  <2>2. X0(r + 1) = X1(r) /\ X1(r) \in Nat
    BY <2>1, BoundsAre
  <2> QED BY <1>1, <2>1, <2>2
<1>3. ASSUME NEW i \in 0 .. s - r - 1 - 1, i \in T PROVE i + 1 \in T
  <2> DEFINE t == r + 1 + i
  <2>1. t \in Ranks /\ t + 1 \in Ranks /\ t + 1 = r + 1 + (i + 1) /\ i + 1 \in 0 .. s - r - 1
    BY <1>1 DEF Ranks
  <2>2. X1(r) <= X0(t)
    BY <1>3
  <2> HIDE DEF t
  <2>3. X0(t + 1) = X1(t) /\ X0(t) < X1(t) /\ X0(t) \in Nat /\ X1(t) \in Nat /\ X1(r) \in Nat
    BY <2>1, BoundsAre
  <2>4. X1(r) <= X0(t + 1)
    BY <2>2, <2>3
  <2> QED BY <2>1, <2>4
<1>4. s - r - 1 \in T
  <2> HIDE DEF T
  <2>1. 0 .. s - r - 1 \subseteq T
    BY <1>1, <1>2, <1>3, Upwards
  <2> QED BY <1>1, <2>1
<1>5. r + 1 + (s - r - 1) = s
  BY <1>1
<1>6. X1(r) <= X0(s)
  BY <1>4, <1>5
<1>7. /\ X0(r) \in Nat /\ X1(r) \in Nat /\ X0(s) \in Nat /\ X1(s) \in Nat
      /\ X0(r) < X1(r) /\ X0(s) < X1(s)
  BY BoundsAre
<1> QED BY <1>6, <1>7

\* All tiles lie in the raster.
LEMMA TileWithin ==
  ASSUME NEW r \in Ranks
  PROVE  /\ X1(r) <= Width
         /\ r < ntiles - 1 => X1(r) < Width
         /\ r > 0 => X0(r) > 0
<1>1. ntiles \in Nat \ {0} /\ r \in Nat /\ 0 \in Ranks /\ ntiles - 1 \in Ranks /\ Width \in Nat
  BY BoundsAre, CellIs DEF Ranks
<1>2. X0(0) = 0 /\ X1(ntiles - 1) = Width /\ X1(r) \in Nat /\ X0(r) \in Nat
  BY BoundsAre
<1>3. r = ntiles - 1 \/ r < ntiles - 1
  BY <1>1 DEF Ranks
<1>4. r < ntiles - 1 => X1(r) < Width
  BY <1>1, <1>2, TilesAscend
<1>5. r > 0 => X0(r) > 0
  BY <1>1, <1>2, TilesAscend
<1> QED BY <1>1, <1>2, <1>3, <1>4, <1>5

\* Every cell lies in one tile.
LEMMA TileIs ==
  /\ \A c \in Cells : TileOf(c) \in Ranks /\ c \in Owned(TileOf(c))
  /\ \A r \in Ranks : \A c \in Owned(r) : c \in Cells /\ TileOf(c) = r
<1>1. ASSUME NEW c \in Cells PROVE TileOf(c) \in Ranks /\ XOf(c) \in X0(TileOf(c)) .. X1(TileOf(c)) - 1
  <2> DEFINE x == XOf(c)
             S == {r \in Ranks : X0(r) <= x}
  <2>1. x \in Nat /\ x < Width /\ Width \in Nat /\ ntiles \in Nat \ {0}
    BY CellIs, BoundsAre
  <2>2. S \subseteq 0 .. ntiles - 1 /\ S # {}
    <3>1. 0 \in Ranks /\ X0(0) = 0
      BY <2>1, BoundsAre DEF Ranks
    <3> QED BY <2>1, <3>1 DEF Ranks
  <2>3. PICK r \in S : \A s \in S : s <= r
    <3>1. ntiles - 1 \in Nat
      BY <2>1
    <3> HIDE DEF S
    <3> QED BY <2>2, <3>1, Greatest
  <2>4. r \in Nat /\ X0(r) \in Nat /\ X1(r) \in Nat
    BY <2>3, BoundsAre
  <2>5. x < X1(r)
    <3>1. CASE r = ntiles - 1
      BY <2>1, <3>1, BoundsAre
    <3>2. CASE r # ntiles - 1
      <4>1. r + 1 \in Ranks
        BY <2>1, <2>3, <2>4, <3>2 DEF Ranks
      <4>2. r + 1 \notin S
        BY <2>3, <2>4
      <4>3. ~ (X0(r + 1) <= x) /\ X0(r + 1) = X1(r)
        BY <4>1, <4>2, BoundsAre
      <4> QED BY <2>1, <2>4, <4>3
    <3> QED BY <3>1, <3>2
  <2>6. r \in Ranks /\ x \in X0(r) .. X1(r) - 1
    BY <2>1, <2>3, <2>4, <2>5
  <2> QED BY <2>6 DEF TileOf
<1>2. ASSUME NEW r \in Ranks, NEW c \in Owned(r) PROVE c \in Cells /\ TileOf(c) = r
  <2>1. c \in Cells /\ XOf(c) \in X0(r) .. X1(r) - 1
    BY DEF Owned, Between
  <2> DEFINE t == TileOf(c)
  <2>2. t \in Ranks /\ XOf(c) \in X0(t) .. X1(t) - 1
    BY <1>1, <2>1
  <2> HIDE DEF t
  <2>3. /\ r \in Nat /\ t \in Nat /\ XOf(c) \in Nat
        /\ X0(r) \in Nat /\ X1(r) \in Nat /\ X0(t) \in Nat /\ X1(t) \in Nat
    BY <2>1, <2>2, BoundsAre, CellIs
  <2>4. ~ (r < t)
    <3> SUFFICES ASSUME r < t PROVE FALSE
      OBVIOUS
    <3>1. X1(r) <= X0(t)
      BY <2>2, TilesAscend
    <3> QED BY <2>1, <2>2, <2>3, <3>1
  <2>5. ~ (t < r)
    <3> SUFFICES ASSUME t < r PROVE FALSE
      OBVIOUS
    <3>1. X1(t) <= X0(r)
      BY <2>2, TilesAscend
    <3> QED BY <2>1, <2>2, <2>3, <3>1
  <2> QED BY <2>1, <2>3, <2>4, <2>5 DEF t
<1>3. \A c \in Cells : c \in Owned(TileOf(c))
  BY <1>1 DEF Owned, Between
<1> QED BY <1>1, <1>2, <1>3

\* A tile has cells, and finitely many.
LEMMA OwnedIs ==
  ASSUME NEW r \in Ranks
  PROVE  /\ Owned(r) \subseteq Cells /\ Owned(r) # {} /\ IsFiniteSet(Owned(r))
         /\ \A x \in X0(r) .. X1(r) - 1 : \E c \in Owned(r) : XOf(c) = x
<1>1. /\ X0(r) \in Nat /\ X1(r) \in Nat /\ X0(r) < X1(r) /\ X1(r) <= Width
      /\ Width \in Nat \ {0} /\ Height \in Nat \ {0}
  BY BoundsAre, TileWithin, CellIs
<1>2. ASSUME NEW x \in X0(r) .. X1(r) - 1 PROVE \E c \in Owned(r) : XOf(c) = x
  <2>1. x \in 0 .. Width - 1 /\ 0 \in 0 .. Height - 1 /\ 0 * Width + x = x
    BY <1>1
  <2>2. x \in Cells /\ XOf(x) = x
    BY <2>1, RowAndColumn
  <2>3. x \in Owned(r)
    BY <2>2 DEF Owned, Between
  <2> QED BY <2>2, <2>3
<1>3. Owned(r) # {}
  <2>1. X0(r) \in X0(r) .. X1(r) - 1
    BY <1>1
  <2> QED BY <1>2, <2>1
<1>4. Owned(r) \subseteq Cells
  BY DEF Owned, Between
<1> QED BY <1>2, <1>3, <1>4, CellIs, FS_Subset

-----------------------------------------------------------------------------
(***************************************************************************)
(* The flood of a tile: what it returns fits the window it was given.      *)
(***************************************************************************)
-----------------------------------------------------------------------------
(***************************************************************************)
(* The flood of a window, as far as its types: who is queued, which labels *)
(* there are, and how many.                                                *)
(***************************************************************************)
\* The queues over a window.
Waits(W) ==
  [last : Int, front : Seq(W), rest : UNION {[D -> Nat \ {0}] : D \in SUBSET (Nat \X W)}]

\* The parts of such a queue, and a queue of such parts.
LEMMA WaitsParts ==
  ASSUME NEW W, NEW q \in Waits(W)
  PROVE  /\ q = [last |-> q.last, front |-> q.front, rest |-> q.rest]
         /\ q.last \in Int /\ q.front \in Seq(W)
         /\ DOMAIN q.rest \subseteq Nat \X W
         /\ q.rest \in [DOMAIN q.rest -> Nat \ {0}]
<1>1. /\ q = [last |-> q.last, front |-> q.front, rest |-> q.rest]
      /\ q.last \in Int /\ q.front \in Seq(W)
  BY DEF Waits
<1>2. PICK D \in SUBSET (Nat \X W) : q.rest \in [D -> Nat \ {0}]
  BY DEF Waits
<1> QED BY <1>1, <1>2

\* The queue made of its three parts.
LEMMA WaitsMade ==
  ASSUME NEW W, NEW l \in Int, NEW f \in Seq(W), NEW r,
         DOMAIN r \subseteq Nat \X W, r \in [DOMAIN r -> Nat \ {0}]
  PROVE  [last |-> l, front |-> f, rest |-> r] \in Waits(W)
<1>1. r \in UNION {[D -> Nat \ {0}] : D \in SUBSET (Nat \X W)}
  OBVIOUS
<1> QED BY <1>1 DEF Waits

\* A cell of the window pushed.
LEMMA PushWaits ==
  ASSUME NEW W, NEW q \in Waits(W), NEW k \in Nat, NEW v \in W
  PROVE  Push(q, k, v) \in Waits(W)
<1>1. /\ q = [last |-> q.last, front |-> q.front, rest |-> q.rest]
      /\ q.last \in Int /\ q.front \in Seq(W)
      /\ DOMAIN q.rest \subseteq Nat \X W
      /\ q.rest \in [DOMAIN q.rest -> Nat \ {0}]
  BY WaitsParts
<1>2. CASE k = q.last
  <2> DEFINE f == Append(q.front, v)
             r == q.rest
  <2>1. Push(q, k, v) = [last |-> q.last, front |-> f, rest |-> r]
    BY <1>1, <1>2 DEF Push
  <2>2. f \in Seq(W)
    BY <1>1
  <2>3. DOMAIN r \subseteq Nat \X W /\ r \in [DOMAIN r -> Nat \ {0}]
    BY <1>1
  <2> HIDE DEF f, r
  <2> QED BY <1>1, <2>1, <2>2, <2>3, WaitsMade
<1>3. CASE k # q.last
  <2> DEFINE r == q.rest (+) SetToBag({<<k, v>>})
             f == q.front
  <2>1. Push(q, k, v) = [last |-> q.last, front |-> f, rest |-> r]
    BY <1>1, <1>3 DEF Push
  <2>2. DOMAIN r = DOMAIN q.rest \cup {<<k, v>>}
    BY DEF (+), SetToBag
  <2>3. r \in [DOMAIN r -> Nat \ {0}]
    BY <1>1 DEF (+), SetToBag
  <2>4. DOMAIN r \subseteq Nat \X W
    BY <1>1, <2>2
  <2>5. f \in Seq(W)
    BY <1>1
  <2> HIDE DEF r, f
  <2> QED BY <1>1, <2>1, <2>3, <2>4, <2>5, WaitsMade
<1> QED BY <1>2, <1>3

\* The queues between one push and the next.
PushRun(h, q, W, K, s, T) ==
  /\ h[0] = q /\ h[Len(s)] = PushAll(q, K, s, T) /\ h[Len(s)] \in Waits(W)
  /\ \A i \in 1 .. Len(s) :
       /\ h[i - 1] \in Waits(W)
       /\ h[i] = IF s[i] \in T THEN Push(h[i - 1], K[s[i]], s[i]) ELSE h[i - 1]

\* PushAll pushes one after the other those of the sequence that are in T.
LEMMA PushAllRun ==
  ASSUME NEW W, NEW K, \A c \in W : K[c] \in Nat, NEW q \in Waits(W),
         NEW S, NEW s \in Seq(S), NEW T, T \subseteq W
  PROVE  \E h : PushRun(h, q, W, K, s, T)
<1> DEFINE k == Len(s)
           V == Waits(W)
           Op == [a \in (1 .. k) \X V |->
                    IF s[a[1]] \in T THEN Push(a[2], K[s[a[1]]], s[a[1]]) ELSE a[2]]
           Is(f) == f = [R \in SUBSET DOMAIN s |->
                           IF R = {} THEN q
                           ELSE LET x == Max(R)
                                IN  IF s[x] \in T
                                    THEN Push(f[R \ {x}], K[s[x]], s[x])
                                    ELSE f[R \ {x}]]
           it == CHOOSE f : Is(f)
           U == {i \in 0 .. k : it[1 .. i] \in V}
<1>1. k \in Nat /\ DOMAIN s = 1 .. k
  OBVIOUS
<1>2. Op \in [(1 .. k) \X V -> V]
  <2>1. ASSUME NEW a \in (1 .. k) \X V
        PROVE  (IF s[a[1]] \in T THEN Push(a[2], K[s[a[1]]], s[a[1]]) ELSE a[2]) \in V
    <3>1. CASE s[a[1]] \in T
      <4>1. s[a[1]] \in W /\ K[s[a[1]]] \in Nat /\ a[2] \in Waits(W)
        BY <3>1
      <4> QED BY <3>1, <4>1, PushWaits
    <3> QED BY <3>1
  <2> HIDE DEF V
  <2> QED BY <2>1
<1>3. PICK F : IsFold(F, k, V, q, Op)
  <2> HIDE DEF Op, V, k
  <2>1. q \in V
    BY DEF V
  <2> QED BY <1>1, <1>2, <2>1, FoldExists
<1>4. Is(F)
  <2>1. ASSUME NEW R \in SUBSET (1 .. k), R # {}
        PROVE  F[R] = IF s[Max(R)] \in T
                      THEN Push(F[R \ {Max(R)}], K[s[Max(R)]], s[Max(R)])
                      ELSE F[R \ {Max(R)}]
    <3>1. Max(R) \in R
      <4>1. R \subseteq 0 .. k
        OBVIOUS
      <4> HIDE DEF k
      <4> QED BY <1>1, <2>1, <4>1, MaxOfBounded
    <3>2. F[R \ {Max(R)}] \in V
      BY <1>3 DEF IsFold
    <3>3. F[R] = Op[<<Max(R), F[R \ {Max(R)}]>>]
      BY <1>3, <2>1 DEF IsFold
    <3> HIDE DEF V
    <3> QED BY <3>1, <3>2, <3>3
  <2>2. F = [R \in SUBSET (1 .. k) |-> F[R]]
    BY <1>3 DEF IsFold
  <2>3. F[{}] = q
    BY <1>3 DEF IsFold
  <2> HIDE DEF V, Op
  <2> QED BY <2>1, <2>2, <2>3, <1>1
<1>5. Is(it)
  <2> HIDE DEF Is
  <2> QED BY <1>4
<1>6. 0 \in U
  <2>1. 1 .. 0 = {}
    OBVIOUS
  <2>2. it[{}] = q
    BY <1>5
  <2>3. it[1 .. 0] \in V
    <3> HIDE DEF it
    <3> QED BY <2>1, <2>2
  <2> HIDE DEF it, V, k
  <2> QED BY <1>1, <2>3
<1>7. ASSUME NEW i \in 0 .. k - 1, i \in U PROVE i + 1 \in U
  <2>1. i + 1 \in 1 .. k /\ i + 1 \in Nat \ {0} /\ (i + 1) - 1 = i /\ i + 1 \in 0 .. k
    BY <1>1
  <2>2. 1 .. i + 1 # {} /\ Max(1 .. i + 1) = i + 1 /\ (1 .. i + 1) \ {i + 1} = 1 .. i
    BY <2>1, Prefix
  <2>3. 1 .. i + 1 \in SUBSET DOMAIN s
    BY <1>1, <2>1
  <2>4. it[1 .. i + 1] = IF s[i + 1] \in T THEN Push(it[1 .. i], K[s[i + 1]], s[i + 1])
                         ELSE it[1 .. i]
    <3> HIDE DEF it, k
    <3> QED BY <1>5, <2>2, <2>3
  <2>5. it[1 .. i] \in Waits(W)
    BY <1>7
  <2>6. it[1 .. i + 1] \in Waits(W)
    <3> HIDE DEF it, k
    <3>1. CASE s[i + 1] \in T
      <4>1. s[i + 1] \in W /\ K[s[i + 1]] \in Nat
        BY <3>1
      <4> QED BY <2>4, <2>5, <3>1, <4>1, PushWaits
    <3> QED BY <2>4, <2>5, <3>1
  <2> QED BY <2>1, <2>6
<1>9. PushAll(q, K, s, T) = it[1 .. k]
  BY <1>1 DEF PushAll, FoldLeft, MapThenFoldSet
<1>10. ASSUME NEW i \in 1 .. k
       PROVE  it[1 .. i] = IF s[i] \in T THEN Push(it[1 .. i - 1], K[s[i]], s[i]) ELSE it[1 .. i - 1]
  <2>1. 1 .. i # {} /\ Max(1 .. i) = i /\ (1 .. i) \ {i} = 1 .. i - 1
    <3>1. i \in Nat \ {0}
      BY <1>1
    <3> QED BY <3>1, Prefix
  <2>2. 1 .. i \in SUBSET DOMAIN s
    BY <1>1
  <2> HIDE DEF it, k
  <2> QED BY <1>5, <2>1, <2>2
<1>11. \A i \in 0 .. k : it[1 .. i] \in Waits(W)
  <2> HIDE DEF k, it
  <2>1. 0 .. k \subseteq U
    <3> HIDE DEF U
    <3> QED BY <1>1, <1>6, <1>7, Upwards
  <2> QED BY <2>1
<1>12. it[1 .. 0] = q
  <2>1. 1 .. 0 = {}
    OBVIOUS
  <2>2. it[{}] = q
    BY <1>5
  <2> HIDE DEF it
  <2> QED BY <2>1, <2>2
<1> HIDE DEF it, k
<1> DEFINE h == [i \in 0 .. k |-> it[1 .. i]]
<1>13. h[0] = q /\ h[k] = PushAll(q, K, s, T) /\ h[k] \in Waits(W)
  BY <1>1, <1>9, <1>11, <1>12
<1>14. \A i \in 1 .. k : h[i - 1] \in Waits(W) /\ h[i] = IF s[i] \in T THEN Push(h[i - 1], K[s[i]], s[i]) ELSE h[i - 1]
  BY <1>1, <1>10, <1>11
<1> HIDE DEF h
<1>15. PushRun(h, q, W, K, s, T)
  BY <1>13, <1>14 DEF PushRun, k
<1> QED BY <1>15

\* Pushing cells of the window keeps the queue one over the window.
LEMMA PushAllWaits ==
  ASSUME NEW W, NEW K, \A c \in W : K[c] \in Nat, NEW q \in Waits(W),
         NEW S, NEW s \in Seq(S), NEW T, T \subseteq W
  PROVE  PushAll(q, K, s, T) \in Waits(W)
<1>1. PICK h : PushRun(h, q, W, K, s, T)
  BY PushAllRun
<1> QED BY <1>1 DEF PushRun

\* The copies in a bag over a finite set are finitely many.
LEMMA FiniteCopies ==
  ASSUME NEW D, IsFiniteSet(D), NEW b \in [D -> Nat \ {0}]
  PROVE  IsFiniteSet(UNION {{v} \X (1 .. b[v]) : v \in D})
<1> DEFINE piece == [v \in D |-> {v} \X (1 .. b[v])]
           pieces == {piece[v] : v \in D}
<1>1. IsFiniteSet(pieces)
  <2>1. piece \in Surjection(D, pieces)
    BY Fun_IsSurj
  <2> HIDE DEF piece, pieces
  <2> QED BY <2>1, FS_Surjection
<1>2. \A S \in pieces : IsFiniteSet(S)
  <2> SUFFICES ASSUME NEW v \in D PROVE IsFiniteSet({v} \X (1 .. b[v]))
    OBVIOUS
  <2>1. IsFiniteSet({v})
    BY FS_Singleton
  <2>2. IsFiniteSet(1 .. b[v])
    <3>1. b[v] \in Int /\ 1 \in Int
      OBVIOUS
    <3> QED BY <3>1, FS_Interval
  <2> QED BY <2>1, <2>2, FS_Product
<1>3. UNION {{v} \X (1 .. b[v]) : v \in D} = UNION pieces
  OBVIOUS
<1> HIDE DEF pieces
<1> QED BY <1>1, <1>2, <1>3, FS_UNION

\* The values of the smallest key in ascending order are values, and there are some.
LEMMA AscendingSeq ==
  ASSUME NEW D \in SUBSET Cells, NEW b \in [D -> Nat \ {0}], D # {}
  PROVE  Ascending(b) \in Seq(D) /\ Ascending(b) # <<>>
<1> DEFINE copies == UNION {{v} \X (1 .. b[v]) : v \in DOMAIN b}
           upTo(v) == Cardinality({e \in copies : e[1] <= v})
           n == Cardinality(copies)
           above(i) == {v \in DOMAIN b : i <= upTo(v)}
           M == Width * Height
<1>1. DOMAIN b = D /\ D \subseteq Nat /\ D \subseteq 0 .. M /\ M \in Nat /\ IsFiniteSet(D)
  <2>1. Width \in Nat \ {0} /\ Height \in Nat \ {0} /\ IsFiniteSet(Cells)
    BY CellIs
  <2>2. M \in Nat
    BY <2>1, SMTT(30)
  <2> HIDE DEF M
  <2>3. Cells = 0 .. M - 1
    BY DEF Cells, M
  <2>4. DOMAIN b = D
    OBVIOUS
  <2>5. D \subseteq 0 .. M - 1
    BY <2>3
  <2>6. D \subseteq Nat /\ D \subseteq 0 .. M
    BY <2>2, <2>5
  <2>7. IsFiniteSet(D)
    BY <2>1, FS_Subset
  <2> QED BY <2>2, <2>4, <2>6, <2>7
<1>2. IsFiniteSet(copies)
  BY <1>1, FiniteCopies
<1>3. \A e \in copies : e[1] \in D
  BY <1>1
<1>4. PICK g \in D : \A v \in D : v <= g
  <2> HIDE DEF M
  <2> QED BY <1>1, Greatest
<1>5. <<g, 1>> \in copies
  <2>1. <<g, 1>> \in {g} \X (1 .. b[g])
    OBVIOUS
  <2> QED BY <1>1, <2>1
<1>6. n \in Nat /\ n # 0
  BY <1>2, <1>5, FS_EmptySet, FS_CardinalityType
<1>7. upTo(g) = n
  <2> HIDE DEF copies, M
  <2>1. {e \in copies : e[1] <= g} = copies
    BY <1>3, <1>4
  <2> QED BY <2>1
<1> HIDE DEF copies, M
<1>8. \A i \in 1 .. n : above(i) \subseteq D /\ above(i) # {}
  <2> SUFFICES ASSUME NEW i \in 1 .. n PROVE g \in above(i)
    BY <1>1
  <2> HIDE DEF upTo, n
  <2> QED BY <1>1, <1>6, <1>7
<1>9. \A i \in 1 .. n : Min(above(i)) \in D
  <2> SUFFICES ASSUME NEW i \in 1 .. n PROVE Min(above(i)) \in D
    OBVIOUS
  <2> HIDE DEF above, n
  <2> QED BY <1>1, <1>8, MinOfNats
<1>10. Ascending(b) = [i \in 1 .. n |-> Min(above(i))]
  BY DEF Ascending, copies
<1> HIDE DEF above, n
<1>11. Ascending(b) \in Seq(D)
  BY <1>6, <1>9, <1>10
<1>12. Ascending(b) # <<>>
  <2>1. DOMAIN Ascending(b) = 1 .. n /\ 1 \in 1 .. n
    BY <1>6, <1>10
  <2>2. DOMAIN << >> = {}
    OBVIOUS
  <2> HIDE DEF n
  <2> QED BY <2>1, <2>2
<1> QED BY <1>11, <1>12

\* All cells at the smallest key, D, go to the front.
PulledTo(q, W, key, D, b) ==
  /\ D # {} /\ D = {c \in W : <<key, c>> \in DOMAIN q.rest} /\ \A e \in DOMAIN q.rest : key <= e[1]
  /\ Pulled(q) = [last |-> key, front |-> Ascending(b), rest |-> Restrict(q.rest, {e \in DOMAIN q.rest : e[1] # key})]

\* That is what is pulled.
LEMMA PulledIs ==
  ASSUME NEW W \in SUBSET Cells, NEW q \in Waits(W), q.front = <<>>, ~ IsEmpty(q)
  PROVE  \E key \in Nat, D \in SUBSET W : \E b \in [D -> Nat \ {0}] : PulledTo(q, W, key, D, b)
<1>1. /\ q = [last |-> q.last, front |-> q.front, rest |-> q.rest]
      /\ DOMAIN q.rest \subseteq Nat \X W
      /\ q.rest \in [DOMAIN q.rest -> Nat \ {0}]
  BY WaitsParts
<1> DEFINE E == DOMAIN q.rest
           keys == {e[1] : e \in E}
           key == Min(keys)
           lowest == {e \in E : e[1] = key}
           D == {e[2] : e \in lowest}
           b == [v \in D |-> q.rest[<<key, v>>]]
<1>2. E # {}
  <2> SUFFICES ASSUME E = {} PROVE FALSE
    OBVIOUS
  <2>1. q.rest = EmptyBag
    BY <1>1 DEF EmptyBag, SetToBag
  <2> QED BY <2>1 DEF IsEmpty
<1>3. key \in keys /\ \A k \in keys : key <= k
  <2>1. keys \subseteq Nat /\ keys # {}
    BY <1>1, <1>2
  <2> HIDE DEF keys
  <2> QED BY <2>1, MinOfNats
<1>4. key \in Nat /\ \A e \in E : key <= e[1]
  BY <1>1, <1>3
<1> HIDE DEF key
<1>5. D = {c \in W : <<key, c>> \in E} /\ D # {}
  <2>1. \A e \in E : e = <<e[1], e[2]>> /\ e[2] \in W
    BY <1>1
  <2> QED BY <1>3, <2>1
<1>6. b \in [D -> Nat \ {0}]
  <2>1. \A c \in D : <<key, c>> \in E
    BY <1>5
  <2> HIDE DEF D
  <2> QED BY <1>1, <2>1
<1>7. Pulled(q) = [last |-> key, front |-> Ascending(b), rest |-> Restrict(q.rest, E \ lowest)]
  BY DEF Pulled, key
<1>8. E \ lowest = {e \in E : e[1] # key}
  OBVIOUS
<1>9. D \in SUBSET W
  BY <1>5
<1>10. PulledTo(q, W, key, D, b)
  <2> HIDE DEF D, b, lowest
  <2> QED BY <1>4, <1>5, <1>7, <1>8 DEF PulledTo
<1> HIDE DEF D, b
<1> QED BY <1>4, <1>6, <1>9, <1>10

\* What a queue gives back, and what is left of it.
LEMMA PopWaits ==
  ASSUME NEW W \in SUBSET Cells, NEW q \in Waits(W), ~ IsEmpty(q)
  PROVE  TopValue(q) \in W /\ Pop(q) \in Waits(W)
<1> DEFINE p == Pulled(q)
<1>1. /\ q = [last |-> q.last, front |-> q.front, rest |-> q.rest]
      /\ q.last \in Int /\ q.front \in Seq(W)
      /\ DOMAIN q.rest \subseteq Nat \X W
      /\ q.rest \in [DOMAIN q.rest -> Nat \ {0}]
  BY WaitsParts
<1>2. p \in Waits(W) /\ p.front # <<>>
  <2>1. CASE q.front # <<>>
    BY <2>1 DEF Pulled
  <2>2. CASE q.front = <<>>
    <3>1. PICK key \in Nat, D \in SUBSET W : \E b \in [D -> Nat \ {0}] : PulledTo(q, W, key, D, b)
      BY <2>2, PulledIs
    <3>2. PICK b \in [D -> Nat \ {0}] :
            D # {} /\ p = [last |-> key, front |-> Ascending(b),
                           rest |-> Restrict(q.rest, {e \in DOMAIN q.rest : e[1] # key})]
      BY <3>1 DEF PulledTo
    <3>3. PICK f, r : f = Ascending(b) /\ r = Restrict(q.rest, {e \in DOMAIN q.rest : e[1] # key})
      OBVIOUS
    <3>4. DOMAIN r \subseteq Nat \X W /\ r \in [DOMAIN r -> Nat \ {0}]
      BY <1>1, <3>3 DEF Restrict
    <3>5. f \in Seq(W) /\ f # <<>>
      <4>1. D \in SUBSET Cells /\ D # {}
        BY <3>2
      <4>2. f \in Seq(D) /\ f # <<>>
        BY <3>3, <4>1, AscendingSeq
      <4> QED BY <4>2
    <3>6. key \in Int /\ p = [last |-> key, front |-> f, rest |-> r]
      BY <3>2, <3>3
    <3> HIDE DEF p
    <3> QED BY <3>4, <3>5, <3>6, WaitsMade
  <2> QED BY <2>1, <2>2
<1> DEFINE s == p.front
           f == Front(s)
           l == p.last
           r == p.rest
<1>3. /\ p = [last |-> l, front |-> s, rest |-> r]
      /\ l \in Int /\ s \in Seq(W) /\ s # <<>>
      /\ DOMAIN r \subseteq Nat \X W /\ r \in [DOMAIN r -> Nat \ {0}]
  <2> HIDE DEF p
  <2> QED BY <1>2, WaitsParts
<1>4. Pop(q) = [last |-> l, front |-> f, rest |-> r]
  <2> HIDE DEF s, l, r
  <2>1. Pop(q) = [p EXCEPT !.front = Front(p.front)]
    BY DEF Pop
  <2> HIDE DEF p
  <2> QED BY <1>3, <2>1 DEF s
<1>5. TopValue(q) = s[Len(s)]
  BY DEF TopValue, Last
<1> HIDE DEF s, l, r, p
<1>6. Len(s) \in Nat \ {0} /\ DOMAIN s = 1 .. Len(s)
  BY <1>3
<1>7. f \in Seq(W)
  BY <1>3, <1>6 DEF Front
<1>8. Pop(q) \in Waits(W)
  <2> HIDE DEF f
  <2> QED BY <1>3, <1>4, <1>7, WaitsMade
<1>9. TopValue(q) \in W
  BY <1>3, <1>5, <1>6
<1> QED BY <1>8, <1>9

\* The flood of a window so far: what it has labelled keeps its label, every label
\* is one that was handed in or that of a pit, and no cell is a pit twice.
Flooding(W, given) ==
  {s \in [label : [W -> Nat], flow : [W -> W \cup {NO_FLOW}], pits : Seq(W), queue : Waits(W)] :
     /\ \A c \in W : s.label[c] \in {OCEAN, BOUNDARY, NO_DEP} \cup (1 .. Len(s.pits))
     /\ \A c \in W : given[c] # NO_DEP => s.label[c] = given[c]
     /\ \A i, j \in 1 .. Len(s.pits) : s.pits[i] = s.pits[j] => i = j
     /\ \A i \in 1 .. Len(s.pits) : s.label[s.pits[i]] # NO_DEP}

\* Different cells of a window are no more than it has.
LEMMA PitsFit ==
  ASSUME NEW W \in SUBSET Cells, NEW p \in Seq(W), \A i, j \in 1 .. Len(p) : p[i] = p[j] => i = j
  PROVE  Len(p) <= Cardinality(W) /\ Cardinality(W) \in Nat /\ Cardinality(W) <= Width * Height
<1>1. IsFiniteSet(Cells) /\ Cardinality(Cells) = Width * Height
  BY CellCount DEF CellTotal
<1>2. IsFiniteSet(W) /\ Cardinality(W) <= Cardinality(Cells) /\ Cardinality(W) \in Nat
  BY <1>1, FS_Subset, FS_CardinalityType
<1>3. Len(p) \in Nat /\ DOMAIN p = 1 .. Len(p)
  OBVIOUS
<1>4. p \in Injection(1 .. Len(p), W)
  BY <1>3, Fun_IsInj
<1>5. Cardinality(1 .. Len(p)) = Len(p)
  <2> DEFINE n == Len(p)
  <2>1. n \in Nat
    BY <1>3
  <2> HIDE DEF n
  <2>2. Cardinality(1 .. n) = n
    BY <2>1, FS_Interval
  <2> QED BY <2>2 DEF n
<1>6. Cardinality(1 .. Len(p)) <= Cardinality(W)
  BY <1>2, <1>4, FS_Injection
<1> QED BY <1>1, <1>2, <1>5, <1>6

\* The label a visit gives.
Given(s) ==
  LET c == TopValue(s.queue)
  IN  IF s.label[c] = NO_DEP THEN Len(s.pits) + 1 ELSE s.label[c]

\* A cell visited.
LEMMA VisitFits ==
  ASSUME NEW W \in SUBSET Cells, NEW E, \A c \in W : E[c] \in Nat,
         NEW G, NEW s \in Flooding(W, G), ~ IsEmpty(s.queue)
  PROVE  /\ VisitTop(W, E, s) \in Flooding(W, G)
         /\ Given(s) # NO_DEP /\ (Given(s) = BOUNDARY => s.label[TopValue(s.queue)] = BOUNDARY)
<1> DEFINE c == TopValue(s.queue)
           l == IF s.label[c] = NO_DEP THEN Len(s.pits) + 1 ELSE s.label[c]
           fresh == {n \in Around(c) \cap W : s.label[n] = NO_DEP}
           label == [x \in DOMAIN s.label |-> IF x = c \/ x \in fresh THEN l ELSE s.label[x]]
           flow == [x \in W |-> IF x \in fresh THEN c ELSE s.flow[x]]
           pits == IF s.label[c] = NO_DEP THEN Append(s.pits, c) ELSE s.pits
           queue == PushAll(Pop(s.queue), E, Neighbours[c], fresh)
<1>1. /\ s.label \in [W -> Nat] /\ s.flow \in [W -> W \cup {NO_FLOW}] /\ s.pits \in Seq(W) /\ s.queue \in Waits(W)
      /\ \A x \in W : s.label[x] \in {OCEAN, BOUNDARY, NO_DEP} \cup (1 .. Len(s.pits))
      /\ \A x \in W : G[x] # NO_DEP => s.label[x] = G[x]
      /\ \A i, j \in 1 .. Len(s.pits) : s.pits[i] = s.pits[j] => i = j
      /\ \A i \in 1 .. Len(s.pits) : s.label[s.pits[i]] # NO_DEP
  BY DEF Flooding
<1>2. c \in W /\ Pop(s.queue) \in Waits(W)
  BY <1>1, PopWaits
<1>3. VisitTop(W, E, s) = [label |-> label, flow |-> flow, pits |-> pits, queue |-> queue]
  BY DEF VisitTop
<1>4. fresh \subseteq W
  OBVIOUS
<1>5. queue \in Waits(W)
  <2>1. c \in Cells
    BY <1>2
  <2>2. Neighbours[c] \in Seq(Cells)
    BY <2>1, NeighboursAre
  <2> HIDE DEF c, fresh
  <2> QED BY <1>2, <1>4, <2>2, PushAllWaits
<1> HIDE DEF c, queue
<1>6. Len(s.pits) \in Nat /\ DOMAIN s.pits = 1 .. Len(s.pits) /\ \A i \in 1 .. Len(s.pits) : s.pits[i] \in W
  BY <1>1
<1>7. /\ pits \in Seq(W) /\ Len(pits) \in Nat /\ Len(s.pits) <= Len(pits)
      /\ l \in {OCEAN, BOUNDARY} \cup (1 .. Len(pits))
      /\ \A i, j \in 1 .. Len(pits) : pits[i] = pits[j] => i = j
      /\ \A i \in 1 .. Len(pits) : pits[i] = c \/ \E j \in 1 .. Len(s.pits) : pits[i] = s.pits[j]
  <2>1. CASE s.label[c] = NO_DEP
    <3>1. pits = Append(s.pits, c) /\ l = Len(s.pits) + 1
      BY <2>1
    <3>2. /\ Append(s.pits, c) \in Seq(W) /\ Len(Append(s.pits, c)) = Len(s.pits) + 1
          /\ Append(s.pits, c)[Len(s.pits) + 1] = c
          /\ \A i \in 1 .. Len(s.pits) : Append(s.pits, c)[i] = s.pits[i]
      BY <1>1, <1>2
    <3>3. \A i \in 1 .. Len(s.pits) : s.pits[i] # c
      BY <1>1, <2>1
    <3>4. \A i \in 1 .. Len(s.pits) + 1 : i \in 1 .. Len(s.pits) \/ i = Len(s.pits) + 1
      BY <1>6
    <3> HIDE DEF pits, l
    <3>5. \A i, j \in 1 .. Len(s.pits) + 1 : pits[i] = pits[j] => i = j
      BY <1>1, <3>1, <3>2, <3>3, <3>4
    <3>6. \A i \in 1 .. Len(s.pits) + 1 : pits[i] = c \/ \E j \in 1 .. Len(s.pits) : pits[i] = s.pits[j]
      BY <3>1, <3>2, <3>4
    <3>7. Len(s.pits) + 1 \in 1 .. Len(s.pits) + 1
      BY <1>6
    <3> QED BY <1>6, <3>1, <3>2, <3>5, <3>6, <3>7
  <2>2. CASE s.label[c] # NO_DEP
    <3>1. pits = s.pits /\ l = s.label[c]
      BY <2>2
    <3>2. l \in {OCEAN, BOUNDARY} \cup (1 .. Len(s.pits))
      BY <1>1, <1>2, <2>2, <3>1
    <3> HIDE DEF pits, l
    <3> QED BY <1>1, <1>6, <3>1, <3>2
  <2> QED BY <2>1, <2>2
<1>8. l \in Nat /\ l # NO_DEP
  <2>1. /\ OCEAN \in Nat /\ BOUNDARY \in Nat /\ NO_DEP \in Nat /\ OCEAN # NO_DEP /\ BOUNDARY # NO_DEP
        /\ Width * Height < NO_DEP /\ Width * Height \in Nat
    BY LabelAssumption, CellCount DEF OCEAN, CellTotal
  <2>2. Len(pits) <= Cardinality(W) /\ Cardinality(W) \in Nat /\ Cardinality(W) <= Width * Height
    <3> HIDE DEF pits, l
    <3> QED BY <1>7, PitsFit
  <2> DEFINE k == Len(pits)
             p == Width * Height
  <2>3. k <= p /\ k \in Nat /\ p \in Nat /\ p < NO_DEP
    <3> HIDE DEF pits, l
    <3> QED BY <1>7, <2>1, <2>2
  <2>4. l \in {OCEAN, BOUNDARY} \cup (1 .. k)
    BY <1>7
  <2> HIDE DEF l, k, p
  <2> QED BY <2>1, <2>3, <2>4
<1>13. l = BOUNDARY => s.label[c] = BOUNDARY
  <2>1. Len(s.pits) <= Cardinality(W) /\ Cardinality(W) \in Nat /\ Cardinality(W) <= Width * Height
    BY <1>1, PitsFit
  <2>2. Len(pits) <= Cardinality(W)
    <3> HIDE DEF pits, l
    <3> QED BY <1>7, PitsFit
  <2>3. BOUNDARY \in Nat /\ Width * Height \in Nat /\ Width * Height < BOUNDARY
    BY LabelAssumption, CellCount DEF CellTotal
  <2>4. CASE s.label[c] = NO_DEP
    <3>1. l = Len(s.pits) + 1 /\ pits = Append(s.pits, c)
      BY <2>4
    <3>2. Len(Append(s.pits, c)) = Len(s.pits) + 1
      BY <1>1, <1>2
    <3>3. l <= Cardinality(W)
      <4> HIDE DEF pits, l
      <4> QED BY <2>2, <3>1, <3>2
    <3> DEFINE m == Width * Height
    <3>4. l \in Nat /\ Cardinality(W) <= m /\ m \in Nat /\ m < BOUNDARY
      BY <1>6, <2>1, <2>3, <3>1
    <3> HIDE DEF l, m
    <3> QED BY <2>1, <2>3, <3>3, <3>4
  <2> QED BY <2>4
<1>14. l = Given(s)
  BY DEF Given, c
<1> HIDE DEF l, pits, fresh
<1>9. /\ label \in [W -> Nat] /\ flow \in [W -> W \cup {NO_FLOW}]
      /\ \A x \in W : label[x] = IF x = c \/ x \in fresh THEN l ELSE s.label[x]
  BY <1>1, <1>2, <1>8
<1> HIDE DEF label, flow
<1>10. \A x \in W : label[x] \in {OCEAN, BOUNDARY, NO_DEP} \cup (1 .. Len(pits))
  <2>1. \A i \in 1 .. Len(s.pits) : i \in 1 .. Len(pits)
    BY <1>6, <1>7
  <2> QED BY <1>1, <1>7, <1>9, <2>1
<1>11. \A x \in W : G[x] # NO_DEP => label[x] = G[x]
  <2>1. \A x \in W : x \in fresh => s.label[x] = NO_DEP
    BY DEF fresh
  <2>2. s.label[c] # NO_DEP => l = s.label[c]
    BY DEF l
  <2> QED BY <1>1, <1>2, <1>9, <2>1, <2>2
<1>12. \A i \in 1 .. Len(pits) : label[pits[i]] # NO_DEP
  <2> SUFFICES ASSUME NEW i \in 1 .. Len(pits) PROVE label[pits[i]] # NO_DEP
    OBVIOUS
  <2>1. CASE pits[i] = c
    BY <1>2, <1>8, <1>9, <2>1
  <2>2. ASSUME NEW j \in 1 .. Len(s.pits), pits[i] = s.pits[j] PROVE label[pits[i]] # NO_DEP
    BY <1>1, <1>6, <1>8, <1>9, <2>2
  <2> QED BY <1>7, <2>1, <2>2
<1>15. VisitTop(W, E, s) \in Flooding(W, G)
  <2>1. [label |-> label, flow |-> flow, pits |-> pits, queue |-> queue]
          \in [label : [W -> Nat], flow : [W -> W \cup {NO_FLOW}], pits : Seq(W), queue : Waits(W)]
    BY <1>5, <1>7, <1>9
  <2>2. PICK v : v = VisitTop(W, E, s)
    OBVIOUS
  <2>3. /\ v \in [label : [W -> Nat], flow : [W -> W \cup {NO_FLOW}], pits : Seq(W), queue : Waits(W)]
        /\ v.label = label /\ v.pits = pits
    BY <1>3, <2>1, <2>2
  <2>4. v \in Flooding(W, G)
    BY <1>7, <1>10, <1>11, <1>12, <2>3 DEF Flooding
  <2> QED BY <2>2, <2>4
<1> QED BY <1>8, <1>13, <1>14, <1>15 DEF c

\* A flood of a window: labels, flow directions and pits of the window.
TileFits(W, given, t) ==
  /\ t.label \in [W -> Nat] /\ t.flow \in [W -> W \cup {NO_FLOW}] /\ t.pits \in Seq(W)
  /\ Len(t.pits) <= Cardinality(W)
  /\ \A c \in W : t.label[c] \in {OCEAN, BOUNDARY, NO_DEP} \cup (1 .. Len(t.pits))
  /\ \A c \in W : given[c] # NO_DEP => t.label[c] = given[c]

\* What is left of the state a flood ends in.
Outcome(s) == [label |-> s.label, flow |-> s.flow, pits |-> s.pits]

\* The state a flood begins with.
FloodStart(W, E, G, S) ==
  [label |-> G, flow |-> [c \in W |-> NO_FLOW], pits |-> <<>>, queue |-> PushAll(EmptyQueue(-1), E, RowMajor, S)]

\* The queue a flood begins with, before anything is pushed.
LEMMA EmptyWaits ==
  ASSUME NEW W
  PROVE  EmptyQueue(-1) \in Waits(W) /\ RowMajor \in Seq(Int) /\ Len(RowMajor) = Width * Height
<1>1. RowMajor \in Seq(Int) /\ Len(RowMajor) = Width * Height
  <2>1. Width * Height \in Nat
    BY CellCount DEF CellTotal
  <2>2. [i \in 1 .. Width * Height |-> i - 1] \in [1 .. Width * Height -> Int]
    OBVIOUS
  <2>3. RowMajor \in [1 .. Width * Height -> Int]
    BY <2>2 DEF RowMajor
  <2> QED BY <2>1, <2>3
<1>2. EmptyQueue(-1) \in Waits(W)
  <2>1. EmptyBag \in [{} -> Nat \ {0}] /\ DOMAIN EmptyBag = {}
    BY DEF EmptyBag, SetToBag
  <2>2. -1 \in Int /\ <<>> \in Seq(W) /\ DOMAIN EmptyBag \subseteq Nat \X W
        /\ EmptyBag \in [DOMAIN EmptyBag -> Nat \ {0}]
    BY <2>1
  <2> QED BY <2>2, WaitsMade DEF EmptyQueue
<1> QED BY <1>1, <1>2

\* That state is one of a flood.
LEMMA StartFits ==
  ASSUME NEW W \in SUBSET Cells, NEW E, \A c \in W : E[c] \in Nat,
         NEW G, \A c \in W : G[c] \in {OCEAN, BOUNDARY, NO_DEP}, G = [c \in W |-> G[c]],
         NEW S, S \subseteq W
  PROVE  FloodStart(W, E, G, S) \in Flooding(W, G)
<1> DEFINE start == FloodStart(W, E, G, S)
<1>1. G \in [W -> Nat]
  <2>1. OCEAN \in Nat /\ BOUNDARY \in Nat /\ NO_DEP \in Nat
    BY LabelAssumption DEF OCEAN
  <2> QED BY <2>1
<1>2. PushAll(EmptyQueue(-1), E, RowMajor, S) \in Waits(W)
  <2>1. PICK e, w : e = EmptyQueue(-1) /\ w = RowMajor
    OBVIOUS
  <2>2. w \in Seq(Int) /\ e \in Waits(W)
    BY <2>1, EmptyWaits
  <2>3. PushAll(e, E, w, S) \in Waits(W)
    BY <2>2, PushAllWaits
  <2> QED BY <2>1, <2>3
<1>3. [c \in W |-> NO_FLOW] \in [W -> W \cup {NO_FLOW}] /\ <<>> \in Seq(W) /\ Len(<<>>) = 0 /\ 1 .. 0 = {}
  OBVIOUS
<1>4. /\ start.label = G /\ start.pits = <<>>
      /\ start \in [label : [W -> Nat], flow : [W -> W \cup {NO_FLOW}], pits : Seq(W), queue : Waits(W)]
  BY <1>1, <1>2, <1>3 DEF FloodStart
<1> HIDE DEF start
<1>5. start \in Flooding(W, G)
  BY <1>3, <1>4 DEF Flooding
<1> QED BY <1>5 DEF start

\* What holds of that state, and after every visit if it held before, holds when the
\* rounds are over.
LEMMA FloodKeeps ==
  ASSUME NEW W \in SUBSET Cells, NEW E, NEW G, NEW S, NEW V, FloodStart(W, E, G, S) \in V,
         \A s \in V : ~ IsEmpty(s.queue) => VisitTop(W, E, s) \in V
  PROVE  \E done \in V : FloodedFrom(W, E, G, S) = Outcome(done)
<1> DEFINE n == 2 * Cardinality(W)
           start == FloodStart(W, E, G, S)
           Turned == [s \in V |-> IF IsEmpty(s.queue) THEN s ELSE VisitTop(W, E, s)]
           q == [i \in 1 .. n |-> i]
           Is(f) == f = [R \in SUBSET DOMAIN q |->
                           IF R = {} THEN start
                           ELSE LET x == Max(R)
                                IN  IF IsEmpty(f[R \ {x}].queue) THEN f[R \ {x}] ELSE VisitTop(W, E, f[R \ {x}])]
           it == CHOOSE f : Is(f)
           done == it[1 .. n]
<1>1. n \in Nat /\ Cardinality(W) \in Nat
  <2>1. IsFiniteSet(W)
    BY CellCount, FS_Subset
  <2>2. Cardinality(W) \in Nat
    BY <2>1, FS_CardinalityType
  <2> QED BY <2>2
<1>2. start \in V
  OBVIOUS
<1> HIDE DEF start
<1>3. Turned \in [V -> V]
  <2>1. ASSUME NEW s \in V PROVE (IF IsEmpty(s.queue) THEN s ELSE VisitTop(W, E, s)) \in V
    OBVIOUS
  <2> QED BY <2>1
<1>4. PICK F : IsRepeat(F, n, V, start, Turned)
  <2> HIDE DEF n, Turned
  <2> QED BY <1>1, <1>2, <1>3, RepeatExists
<1>5. DOMAIN q = 1 .. n
  OBVIOUS
<1>6. Is(F)
  <2>1. \A R \in SUBSET (1 .. n) :
          F[R] = IF R = {} THEN start
                 ELSE IF IsEmpty(F[R \ {Max(R)}].queue) THEN F[R \ {Max(R)}] ELSE VisitTop(W, E, F[R \ {Max(R)}])
    <3> SUFFICES ASSUME NEW R \in SUBSET (1 .. n), R # {}
                 PROVE  F[R] = IF IsEmpty(F[R \ {Max(R)}].queue) THEN F[R \ {Max(R)}]
                               ELSE VisitTop(W, E, F[R \ {Max(R)}])
      BY <1>4 DEF IsRepeat
    <3>1. F[R \ {Max(R)}] \in V /\ F[R] = Turned[F[R \ {Max(R)}]]
      BY <1>4 DEF IsRepeat
    <3> QED BY <3>1
  <2>2. F = [R \in SUBSET (1 .. n) |-> F[R]]
    BY <1>4 DEF IsRepeat
  <2> HIDE DEF n, q
  <2> QED BY <1>5, <2>1, <2>2
<1>7. Is(it)
  <2> HIDE DEF Is
  <2> QED BY <1>6
<1>8. it[{}] = start
  BY <1>7
<1>9. ASSUME NEW i \in 1 .. n, it[1 .. i - 1] \in V PROVE it[1 .. i] = Turned[it[1 .. i - 1]]
  <2>1. 1 .. i # {} /\ Max(1 .. i) = i /\ (1 .. i) \ {i} = 1 .. i - 1
    <3>1. i \in Nat \ {0}
      OBVIOUS
    <3> QED BY <3>1, Prefix
  <2>2. 1 .. i \in SUBSET DOMAIN q
    <3>1. n \in Nat /\ i \in 1 .. n
      BY <1>1
    <3> HIDE DEF n, q
    <3>2. 1 .. i \subseteq 1 .. n
      BY <3>1
    <3>3. DOMAIN q = 1 .. n
      BY <1>5
    <3> QED BY <3>2, <3>3
  <2>3. it[1 .. i] = IF IsEmpty(it[1 .. i - 1].queue) THEN it[1 .. i - 1] ELSE VisitTop(W, E, it[1 .. i - 1])
    <3> HIDE DEF it, q, n, Turned
    <3> QED BY <1>7, <2>1, <2>2
  <2> HIDE DEF it
  <2> QED BY <1>9, <2>3
<1>10. PICK g : IsRun(g, n, V, start, Turned) /\ g[n] = it[1 .. n]
  <2> HIDE DEF it, Turned, n
  <2> QED BY <1>1, <1>2, <1>3, <1>8, <1>9, RunMade
<1>11. done \in V
  <2>1. n \in 0 .. n
    BY <1>1
  <2> HIDE DEF it, n, Turned
  <2> QED BY <1>10, <2>1 DEF IsRun
<1>12. FloodedFrom(W, E, G, S) = Outcome(done)
  BY <1>5 DEF FloodedFrom, FoldLeft, MapThenFoldSet, FloodStart, start, Outcome
<1> HIDE DEF done
<1> QED BY <1>11, <1>12

\* What a flood that fits leaves fits.
LEMMA DoneFits ==
  ASSUME NEW W \in SUBSET Cells, NEW G, NEW done \in Flooding(W, G)
  PROVE  TileFits(W, G, Outcome(done))
<1>1. /\ done.label \in [W -> Nat] /\ done.flow \in [W -> W \cup {NO_FLOW}] /\ done.pits \in Seq(W)
      /\ \A c \in W : done.label[c] \in {OCEAN, BOUNDARY, NO_DEP} \cup (1 .. Len(done.pits))
      /\ \A c \in W : G[c] # NO_DEP => done.label[c] = G[c]
      /\ \A i, j \in 1 .. Len(done.pits) : done.pits[i] = done.pits[j] => i = j
  BY DEF Flooding
<1>2. Len(done.pits) <= Cardinality(W)
  BY <1>1, PitsFit
<1> QED BY <1>1, <1>2 DEF TileFits, Outcome

\* The flood of a window fits it, from whatever seeds.
LEMMA FloodFits ==
  ASSUME NEW W \in SUBSET Cells, NEW E, \A c \in W : E[c] \in Nat,
         NEW G, \A c \in W : G[c] \in {OCEAN, BOUNDARY, NO_DEP}, G = [c \in W |-> G[c]],
         NEW S, S \subseteq W
  PROVE  TileFits(W, G, FloodedFrom(W, E, G, S))
<1>1. PICK V : V = Flooding(W, G)
  OBVIOUS
<1>2. FloodStart(W, E, G, S) \in V
  BY <1>1, StartFits
<1>3. \A s \in V : ~ IsEmpty(s.queue) => VisitTop(W, E, s) \in V
  BY <1>1, VisitFits
<1>4. PICK done \in V : FloodedFrom(W, E, G, S) = Outcome(done)
  BY <1>2, <1>3, FloodKeeps
<1> QED BY <1>1, <1>4, DoneFits

-----------------------------------------------------------------------------
(***************************************************************************)
(* The flood of a window goes from low to high: a cell gets the label of a *)
(* neighbour that is no higher, and flows there.                           *)
(***************************************************************************)
\* A queue of cells by elevation: what is at its front is as high as what was pulled
\* last, and all else is no lower.
Orderly(q, E) ==
  /\ \A i \in DOMAIN q.front : E[q.front[i]] = q.last
  /\ \A e \in DOMAIN q.rest : e[1] = E[e[2]] /\ q.last <= e[1]

\* The cell stands in the queue.
Stands(q, E, c) == (\E i \in DOMAIN q.front : q.front[i] = c) \/ <<E[c], c>> \in DOMAIN q.rest

\* A cell pushed that is no lower than what was pulled last.
LEMMA PushOrder ==
  ASSUME NEW W, NEW E, NEW q \in Waits(W), Orderly(q, E), NEW v \in W, q.last <= E[v]
  PROVE  /\ Orderly(Push(q, E[v], v), E) /\ Push(q, E[v], v).last = q.last /\ Stands(Push(q, E[v], v), E, v)
         /\ \A c : Stands(q, E, c) => Stands(Push(q, E[v], v), E, c)
<1>1. /\ q = [last |-> q.last, front |-> q.front, rest |-> q.rest]
      /\ q.front \in Seq(W)
  BY WaitsParts
<1>2. CASE E[v] = q.last
  <2> DEFINE f == Append(q.front, v)
             n == Len(q.front)
  <2>1. Push(q, E[v], v) = [last |-> q.last, front |-> f, rest |-> q.rest]
    BY <1>1, <1>2 DEF Push
  <2>2. n \in Nat /\ DOMAIN q.front = 1 .. n /\ DOMAIN f = 1 .. n + 1 /\ f[n + 1] = v /\ \A i \in 1 .. n : f[i] = q.front[i]
    BY <1>1
  <2> HIDE DEF f, n
  <2>3. \A i \in 1 .. n + 1 : i \in 1 .. n \/ i = n + 1
    BY <2>2
  <2>4. \A i \in DOMAIN f : E[f[i]] = q.last
    BY <1>2, <2>2, <2>3 DEF Orderly
  <2>5. Orderly(Push(q, E[v], v), E)
    BY <2>1, <2>4 DEF Orderly
  <2>6. n + 1 \in DOMAIN f /\ \A i \in 1 .. n : i \in DOMAIN f
    BY <2>2
  <2>7. \A c : Stands(q, E, c) => Stands(Push(q, E[v], v), E, c)
    BY <2>1, <2>2, <2>6 DEF Stands
  <2> QED BY <2>1, <2>2, <2>5, <2>6, <2>7 DEF Stands
<1>3. CASE E[v] # q.last
  <2> DEFINE r == q.rest (+) SetToBag({<<E[v], v>>})
  <2>1. Push(q, E[v], v) = [last |-> q.last, front |-> q.front, rest |-> r]
    BY <1>1, <1>3 DEF Push
  <2>2. DOMAIN r = DOMAIN q.rest \cup {<<E[v], v>>}
    BY DEF (+), SetToBag
  <2> HIDE DEF r
  <2>3. \A e \in DOMAIN r : e[1] = E[e[2]] /\ q.last <= e[1]
    BY <2>2 DEF Orderly
  <2>4. Orderly(Push(q, E[v], v), E)
    BY <2>1, <2>3 DEF Orderly
  <2>5. Stands(Push(q, E[v], v), E, v) /\ \A c : Stands(q, E, c) => Stands(Push(q, E[v], v), E, c)
    BY <2>1, <2>2 DEF Stands
  <2> QED BY <2>1, <2>4, <2>5
<1> QED BY <1>2, <1>3

\* Several cells pushed, none lower than what was pulled last.
LEMMA PushAllOrder ==
  ASSUME NEW W, NEW E, \A c \in W : E[c] \in Nat, NEW q \in Waits(W), Orderly(q, E),
         NEW S, NEW s \in Seq(S), NEW T, T \subseteq W, \A c \in T : q.last <= E[c]
  PROVE  /\ Orderly(PushAll(q, E, s, T), E)
         /\ \A c : Stands(q, E, c) => Stands(PushAll(q, E, s, T), E, c)
         /\ \A i \in 1 .. Len(s) : s[i] \in T => Stands(PushAll(q, E, s, T), E, s[i])
<1>0. PICK h : PushRun(h, q, W, E, s, T)
  BY PushAllRun
<1>1. /\ h[0] = q /\ h[Len(s)] = PushAll(q, E, s, T)
      /\ \A i \in 1 .. Len(s) :
           /\ h[i - 1] \in Waits(W)
           /\ h[i] = IF s[i] \in T THEN Push(h[i - 1], E[s[i]], s[i]) ELSE h[i - 1]
  BY <1>0 DEF PushRun
<1>2. PICK k \in Nat : k = Len(s)
  OBVIOUS
<1> DEFINE U == {i \in 0 .. k : /\ Orderly(h[i], E) /\ h[i].last = q.last
                                /\ \A c : Stands(q, E, c) => Stands(h[i], E, c)
                                /\ \A j \in 1 .. i : s[j] \in T => Stands(h[i], E, s[j])}
<1>3. 0 \in U
  <2>1. 1 .. 0 = {} /\ 0 \in 0 .. k
    OBVIOUS
  <2> QED BY <1>1, <2>1
<1>4. ASSUME NEW i \in 0 .. k - 1, i \in U PROVE i + 1 \in U
  <2>1. i + 1 \in 1 .. k /\ i + 1 \in 0 .. k /\ (i + 1) - 1 = i /\ \A j \in 1 .. i + 1 : j \in 1 .. i \/ j = i + 1
    OBVIOUS
  <2>2. PICK x : x = s[i + 1]
    OBVIOUS
  <2>3. h[i] \in Waits(W) /\ h[i + 1] = IF x \in T THEN Push(h[i], E[x], x) ELSE h[i]
    BY <1>1, <1>2, <2>1, <2>2
  <2>4. /\ Orderly(h[i], E) /\ h[i].last = q.last
        /\ \A c : Stands(q, E, c) => Stands(h[i], E, c)
        /\ \A j \in 1 .. i : s[j] \in T => Stands(h[i], E, s[j])
    BY <1>4
  <2>5. CASE x \in T
    <3>1. x \in W /\ h[i].last <= E[x]
      BY <2>4, <2>5
    <3>2. /\ Orderly(Push(h[i], E[x], x), E) /\ Push(h[i], E[x], x).last = h[i].last
          /\ Stands(Push(h[i], E[x], x), E, x)
          /\ \A c : Stands(h[i], E, c) => Stands(Push(h[i], E[x], x), E, c)
      BY <2>3, <2>4, <3>1, PushOrder
    <3> QED BY <2>1, <2>2, <2>3, <2>4, <2>5, <3>2
  <2>6. CASE x \notin T
    BY <2>1, <2>2, <2>3, <2>4, <2>6
  <2> QED BY <2>5, <2>6
<1>5. k \in U
  <2> HIDE DEF U
  <2>1. 0 .. k \subseteq U
    BY <1>3, <1>4, Upwards
  <2> QED BY <2>1
<1> QED BY <1>1, <1>2, <1>5

\* The values of the smallest key are all in their ascending order.
LEMMA AscendingAll ==
  ASSUME NEW D \in SUBSET Cells, NEW b \in [D -> Nat \ {0}], NEW d \in D
  PROVE  \E i \in DOMAIN Ascending(b) : Ascending(b)[i] = d
<1> DEFINE copies == UNION {{v} \X (1 .. b[v]) : v \in DOMAIN b}
           below(v) == {e \in copies : e[1] <= v}
           upTo(v) == Cardinality(below(v))
           n == Cardinality(copies)
           above(i) == {v \in DOMAIN b : i <= upTo(v)}
<1>1. DOMAIN b = D /\ D \subseteq Nat /\ IsFiniteSet(D) /\ \A v \in D : v \in Nat
  BY CellCount, FS_Subset
<1>2. IsFiniteSet(copies)
  BY <1>1, FiniteCopies
<1>3. \A v \in D : <<v, 1>> \in copies
  <2>1. ASSUME NEW v \in D PROVE \E u \in DOMAIN b : <<v, 1>> \in {u} \X (1 .. b[u])
    <3>1. v \in DOMAIN b /\ 1 \in 1 .. b[v]
      OBVIOUS
    <3> QED BY <3>1
  <2> QED BY <2>1
<1>4. Ascending(b) = [i \in 1 .. n |-> Min(above(i))]
  BY DEF Ascending, copies
<1> HIDE DEF copies
<1>5. n \in Nat /\ \A v \in D : IsFiniteSet(below(v)) /\ upTo(v) \in Nat /\ upTo(v) <= n
  BY <1>2, FS_Subset, FS_CardinalityType
<1>6. upTo(d) \in 1 .. n
  <2>1. <<d, 1>> \in below(d)
    BY <1>1, <1>3
  <2>2. Cardinality(below(d)) # 0
    <3> HIDE DEF below
    <3> QED BY <1>5, <2>1, FS_EmptySet
  <2> HIDE DEF n, below
  <2> QED BY <1>5, <2>2
<1>7. ASSUME NEW v \in D, v < d PROVE ~ (upTo(d) <= upTo(v))
  <2>1. below(v) \subseteq below(d)
    <3>1. \A e \in copies : e[1] <= v => e[1] <= d
      <4> SUFFICES ASSUME NEW e \in copies, e[1] <= v PROVE e[1] <= d
        OBVIOUS
      <4>1. e[1] \in D
        BY <1>1 DEF copies
      <4>2. e[1] \in Nat /\ v \in Nat /\ d \in Nat
        BY <1>1, <4>1
      <4> QED BY <1>7, <4>2
    <3> QED BY <3>1
  <2>2. <<d, 1>> \in below(d) /\ <<d, 1>> \notin below(v)
    BY <1>1, <1>3, <1>7
  <2> HIDE DEF below
  <2>3. upTo(v) <= upTo(d) /\ upTo(v) # upTo(d)
    BY <1>5, <2>1, <2>2, FS_Subset
  <2> HIDE DEF upTo
  <2> QED BY <1>5, <2>3
<1>8. d \in above(upTo(d)) /\ \A v \in above(upTo(d)) : d <= v
  <2>1. upTo(d) \in Nat
    BY <1>5
  <2> HIDE DEF upTo
  <2> QED BY <1>1, <1>7, <2>1
<1>9. Min(above(upTo(d))) = d
  <2>1. PICK A : A = above(upTo(d))
    OBVIOUS
  <2>2. A \subseteq Nat /\ A # {} /\ d \in A /\ \A v \in A : d <= v
    BY <1>1, <1>8, <2>1
  <2>3. Min(A) \in A /\ Min(A) <= d
    BY <2>2, MinOfNats
  <2>4. Min(A) = d
    <3>1. Min(A) \in Nat /\ d \in Nat /\ d <= Min(A)
      BY <1>1, <2>2, <2>3
    <3> QED BY <2>3, <3>1
  <2> QED BY <2>1, <2>4
<1> HIDE DEF n, upTo, above
<1>10. DOMAIN Ascending(b) = 1 .. n /\ Ascending(b)[upTo(d)] = d
  BY <1>4, <1>6, <1>9
<1> QED BY <1>6, <1>10

\* What the queue gives back is a cell no higher than any that stands in it, and the
\* others stay.
LEMMA PopOrder ==
  ASSUME NEW W \in SUBSET Cells, NEW E, NEW q \in Waits(W), Orderly(q, E), ~ IsEmpty(q)
  PROVE  /\ Orderly(Pop(q), E) /\ Pop(q).last = E[TopValue(q)]
         /\ \A c \in W : Stands(q, E, c) => E[TopValue(q)] <= E[c] /\ (c = TopValue(q) \/ Stands(Pop(q), E, c))
<1> DEFINE p == Pulled(q)
<1>1. /\ q = [last |-> q.last, front |-> q.front, rest |-> q.rest]
      /\ q.last \in Int /\ q.front \in Seq(W) /\ DOMAIN q.rest \subseteq Nat \X W
      /\ q.rest \in [DOMAIN q.rest -> Nat \ {0}]
  BY WaitsParts
<1>2. /\ p.front \in Seq(W) /\ p.front # <<>> /\ p.last \in Int
      /\ p = [last |-> p.last, front |-> p.front, rest |-> p.rest]
      /\ DOMAIN p.rest \subseteq Nat \X W /\ Orderly(p, E) /\ \A c \in W : Stands(q, E, c) => Stands(p, E, c)
  <2>1. CASE q.front # <<>>
    BY <1>1, <2>1 DEF Pulled
  <2>2. CASE q.front = <<>>
    <3>1. PICK key \in Nat, D \in SUBSET W : \E b \in [D -> Nat \ {0}] : PulledTo(q, W, key, D, b)
      BY <2>2, PulledIs
    <3>2. PICK b \in [D -> Nat \ {0}] : PulledTo(q, W, key, D, b)
      BY <3>1
    <3>3. PICK f, r : f = Ascending(b) /\ r = Restrict(q.rest, {e \in DOMAIN q.rest : e[1] # key})
      OBVIOUS
    <3>4. p = [last |-> key, front |-> f, rest |-> r]
      BY <3>2, <3>3 DEF PulledTo
    <3>5. /\ D # {} /\ (\A c \in D : <<key, c>> \in DOMAIN q.rest) /\ (\A e \in DOMAIN q.rest : key <= e[1])
          /\ \A c \in W : <<key, c>> \in DOMAIN q.rest => c \in D
      BY <3>2 DEF PulledTo
    <3>6. DOMAIN r = {e \in DOMAIN q.rest : e[1] # key}
      BY <1>1, <3>3 DEF Restrict
    <3>7. f \in Seq(D) /\ f # <<>> /\ \A c \in D : \E i \in DOMAIN f : f[i] = c
      <4>1. D \in SUBSET Cells
        OBVIOUS
      <4> QED BY <3>3, <3>5, <4>1, AscendingSeq, AscendingAll
    <3> HIDE DEF p
    <3>8. Orderly(p, E)
      <4>1. \A c \in D : E[c] = key
        BY <3>5 DEF Orderly
      <4>2. \A i \in DOMAIN f : f[i] \in D
        BY <3>7
      <4>3. \A e \in DOMAIN r : e[1] = E[e[2]] /\ key <= e[1]
        BY <3>5, <3>6 DEF Orderly
      <4> QED BY <3>4, <4>1, <4>2, <4>3 DEF Orderly
    <3>9. ASSUME NEW c \in W, Stands(q, E, c) PROVE Stands(p, E, c)
      <4>1. <<E[c], c>> \in DOMAIN q.rest
        <5>1. DOMAIN q.front = {}
          BY <2>2
        <5> QED BY <3>9, <5>1 DEF Stands
      <4>2. CASE E[c] = key
        BY <3>4, <3>5, <3>7, <4>1, <4>2 DEF Stands
      <4>3. CASE E[c] # key
        BY <3>4, <3>6, <4>1, <4>3 DEF Stands
      <4> QED BY <4>2, <4>3
    <3>10. f \in Seq(W) /\ DOMAIN r \subseteq Nat \X W
      BY <1>1, <3>6, <3>7
    <3> QED BY <3>4, <3>7, <3>8, <3>9, <3>10
  <2> QED BY <2>1, <2>2
<1> DEFINE s == p.front
           f == Front(s)
           n == Len(s)
<1>3. Pop(q) = [last |-> p.last, front |-> f, rest |-> p.rest]
  <2>1. Pop(q) = [p EXCEPT !.front = Front(p.front)]
    BY DEF Pop
  <2> HIDE DEF p
  <2> QED BY <1>2, <2>1
<1>4. TopValue(q) = s[n]
  BY DEF TopValue, Last
<1> HIDE DEF p
<1>5. n \in Nat \ {0} /\ DOMAIN s = 1 .. n /\ s \in Seq(W)
  BY <1>2
<1>6. DOMAIN f = 1 .. n - 1 /\ \A i \in 1 .. n - 1 : f[i] = s[i]
  BY <1>5 DEF Front
<1> HIDE DEF f, n, s
<1>7. \A i \in 1 .. n : E[s[i]] = p.last
  BY <1>2, <1>5 DEF Orderly, s
<1>8. n \in 1 .. n /\ \A i \in 1 .. n - 1 : i \in 1 .. n
  BY <1>5
<1>9. Orderly(Pop(q), E) /\ Pop(q).last = E[TopValue(q)]
  BY <1>2, <1>3, <1>4, <1>6, <1>7, <1>8 DEF Orderly
<1>10. ASSUME NEW c \in W, Stands(q, E, c) PROVE E[s[n]] <= E[c] /\ (c = s[n] \/ Stands(Pop(q), E, c))
  <2>1. Stands(p, E, c)
    BY <1>2, <1>10
  <2>2. CASE \E i \in DOMAIN s : s[i] = c
    <3>1. PICK i \in 1 .. n : s[i] = c
      BY <1>5, <2>2
    <3>2. i = n \/ i \in 1 .. n - 1
      BY <1>5
    <3>3. E[s[n]] <= E[c]
      BY <1>2, <1>7, <1>8, <3>1
    <3> QED BY <1>3, <1>6, <3>1, <3>2, <3>3 DEF Stands
  <2>3. CASE <<E[c], c>> \in DOMAIN p.rest
    <3>1. p.last <= E[c]
      BY <1>2, <2>3 DEF Orderly
    <3> QED BY <1>3, <1>7, <1>8, <2>3, <3>1 DEF Stands
  <2> QED BY <2>1, <2>2, <2>3 DEF Stands, s
<1> QED BY <1>4, <1>9, <1>10

\* Who has been visited has no neighbour without a label; who has no label waits, or
\* has a lower neighbour.
Met(W, E, s) ==
  /\ \A x \in W : s.label[x] # NO_DEP /\ ~ Stands(s.queue, E, x) => \A n \in Around(x) \cap W : s.label[n] # NO_DEP
  /\ \A x \in W : s.label[x] = NO_DEP => Stands(s.queue, E, x) \/ \E n \in Around(x) \cap W : E[n] < E[x]

\* The cells labelled BOUNDARY flow down to those marked so, by d steps.
Dammed(W, s) == {x \in W : s.label[x] = BOUNDARY}
Drains(W, E, G, s, d) ==
  \A x \in Dammed(W, s) :
    /\ d[x] \in Nat /\ d[x] < Cardinality(Dammed(W, s))
    /\ IF G[x] = BOUNDARY THEN s.flow[x] = NO_FLOW
       ELSE s.flow[x] \in Dammed(W, s) /\ E[s.flow[x]] <= E[x] /\ d[s.flow[x]] < d[x]

Falling(W, E, G) ==
  {s \in Flooding(W, G) : Orderly(s.queue, E) /\ Met(W, E, s) /\ \E d : Drains(W, E, G, s, d)}

\* The cell that is visited is no higher than any that has no label.
LEMMA VisitsLowest ==
  ASSUME NEW W \in SUBSET Cells, NEW E, \A x \in W : E[x] \in Nat, NEW s, Met(W, E, s),
         NEW c \in W, \A x \in W : Stands(s.queue, E, x) => E[c] <= E[x], NEW u \in W, s.label[u] = NO_DEP
  PROVE  E[c] <= E[u]
<1> SUFFICES ASSUME ~ (E[c] <= E[u]) PROVE FALSE
  OBVIOUS
<1> DEFINE U == {x \in W : s.label[x] = NO_DEP /\ ~ (E[c] <= E[x])}
           H == {E[x] : x \in U}
<1>1. PICK h \in H : \A m \in H : h <= m
  <2>1. H \subseteq Nat /\ H # {}
    OBVIOUS
  <2> HIDE DEF H
  <2> QED BY <2>1, Least
<1>2. PICK x \in U : h = E[x]
  BY <1>1
<1>3. x \in W /\ x \in Cells /\ s.label[x] = NO_DEP /\ ~ (E[c] <= E[x]) /\ ~ Stands(s.queue, E, x)
  OBVIOUS
<1>4. PICK n \in Around(x) \cap W : E[n] < E[x]
  BY <1>3 DEF Met
<1>5. x \in Around(n)
  BY <1>3, AroundIsMutual
<1>6. E[n] \in Nat /\ E[x] \in Nat /\ E[c] \in Nat
  BY <1>3
<1>7. CASE s.label[n] = NO_DEP
  <2>1. n \in U
    BY <1>3, <1>4, <1>6, <1>7
  <2>2. E[x] <= E[n]
    BY <1>1, <1>2, <2>1
  <2> QED BY <1>4, <1>6, <2>2
<1>8. CASE s.label[n] # NO_DEP
  <2>1. Stands(s.queue, E, n)
    BY <1>3, <1>5, <1>8 DEF Met
  <2> QED BY <1>3, <1>4, <1>6, <2>1
<1> QED BY <1>7, <1>8

\* A visit of c, of which the cells of fresh get the label l.
Visited(W, E, s, t, c, l, fresh) ==
  /\ \A x \in W : t.label[x] = IF x = c \/ x \in fresh THEN l ELSE s.label[x]
  /\ \A x \in W : t.flow[x] = IF x \in fresh THEN c ELSE s.flow[x]
  /\ fresh = {n \in Around(c) \cap W : s.label[n] = NO_DEP}
  /\ Orderly(t.queue, E)
  /\ \A x \in W : Stands(s.queue, E, x) => E[c] <= E[x] /\ (x = c \/ Stands(t.queue, E, x))
  /\ \A n \in fresh : Stands(t.queue, E, n) /\ E[c] <= E[n]
  /\ l # NO_DEP /\ (l = BOUNDARY => s.label[c] = BOUNDARY) /\ (s.label[c] # NO_DEP => l = s.label[c])

\* That is what VisitTop does.
LEMMA VisitIs ==
  ASSUME NEW W \in SUBSET Cells, NEW E, \A x \in W : E[x] \in Nat,
         NEW G, NEW s \in Falling(W, E, G), ~ IsEmpty(s.queue)
  PROVE  \E c \in W, fresh \in SUBSET W : \E l : Visited(W, E, s, VisitTop(W, E, s), c, l, fresh)
<1>0. /\ s \in Flooding(W, G) /\ Orderly(s.queue, E) /\ Met(W, E, s)
      /\ s.label \in [W -> Nat] /\ s.queue \in Waits(W)
  BY DEF Falling, Flooding
<1>1. PICK c, l, fresh : c = TopValue(s.queue) /\ l = Given(s) /\ fresh = {n \in Around(c) \cap W : s.label[n] = NO_DEP}
  OBVIOUS
<1>2. c \in W /\ Pop(s.queue) \in Waits(W)
  BY <1>0, <1>1, PopWaits
<1>3. /\ Orderly(Pop(s.queue), E) /\ Pop(s.queue).last = E[c]
      /\ \A x \in W : Stands(s.queue, E, x) => E[c] <= E[x] /\ (x = c \/ Stands(Pop(s.queue), E, x))
  BY <1>0, <1>1, PopOrder
<1>4. \A n \in fresh : n \in W /\ E[c] <= E[n]
  BY <1>0, <1>1, <1>2, <1>3, VisitsLowest
<1>5. PICK t : t = VisitTop(W, E, s)
  OBVIOUS
<1>6. /\ t.label = [x \in DOMAIN s.label |-> IF x = c \/ x \in fresh THEN l ELSE s.label[x]]
      /\ t.flow = [x \in W |-> IF x \in fresh THEN c ELSE s.flow[x]]
      /\ t.queue = PushAll(Pop(s.queue), E, Neighbours[c], fresh)
  BY <1>1, <1>5 DEF VisitTop, Given
<1>7. /\ Orderly(t.queue, E) /\ (\A x : Stands(Pop(s.queue), E, x) => Stands(t.queue, E, x))
      /\ \A n \in fresh : Stands(t.queue, E, n)
  <2>1. PICK p, near : p = Pop(s.queue) /\ near = Neighbours[c]
    OBVIOUS
  <2>2. near \in Seq(Cells) /\ Around(c) = ToSet(near)
    BY <1>2, <2>1, NeighboursAre DEF Around
  <2>3. fresh \subseteq W /\ (\A x \in fresh : p.last <= E[x]) /\ p \in Waits(W) /\ Orderly(p, E)
    BY <1>2, <1>3, <1>4, <2>1
  <2>4. /\ Orderly(PushAll(p, E, near, fresh), E)
        /\ \A x : Stands(p, E, x) => Stands(PushAll(p, E, near, fresh), E, x)
        /\ \A i \in 1 .. Len(near) : near[i] \in fresh => Stands(PushAll(p, E, near, fresh), E, near[i])
    BY <2>2, <2>3, PushAllOrder
  <2>5. \A n \in fresh : \E i \in 1 .. Len(near) : near[i] = n
    BY <1>1, <2>2 DEF ToSet
  <2> QED BY <1>6, <2>1, <2>4, <2>5
<1>8. \A x \in W : t.label[x] = IF x = c \/ x \in fresh THEN l ELSE s.label[x]
  BY <1>0, <1>6
<1>9. \A x \in W : t.flow[x] = IF x \in fresh THEN c ELSE s.flow[x]
  BY <1>6
<1>10. l # NO_DEP /\ (l = BOUNDARY => s.label[c] = BOUNDARY) /\ (s.label[c] # NO_DEP => l = s.label[c])
  <2>1. s.label[c] # NO_DEP => l = s.label[c]
    BY <1>1 DEF Given
  <2> QED BY <1>0, <1>1, <2>1, VisitFits
<1>11. Visited(W, E, s, t, c, l, fresh)
  BY <1>1, <1>3, <1>4, <1>7, <1>8, <1>9, <1>10 DEF Visited
<1>12. fresh \in SUBSET W
  BY <1>4
<1> QED BY <1>2, <1>5, <1>11, <1>12

\* After a visit all of this still holds.
LEMMA VisitMeets ==
  ASSUME NEW W \in SUBSET Cells, NEW E, NEW s, NEW t, Met(W, E, s),
         NEW c \in W, NEW fresh \in SUBSET W, NEW l, Visited(W, E, s, t, c, l, fresh)
  PROVE  Met(W, E, t)
<1>1. \A x \in W : s.label[x] # NO_DEP => t.label[x] # NO_DEP
  BY DEF Visited
<1>2. ASSUME NEW x \in W, t.label[x] # NO_DEP, ~ Stands(t.queue, E, x), NEW n \in Around(x) \cap W
      PROVE  t.label[n] # NO_DEP
  <2>1. CASE x = c
    BY <2>1 DEF Visited
  <2>2. CASE x # c
    <3>1. x \notin fresh /\ ~ Stands(s.queue, E, x)
      BY <1>2, <2>2 DEF Visited
    <3>2. s.label[x] # NO_DEP
      BY <1>2, <2>2, <3>1 DEF Visited
    <3> QED BY <1>1, <1>2, <3>1, <3>2 DEF Met
  <2> QED BY <2>1, <2>2
<1>3. ASSUME NEW x \in W, t.label[x] = NO_DEP
      PROVE  Stands(t.queue, E, x) \/ \E n \in Around(x) \cap W : E[n] < E[x]
  <2>1. s.label[x] = NO_DEP /\ x # c
    BY <1>1, <1>3 DEF Visited
  <2> QED BY <2>1 DEF Met, Visited
<1> QED BY <1>2, <1>3 DEF Met

\* A cell that gets the label BOUNDARY flows to the one that is visited.
LEMMA VisitDrains ==
  ASSUME NEW W \in SUBSET Cells, NEW E, NEW G, NEW s \in Flooding(W, G), NEW d, Drains(W, E, G, s, d),
         NEW t, NEW c \in W, NEW fresh \in SUBSET W, NEW l, Visited(W, E, s, t, c, l, fresh)
  PROVE  \E e : Drains(W, E, G, t, e)
<1> DEFINE e == [x \in W |-> IF x \in fresh THEN d[c] + 1 ELSE d[x]]
           A == Dammed(W, s)
           B == Dammed(W, t)
<1>0. BOUNDARY # NO_DEP
  BY LabelAssumption
<1>1. \A n \in fresh : s.label[n] = NO_DEP
  BY DEF Visited
<1>2. A \subseteq B /\ A \cap fresh = {}
  <2>1. ASSUME NEW x \in A PROVE t.label[x] = BOUNDARY /\ x \notin fresh
    BY <1>0, <1>1 DEF Visited, Dammed
  <2> QED BY <2>1 DEF Dammed
<1>3. ASSUME NEW x \in B PROVE x \in A \/ (x \in fresh /\ l = BOUNDARY /\ c \in A)
  <2>1. x \in W /\ t.label[x] = BOUNDARY
    BY DEF Dammed
  <2>2. t.label[x] = IF x = c \/ x \in fresh THEN l ELSE s.label[x]
    BY <2>1 DEF Visited
  <2>3. l = BOUNDARY => s.label[c] = BOUNDARY
    BY DEF Visited
  <2> QED BY <2>1, <2>2, <2>3 DEF Dammed
<1>4. IsFiniteSet(B) /\ Cardinality(A) <= Cardinality(B) /\ Cardinality(A) \in Nat /\ Cardinality(B) \in Nat
  <2>1. IsFiniteSet(W)
    BY CellCount, FS_Subset
  <2>2. B \subseteq W
    BY DEF Dammed
  <2>3. IsFiniteSet(B)
    BY <2>1, <2>2, FS_Subset
  <2> QED BY <1>2, <2>3, FS_Subset, FS_CardinalityType
<1>5. ASSUME NEW x \in B
      PROVE  /\ e[x] \in Nat /\ e[x] < Cardinality(B)
             /\ IF G[x] = BOUNDARY THEN t.flow[x] = NO_FLOW
                ELSE t.flow[x] \in B /\ E[t.flow[x]] <= E[x] /\ e[t.flow[x]] < e[x]
  <2>0. x \in W /\ \A y \in A : y \in W /\ d[y] \in Nat /\ d[y] < Cardinality(A)
    BY DEF Dammed, Drains
  <2>1. CASE x \in A
    <3>1. x \notin fresh /\ e[x] = d[x] /\ t.flow[x] = s.flow[x]
      BY <1>2, <2>0, <2>1 DEF Visited
    <3>2. d[x] \in Nat /\ d[x] < Cardinality(B)
      BY <1>4, <2>0, <2>1
    <3>3. CASE G[x] = BOUNDARY
      BY <2>1, <3>1, <3>2, <3>3 DEF Drains
    <3>4. CASE G[x] # BOUNDARY
      <4>1. s.flow[x] \in A /\ E[s.flow[x]] <= E[x] /\ d[s.flow[x]] < d[x]
        BY <2>1, <3>4 DEF Drains
      <4>2. s.flow[x] \notin fresh /\ e[s.flow[x]] = d[s.flow[x]] /\ s.flow[x] \in B
        BY <1>2, <2>0, <4>1
      <4> QED BY <3>1, <3>2, <3>4, <4>1, <4>2
    <3> QED BY <3>3, <3>4
  <2>2. CASE x \notin A
    <3>1. x \in fresh /\ c \in A /\ e[x] = d[c] + 1 /\ t.flow[x] = c /\ E[c] <= E[x]
      BY <1>3, <2>0, <2>2 DEF Visited
    <3>2. c \notin fresh /\ e[c] = d[c] /\ d[c] \in Nat /\ d[c] < Cardinality(A) /\ c \in B
      BY <1>2, <2>0, <3>1
    <3>3. Cardinality(A) < Cardinality(B)
      <4>1. A # B
        BY <2>2
      <4>2. Cardinality(A) # Cardinality(B)
        BY <1>2, <1>4, <4>1, FS_Subset
      <4> HIDE DEF A, B
      <4> QED BY <1>4, <4>2
    <3>4. G[x] # BOUNDARY
      BY <1>0, <1>1, <2>0, <3>1 DEF Flooding
    <3>5. d[c] + 1 < Cardinality(B) /\ d[c] < d[c] + 1 /\ d[c] + 1 \in Nat
      <4> HIDE DEF A, B
      <4> QED BY <1>4, <3>2, <3>3
    <3> HIDE DEF e, A, B
    <3> QED BY <3>1, <3>2, <3>4, <3>5
  <2> QED BY <2>1, <2>2
<1> HIDE DEF e
<1>6. Drains(W, E, G, t, e)
  BY <1>5 DEF Drains
<1> QED BY <1>6

\* So it goes on falling.
LEMMA VisitFalls ==
  ASSUME NEW W \in SUBSET Cells, NEW E, \A x \in W : E[x] \in Nat,
         NEW G, NEW s \in Falling(W, E, G), ~ IsEmpty(s.queue)
  PROVE  VisitTop(W, E, s) \in Falling(W, E, G)
<1>1. PICK t : t = VisitTop(W, E, s)
  OBVIOUS
<1>2. s \in Flooding(W, G) /\ Met(W, E, s)
  BY DEF Falling
<1>3. PICK d : Drains(W, E, G, s, d)
  BY DEF Falling
<1>4. t \in Flooding(W, G)
  BY <1>1, <1>2, VisitFits
<1>5. PICK c \in W, fresh \in SUBSET W : \E l : Visited(W, E, s, t, c, l, fresh)
  BY <1>1, VisitIs
<1>6. PICK l : Visited(W, E, s, t, c, l, fresh)
  BY <1>5
<1>7. Met(W, E, t)
  BY <1>2, <1>6, VisitMeets
<1>8. \E e : Drains(W, E, G, t, e)
  BY <1>2, <1>3, <1>6, VisitDrains
<1>9. Orderly(t.queue, E)
  BY <1>6 DEF Visited
<1> QED BY <1>1, <1>4, <1>7, <1>8, <1>9 DEF Falling

\* The seeds are such that it falls from the start.
LEMMA StartFalls ==
  ASSUME NEW W \in SUBSET Cells, NEW E, \A c \in W : E[c] \in Nat,
         NEW G, \A c \in W : G[c] \in {OCEAN, BOUNDARY, NO_DEP}, G = [c \in W |-> G[c]]
  PROVE  FloodStart(W, E, G, Seeds(W, E, G)) \in Falling(W, E, G)
<1> DEFINE S == Seeds(W, E, G)
<1>1. S \subseteq W
  BY DEF Seeds
<1>2. PICK s : s = FloodStart(W, E, G, S)
  OBVIOUS
<1>3. s \in Flooding(W, G)
  <2> HIDE DEF S
  <2> QED BY <1>1, <1>2, StartFits
<1>4. /\ s.label = G /\ s.flow = [c \in W |-> NO_FLOW]
      /\ s.queue = PushAll(EmptyQueue(-1), E, RowMajor, S)
  BY <1>2 DEF FloodStart
<1>5. Orderly(s.queue, E) /\ \A c \in S : Stands(s.queue, E, c)
  <2>1. PICK q, w : q = EmptyQueue(-1) /\ w = RowMajor
    OBVIOUS
  <2>2. q \in Waits(W) /\ w \in Seq(Int) /\ Len(w) = Width * Height
    BY <2>1, EmptyWaits
  <2>3. q.last = -1 /\ Orderly(q, E)
    BY <2>1 DEF EmptyQueue, Orderly, EmptyBag, SetToBag
  <2>4. \A c \in S : q.last <= E[c]
    <3>1. \A c \in S : E[c] \in Nat
      BY <1>1
    <3> HIDE DEF S
    <3> QED BY <2>3, <3>1
  <2>5. \A c \in S : \E i \in 1 .. Len(w) : w[i] = c
    <3> SUFFICES ASSUME NEW c \in S PROVE \E i \in 1 .. Len(w) : w[i] = c
      OBVIOUS
    <3>1. c \in Cells
      BY <1>1
    <3>2. PICK m \in Nat : m = Width * Height
      BY CellCount DEF CellTotal
    <3>3. c \in 0 .. m - 1
      BY <3>1, <3>2 DEF Cells
    <3>4. c + 1 \in 1 .. m /\ (c + 1) - 1 = c
      BY <3>3
    <3>5. w[c + 1] = (c + 1) - 1
      BY <2>1, <3>2, <3>4 DEF RowMajor
    <3> QED BY <2>2, <3>2, <3>4, <3>5
  <2> HIDE DEF S
  <2>6. /\ Orderly(PushAll(q, E, w, S), E)
        /\ \A i \in 1 .. Len(w) : w[i] \in S => Stands(PushAll(q, E, w, S), E, w[i])
    BY <1>1, <2>2, <2>3, <2>4, PushAllOrder
  <2> QED BY <1>4, <2>1, <2>5, <2>6
<1>6. Met(W, E, s)
  <2>1. ASSUME NEW x \in W, G[x] # NO_DEP, x \notin S, NEW n \in Around(x) \cap W PROVE G[n] # NO_DEP
    BY <2>1 DEF Seeds
  <2>2. ASSUME NEW x \in W, G[x] = NO_DEP, x \notin S PROVE \E n \in Around(x) \cap W : E[n] < E[x]
    <3>1. PICK n \in Around(x) \cap W : ~ (E[n] >= E[x])
      BY <2>2 DEF Seeds
    <3>2. E[n] \in Nat /\ E[x] \in Nat
      OBVIOUS
    <3> QED BY <3>1, <3>2
  <2> HIDE DEF S
  <2> QED BY <1>4, <1>5, <2>1, <2>2 DEF Met
<1>7. Drains(W, E, G, s, [x \in W |-> 0])
  <2>1. ASSUME NEW x \in Dammed(W, s) PROVE x \in W /\ G[x] = BOUNDARY /\ s.flow[x] = NO_FLOW /\ 0 < Cardinality(Dammed(W, s))
    <3>1. x \in W /\ G[x] = BOUNDARY /\ s.flow[x] = NO_FLOW
      BY <1>4 DEF Dammed
    <3>2. IsFiniteSet(Dammed(W, s))
      BY CellCount, FS_Subset DEF Dammed
    <3>3. Cardinality(Dammed(W, s)) \in Nat /\ Cardinality(Dammed(W, s)) # 0
      BY <3>2, FS_EmptySet, FS_CardinalityType
    <3> QED BY <3>1, <3>3
  <2> QED BY <2>1 DEF Drains
<1> HIDE DEF S
<1>8. s \in Falling(W, E, G)
  BY <1>3, <1>5, <1>6, <1>7 DEF Falling
<1> QED BY <1>2, <1>8 DEF S

\* The flood of a window fits it, and what is labelled BOUNDARY in the end flows down to
\* the cells that were marked.
LEMMA FloodFalls ==
  ASSUME NEW W \in SUBSET Cells, NEW E, \A c \in W : E[c] \in Nat,
         NEW G, \A c \in W : G[c] \in {OCEAN, BOUNDARY, NO_DEP}, G = [c \in W |-> G[c]]
  PROVE  TileFits(W, G, Flooded(W, E, G)) /\ \E d : Drains(W, E, G, Flooded(W, E, G), d)
<1>1. PICK V : V = Falling(W, E, G)
  OBVIOUS
<1>2. FloodStart(W, E, G, Seeds(W, E, G)) \in V
  BY <1>1, StartFalls
<1>3. \A s \in V : ~ IsEmpty(s.queue) => VisitTop(W, E, s) \in V
  BY <1>1, VisitFalls
<1>4. PICK done \in V : FloodedFrom(W, E, G, Seeds(W, E, G)) = Outcome(done)
  BY <1>2, <1>3, FloodKeeps
<1>5. Flooded(W, E, G) = Outcome(done)
  BY <1>4 DEF Flooded
<1>6. done \in Flooding(W, G)
  BY <1>1 DEF Falling
<1>7. PICK d : Drains(W, E, G, done, d)
  BY <1>1 DEF Falling
<1>8. Drains(W, E, G, Outcome(done), d)
  BY <1>7 DEF Drains, Dammed, Outcome
<1> QED BY <1>5, <1>6, <1>8, DoneFits

-----------------------------------------------------------------------------
\* The tiles together have no more cells than the raster, so the labels that the
\* ranges of global labels have room for are fewer than BOUNDARY.
LEMMA OffsetsFit ==
  ASSUME NEW counts, \A r \in Ranks : counts[r] \in Nat /\ counts[r] <= Cardinality(Owned(r)),
         NEW r \in Ranks
  PROVE  /\ Offsets0(counts)[r] \in Nat \ {0}
         /\ Offsets0(counts)[r] + counts[r] <= Width * Height + 1
<1> DEFINE Before(t) == {s \in Ranks : s < t}
           Upto(t) == {c \in Cells : TileOf(c) < t}
           S(t) == SumFunctionOnSet(counts, Before(t))
           T == {t \in 0 .. ntiles : S(t) \in Nat /\ S(t) <= Cardinality(Upto(t))}
<1>1. ntiles \in Nat \ {0} /\ Ranks = 0 .. ntiles - 1
  BY BoundsAre DEF Ranks
<1>2. \A t : Upto(t) \subseteq Cells /\ IsFiniteSet(Upto(t)) /\ Cardinality(Upto(t)) \in Nat
             /\ Cardinality(Upto(t)) <= Width * Height
  <2> SUFFICES ASSUME NEW t
               PROVE  Upto(t) \subseteq Cells /\ IsFiniteSet(Upto(t)) /\ Cardinality(Upto(t)) \in Nat
                      /\ Cardinality(Upto(t)) <= Width * Height
    OBVIOUS
  <2>1. Upto(t) \subseteq Cells
    OBVIOUS
  <2>2. IsFiniteSet(Cells) /\ Cardinality(Cells) = Width * Height
    BY CellCount DEF CellTotal
  <2> HIDE DEF Upto
  <2> QED BY <2>1, <2>2, FS_Subset, FS_CardinalityType
<1>3. \A t : IsFiniteSet(Before(t))
  <2>1. IsFiniteSet(Ranks)
    BY <1>1, FS_Interval
  <2> QED BY <2>1, FS_Subset
<1>4. 0 \in T
  <2>1. Before(0) = {}
    BY <1>1
  <2>2. S(0) = 0
    BY <2>1, SumOfNone
  <2> HIDE DEF S, Upto
  <2> QED BY <1>1, <1>2, <2>2
<1>5. ASSUME NEW t \in Ranks, t \in T
      PROVE  S(t + 1) = counts[t] + S(t) /\ S(t + 1) \in Nat /\ S(t + 1) <= Cardinality(Upto(t + 1))
  <2>1. t \in Nat /\ t \notin Before(t) /\ Before(t + 1) = Before(t) \cup {t}
    BY <1>1
  <2>2. \A y \in Before(t) \cup {t} : counts[y] \in Int
    BY <2>1
  <2>3. S(t + 1) = counts[t] + S(t)
    <3> DEFINE L == Before(t)
    <3>1. IsFiniteSet(L)
      BY <1>3
    <3>2. Before(t + 1) = L \cup {t} /\ t \notin L /\ \A y \in L \cup {t} : counts[y] \in Int
      BY <2>1, <2>2
    <3> HIDE DEF L
    <3>3. SumFunctionOnSet(counts, L \cup {t}) = counts[t] + SumFunctionOnSet(counts, L)
      BY <3>1, <3>2, SumWith
    <3> QED BY <3>2, <3>3 DEF L
  <2>4. Upto(t + 1) = Upto(t) \cup Owned(t)
    <3>1. \A c \in Cells : TileOf(c) \in Ranks /\ TileOf(c) \in Nat
      BY <1>1, TileIs
    <3>2. \A c \in Cells : TileOf(c) < t + 1 <=> TileOf(c) < t \/ TileOf(c) = t
      BY <2>1, <3>1
    <3>3. \A c \in Cells : TileOf(c) = t <=> c \in Owned(t)
      BY TileIs
    <3>4. Owned(t) \subseteq Cells
      BY OwnedIs
    <3> QED BY <3>2, <3>3, <3>4
  <2>5. Upto(t) \cap Owned(t) = {}
    BY <1>1, TileIs
  <2>6. IsFiniteSet(Owned(t)) /\ Cardinality(Owned(t)) \in Nat
    BY OwnedIs, FS_CardinalityType
  <2>7. Cardinality(Upto(t + 1)) = Cardinality(Upto(t)) + Cardinality(Owned(t))
    <3> DEFINE A == Upto(t)
               B == Owned(t)
    <3>1. IsFiniteSet(A) /\ IsFiniteSet(B) /\ A \cap B = {} /\ Upto(t + 1) = A \cup B
          /\ Cardinality(A) \in Nat /\ Cardinality(B) \in Nat
      BY <1>2, <2>4, <2>5, <2>6
    <3> HIDE DEF A, B
    <3>2. Cardinality({}) = 0
      BY FS_EmptySet
    <3>3. Cardinality(A \cup B) = Cardinality(A) + Cardinality(B) - Cardinality(A \cap B)
      BY <3>1, FS_Union
    <3>4. Cardinality(Upto(t + 1)) = Cardinality(A) + Cardinality(B)
      <4> HIDE DEF Upto
      <4> QED BY <3>1, <3>2, <3>3
    <3> QED BY <3>4 DEF A, B
  <2>8. S(t) \in Nat /\ S(t) <= Cardinality(Upto(t)) /\ counts[t] \in Nat /\ counts[t] <= Cardinality(Owned(t))
        /\ Cardinality(Upto(t)) \in Nat
    BY <1>2, <1>5
  <2> HIDE DEF S, Upto
  <2> QED BY <2>3, <2>6, <2>7, <2>8
<1>6. 0 .. ntiles \subseteq T
  <2>1. ASSUME NEW t \in 0 .. ntiles - 1, t \in T PROVE t + 1 \in T
    <3>1. t \in Ranks /\ t + 1 \in 0 .. ntiles
      BY <1>1
    <3>2. S(t + 1) \in Nat /\ S(t + 1) <= Cardinality(Upto(t + 1))
      <4> HIDE DEF S, Upto, T
      <4> QED BY <1>5, <2>1, <3>1
    <3> HIDE DEF S, Upto
    <3> QED BY <3>1, <3>2
  <2> HIDE DEF T
  <2> QED BY <1>1, <1>4, <2>1, Upwards
<1>7. r \in 0 .. ntiles /\ r \in T
  <2>1. r \in 0 .. ntiles
    BY <1>1
  <2> HIDE DEF T
  <2> QED BY <1>6, <2>1
<1>8. S(r) \in Nat /\ S(r + 1) = counts[r] + S(r) /\ S(r + 1) <= Cardinality(Upto(r + 1))
  <2>1. S(r) \in Nat
    <3> HIDE DEF S, Upto
    <3> QED BY <1>7
  <2> HIDE DEF S, Upto, T
  <2> QED BY <1>5, <1>7, <2>1
<1>9. Offsets0(counts)[r] = 1 + S(r)
  <2>1. Offsets0(counts) = [t \in 0 .. ntiles |-> 1 + SumFunctionOnSet(counts, {s \in Ranks : s < t})]
    BY DEF Offsets0, MapThenSumSet, SumFunctionOnSet, FoldFunctionOnSet, MapThenFoldSet
  <2> QED BY <1>7, <2>1
<1>10. Cardinality(Upto(r + 1)) \in Nat /\ Cardinality(Upto(r + 1)) <= Width * Height /\ Width * Height \in Nat
  <2>1. Width * Height \in Nat
    BY CellCount DEF CellTotal
  <2> HIDE DEF Upto
  <2> QED BY <1>2, <2>1
<1> DEFINE o == Offsets0(counts)[r]
           m == Width * Height
           k == Cardinality(Upto(r + 1))
<1>11. o = 1 + S(r) /\ k \in Nat /\ k <= m /\ m \in Nat /\ counts[r] + S(r) <= k /\ counts[r] \in Nat /\ S(r) \in Nat
  <2> HIDE DEF S, Upto
  <2> QED BY <1>8, <1>9, <1>10
<1> HIDE DEF o, m, k, S
<1>12. o \in Nat \ {0} /\ o + counts[r] <= m + 1
  BY <1>11
<1> QED BY <1>12 DEF o, m
=============================================================================
