------------------------------ MODULE Channels ------------------------------
(***************************************************************************)
(* What sending and receiving promise: one first-in first-out channel for  *)
(* every sender, receiver and tag.  A send returns at once; a receive      *)
(* names sender and tag and returns when that channel has a message.       *)
(***************************************************************************)
EXTENDS Naturals, Sequences

CONSTANTS Ranks, Tags, Payloads

NoWish == <<>>

VARIABLES
  chan,   \* the messages under way, by <<from, to, tag>>
  wish,   \* per rank: <<from, tag>> while it is in a receive
  got     \* per rank: what its last receive returned

vars == <<chan, wish, got>>

Init ==
  /\ chan = [k \in Ranks \X Ranks \X Tags |-> <<>>]
  /\ wish = [r \in Ranks |-> NoWish]
  /\ got = [r \in Ranks |-> {}]

Send(r, to, tag, payload) ==
  /\ wish[r] = NoWish
  /\ chan' = [chan EXCEPT ![<<r, to, tag>>] = Append(@, payload)]
  /\ UNCHANGED <<wish, got>>

Call(r, from, tag) ==
  /\ wish[r] = NoWish
  /\ wish' = [wish EXCEPT ![r] = <<from, tag>>]
  /\ UNCHANGED <<chan, got>>

Return(r) ==
  /\ wish[r] # NoWish
  /\ LET k == <<wish[r][1], r, wish[r][2]>>
     IN  /\ chan[k] # <<>>
         /\ chan' = [chan EXCEPT ![k] = Tail(@)]
         /\ got' = [got EXCEPT ![r] = {Head(chan[k])}]
  /\ wish' = [wish EXCEPT ![r] = NoWish]

Next ==
  \E r \in Ranks :
    \/ \E to \in Ranks, tag \in Tags, payload \in Payloads : Send(r, to, tag, payload)
    \/ \E from \in Ranks, tag \in Tags : Call(r, from, tag)
    \/ Return(r)

\* A receive whose message is there returns.
Spec == Init /\ [][Next]_vars /\ \A r \in Ranks : WF_vars(Return(r))
=============================================================================
