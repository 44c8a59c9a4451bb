----------------------------- MODULE CommMailbox -----------------------------
(***************************************************************************)
(* CommSend and CommRecv of the thread backend: one inbox per rank, into   *)
(* which every sender appends under a mutex, and from which a receiver     *)
(* takes the first message with the sender and tag it waits for, whatever  *)
(* has piled up before it.  Each pass over an inbox is one step, as it     *)
(* holds the mutex; a pass that finds nothing is repeated.                 *)
(***************************************************************************)
EXTENDS Naturals, Sequences, SequencesExt, FiniteSetsExt

CONSTANTS
  Ranks,    \* the thread-ranks
  Tags,     \* the tags of the messages
  MaxSends  \* bound: messages a rank sends

NoWish == <<>>

VARIABLES
  g_queues,  \* the inbox of each rank
  wish,      \* per rank: <<from, tag>> while it is in CommRecv
  got,       \* per rank: what its last CommRecv returned
  sent,      \* history: how many messages each rank sent
  received   \* history: the messages that were received

vars == <<g_queues, wish, got, sent, received>>

\* A payload is told apart by its sender and number.
Payloads == Ranks \X (1 .. MaxSends)

Init ==
  /\ g_queues = [r \in Ranks |-> <<>>]
  /\ wish = [r \in Ranks |-> NoWish]
  /\ got = [r \in Ranks |-> {}]
  /\ sent = [r \in Ranks |-> 0]
  /\ received = {}

CommSend(r, dest, tag) ==
  /\ wish[r] = NoWish
  /\ sent[r] < MaxSends
  /\ LET msg == [tag |-> tag, from |-> r, bytes |-> <<r, sent[r] + 1>>]
     IN  g_queues' = [g_queues EXCEPT ![dest] = Append(@, msg)]
  /\ sent' = [sent EXCEPT ![r] = @ + 1]
  /\ UNCHANGED <<wish, got, received>>

\* CommRecv is called.
CallRecv(r, from, tag) ==
  /\ wish[r] = NoWish
  /\ wish' = [wish EXCEPT ![r] = <<from, tag>>]
  /\ UNCHANGED <<g_queues, got, sent, received>>

\* Fault: the tag is not looked at.
MatchesFrom(r) == {i \in DOMAIN g_queues[r] : g_queues[r][i].from = wish[r][1]}

\* The messages `it` stops at.
Matches(r) ==
  {i \in DOMAIN g_queues[r] :
     g_queues[r][i].from = wish[r][1] /\ g_queues[r][i].tag = wish[r][2]}

TakeFirst(r) ==
  LET i == Min(Matches(r))
  IN  /\ got' = [got EXCEPT ![r] = {g_queues[r][i].bytes}]
      /\ g_queues' = [g_queues EXCEPT ![r] = RemoveAt(@, i)]
      /\ received' = received \cup {g_queues[r][i].bytes}

\* The pass of CommRecv that finds a message.
CommRecv(r) ==
  /\ wish[r] # NoWish
  /\ Matches(r) # {}
  /\ TakeFirst(r)
  /\ wish' = [wish EXCEPT ![r] = NoWish]
  /\ UNCHANGED sent

Next ==
  \E r \in Ranks :
    \/ \E dest \in Ranks, tag \in Tags : CommSend(r, dest, tag)
    \/ \E from \in Ranks, tag \in Tags : CallRecv(r, from, tag)
    \/ CommRecv(r)

-----------------------------------------------------------------------------
Messages == [tag : Tags, from : Ranks, bytes : Payloads]

IsQueued(p) == \E r \in Ranks : \E i \in DOMAIN g_queues[r] : g_queues[r][i].bytes = p

\* The inboxes hold messages as CommSend builds them, each payload is in one
\* inbox at most and once at most, and what was sent is either queued or
\* received: the mutex loses and doubles nothing.
MessagesAreConserved ==
  /\ \A r \in Ranks : g_queues[r] \in Seq(Messages)
  /\ \A r, s \in Ranks : \A i \in DOMAIN g_queues[r], j \in DOMAIN g_queues[s] :
       g_queues[r][i].bytes = g_queues[s][j].bytes => r = s /\ i = j
  /\ \A p \in Payloads : p[2] <= sent[p[1]] <=> p \in received \/ IsQueued(p)
  /\ \A p \in received : p \in Payloads /\ ~ IsQueued(p)

\* The messages of one sender with one tag, in a queue.
Gathered(q, from, tag) ==
  LET upTo[n \in 0 .. Len(q)] ==
        IF n = 0 THEN <<>>
        ELSE IF q[n].from = from /\ q[n].tag = tag THEN Append(upTo[n - 1], q[n].bytes)
        ELSE upTo[n - 1]
  IN  upTo[Len(q)]

Under(from, to, tag) == Gathered(g_queues[to], from, tag)
=============================================================================
