------------------------------ MODULE MpiBackend ------------------------------
(***************************************************************************)
(* CommSend, CommRecv and CommShutdown of the MPI backend.  A send hands   *)
(* its buffer to the library and returns; the buffer must stay as it is    *)
(* until the library has completed the send, which it may do early or only *)
(* when the message is received.  A receive first probes for the size of   *)
(* the message and then asks for it in a second call.                      *)
(***************************************************************************)
EXTENDS Naturals, Sequences, SequencesExt

CONSTANTS
  Ranks,    \* the processes
  Tags,     \* the tags of the messages
  MaxSends  \* bound: messages a process sends

NoWish == <<>>

VARIABLES
  network,    \* the messages not received yet, by <<from, to, tag>>
  complete,   \* the messages whose send the library has completed
  g_pending,  \* per rank: the messages whose buffers are kept
  wish,       \* per rank: <<from, tag>> while it is in CommRecv
  probed,     \* per rank: the message MPI_Probe has found, in a sequence
  got,        \* per rank: what its last CommRecv returned
  down,       \* the ranks that have called CommShutdown
  sent,       \* history: how many messages each rank sent
  received    \* history: the messages that were received

mpiVars == <<network, complete, g_pending, probed, down>>
vars == <<mpiVars, wish, got, sent, received>>

Links == {k \in Ranks \X Ranks \X Tags : k[1] # k[2]}

InitMpi ==
  /\ network = [k \in Links |-> <<>>]
  /\ complete = {}
  /\ g_pending = [r \in Ranks |-> <<>>]
  /\ probed = [r \in Ranks |-> <<>>]
  /\ down = {}

Idle(r) == wish[r] = NoWish /\ r \notin down

CommSend(r, dest, tag) ==
  /\ Idle(r)
  /\ sent[r] < MaxSends
  /\ LET msg == <<r, sent[r] + 1>>
     IN  /\ network' = [network EXCEPT ![<<r, dest, tag>>] = Append(@, msg)]
         /\ g_pending' = [g_pending EXCEPT ![r] = Append(@, msg)]
  /\ sent' = [sent EXCEPT ![r] = @ + 1]
  /\ UNCHANGED <<complete, wish, probed, got, down, received>>

\* The library has copied a message that nobody has asked for yet.
CompleteEarly(k) ==
  /\ \E i \in DOMAIN network[k] :
       network[k][i] \notin complete /\ complete' = complete \cup {network[k][i]}
  /\ UNCHANGED <<network, g_pending, wish, probed, got, down, sent, received>>

CallRecv(r, from, tag) ==
  /\ Idle(r)
  /\ wish' = [wish EXCEPT ![r] = <<from, tag>>]
  /\ UNCHANGED <<mpiVars, got, sent, received>>

LinkOf(r) == <<wish[r][1], r, wish[r][2]>>

\* MPI_Probe has found a message; the buffer gets its size.
Probe(r) ==
  /\ wish[r] # NoWish /\ probed[r] = <<>>
  /\ network[LinkOf(r)] # <<>>
  /\ probed' = [probed EXCEPT ![r] = <<Head(network[LinkOf(r)])>>]
  /\ UNCHANGED <<network, complete, g_pending, wish, got, down, sent, received>>

\* MPI_Recv from the same sender with the same tag.
Recv(r) ==
  /\ probed[r] # <<>>
  /\ LET k == LinkOf(r)
     IN  /\ got' = [got EXCEPT ![r] = {Head(network[k])}]
         /\ complete' = complete \cup {Head(network[k])}
         /\ network' = [network EXCEPT ![k] = Tail(@)]
         /\ received' = received \cup {Head(network[k])}
  /\ probed' = [probed EXCEPT ![r] = <<>>]
  /\ wish' = [wish EXCEPT ![r] = NoWish]
  /\ UNCHANGED <<g_pending, down, sent>>

CallShutdown(r) ==
  /\ Idle(r)
  /\ down' = down \cup {r}
  /\ UNCHANGED <<network, complete, g_pending, wish, probed, got, sent, received>>

\* Fault: the buffers are freed without a wait.
FreeAtOnce(r) == TRUE

\* MPI_Wait on every send.
AllComplete(r) == ToSet(g_pending[r]) \subseteq complete

\* The buffers are freed.
EndShutdown(r) ==
  /\ r \in down /\ g_pending[r] # <<>>
  /\ AllComplete(r)
  /\ g_pending' = [g_pending EXCEPT ![r] = <<>>]
  /\ UNCHANGED <<network, complete, wish, probed, got, down, sent, received>>

\* No rank of the program sends to itself.
NextMpi ==
  \/ \E k \in Links : CompleteEarly(k)
  \/ \E r \in Ranks :
       \/ \E s \in Ranks \ {r}, tag \in Tags : CommSend(r, s, tag) \/ CallRecv(r, s, tag)
       \/ Probe(r) \/ Recv(r)
       \/ CallShutdown(r) \/ EndShutdown(r)

-----------------------------------------------------------------------------
Payloads == Ranks \X (1 .. MaxSends)

IsUnderWay(p) == \E k \in Links : \E i \in DOMAIN network[k] : network[k][i] = p

\* What was sent is either under way or received, and once only; the message that
\* MPI_Recv asks for is the one whose size MPI_Probe has told; and "each send's
\* serialized buffer is kept alive", after the call to CommShutdown too, until
\* the library has no more use for it.
SendsAreSafe ==
  /\ \A k, l \in Links : \A i \in DOMAIN network[k], j \in DOMAIN network[l] :
       network[k][i] = network[l][j] => k = l /\ i = j
  /\ \A p \in Payloads : p[2] <= sent[p[1]] <=> p \in received \/ IsUnderWay(p)
  /\ \A p \in received : p \in Payloads /\ ~ IsUnderWay(p)
  /\ \A r \in Ranks : probed[r] # <<>> => IsPrefix(probed[r], network[LinkOf(r)])
  /\ \A k \in Links : \A i \in DOMAIN network[k] :
       network[k][i] \in complete \cup ToSet(g_pending[k[1]])
=============================================================================
