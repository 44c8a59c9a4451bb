------------------------------ MODULE MCBackends ------------------------------
(***************************************************************************)
(* The two backends of the message passing behind one promise: a run uses  *)
(* the threads of one process or the processes of MPI.                     *)
(***************************************************************************)
EXTENDS Naturals, Sequences, FiniteSetsExt

CONSTANTS
  Ranks,
  Tags,
  ThreadSends,  \* bound: messages a thread sends
  MpiSends      \* bound: messages a process sends

ASSUME SendsAssumption == ThreadSends \in Nat /\ MpiSends \in Nat

VARIABLES
  backend,  \* "threads" or "mpi"
  g_queues, network, complete, g_pending, probed, down, wish, got, sent, received

Threads == INSTANCE CommMailbox WITH MaxSends <- ThreadSends
Mpi == INSTANCE MpiBackend WITH MaxSends <- MpiSends

mpiVars == <<network, complete, g_pending, probed, down>>
vars == <<backend, g_queues, mpiVars, wish, got, sent, received>>

Init ==
  /\ backend \in {"threads", "mpi"}
  /\ Threads!Init
  /\ Mpi!InitMpi

ThreadStep == backend = "threads" /\ Threads!Next /\ UNCHANGED <<backend, mpiVars>>
MpiStep == backend = "mpi" /\ Mpi!NextMpi /\ UNCHANGED <<backend, g_queues>>

Next == ThreadStep \/ MpiStep

\* A receiver that waits looks again; the library finds what has arrived and
\* hands it over.
Returns(r) ==
  \/ backend = "threads" /\ Threads!CommRecv(r) /\ UNCHANGED <<backend, mpiVars>>
  \/ backend = "mpi" /\ (Mpi!Probe(r) \/ Mpi!Recv(r)) /\ UNCHANGED <<backend, g_queues>>

Spec == Init /\ [][Next]_vars /\ \A r \in Ranks : WF_vars(Returns(r))

-----------------------------------------------------------------------------
\* Whichever backend it is, no message is lost or doubled, and no buffer is
\* given up that is still needed.
MessagesAreConserved ==
  IF backend = "threads" THEN Threads!MessagesAreConserved ELSE Mpi!SendsAreSafe

\* The channels that the messages under way are in.
Chan ==
  [k \in Ranks \X Ranks \X Tags |->
     IF backend = "threads" THEN Threads!Under(k[1], k[2], k[3])
     ELSE IF k[1] = k[2] THEN <<>> ELSE network[k]]

\* "The harness compiles to a cluster build with the algorithm code unchanged":
\* an inbox shared by all senders and tags is as good as a channel of its own
\* for each, and so are probing and receiving.  Nothing is overtaken within a
\* channel, nothing that waits in one holds up another, and a receive whose
\* message is there returns.
Promise == INSTANCE Channels WITH
  Payloads <- Ranks \X (1 .. Max({ThreadSends, MpiSends})), chan <- Chan
KeepsChannels == Promise!Spec
=============================================================================
