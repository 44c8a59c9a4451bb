----------------------------- MODULE CommBarrier -----------------------------
(***************************************************************************)
(* CommBarrier of the thread backend: a counter and an epoch, each an      *)
(* atomic of its own.  A rank reads the epoch, adds itself to the counter  *)
(* and, if it is the last one, resets the counter and opens the next epoch *)
(* in two further steps; the others spin on the epoch.  A fast rank may be *)
(* back at the barrier while slow ones still spin on the last one.         *)
(***************************************************************************)
EXTENDS Naturals, FiniteSets

CONSTANTS
  ThreadRanks,  \* the thread-ranks
  MaxEpochs     \* bound: how often a rank comes to the barrier

ASSUME ThreadRanksAssumption == IsFiniteSet(ThreadRanks) /\ ThreadRanks # {}
ASSUME EpochsAssumption == MaxEpochs \in Nat

VARIABLES
  g_barrier,  \* the ranks counted in this epoch
  g_epoch,
  pc,         \* per rank: "out", "entered", "spin", "last" or "reset"
  e,          \* per rank: the epoch it read on entry
  arrived,    \* history: how often each rank was counted
  passed      \* history: how often each rank returned

barrierVars == <<g_barrier, g_epoch, pc, e, arrived, passed>>

g_size == Cardinality(ThreadRanks)

InitBarrier ==
  /\ g_barrier = 0
  /\ g_epoch = 0
  /\ pc = [r \in ThreadRanks |-> "out"]
  /\ e = [r \in ThreadRanks |-> 0]
  /\ arrived = [r \in ThreadRanks |-> 0]
  /\ passed = [r \in ThreadRanks |-> 0]

\* const int e = g_epoch.load()
Enter(r) ==
  /\ pc[r] = "out"
  /\ passed[r] < MaxEpochs
  /\ pc' = [pc EXCEPT ![r] = "entered"]
  /\ e' = [e EXCEPT ![r] = g_epoch]
  /\ UNCHANGED <<g_barrier, g_epoch, arrived, passed>>

\* Fault: the counter is compared before it is incremented.
CountOneEarly(r) ==
  /\ pc[r] = "entered"
  /\ g_barrier' = g_barrier + 1
  /\ pc' = [pc EXCEPT ![r] = IF g_barrier + 2 = g_size THEN "last" ELSE "spin"]
  /\ arrived' = [arrived EXCEPT ![r] = @ + 1]
  /\ UNCHANGED <<g_epoch, e, passed>>

\* g_barrier.fetch_add(1) + 1 == g_size
Count(r) ==
  /\ pc[r] = "entered"
  /\ g_barrier' = g_barrier + 1
  /\ pc' = [pc EXCEPT ![r] = IF g_barrier + 1 = g_size THEN "last" ELSE "spin"]
  /\ arrived' = [arrived EXCEPT ![r] = @ + 1]
  /\ UNCHANGED <<g_epoch, e, passed>>

\* Fault: the counter keeps the ranks of this epoch.
ResetNothing(r) ==
  /\ pc[r] = "last"
  /\ pc' = [pc EXCEPT ![r] = "reset"]
  /\ UNCHANGED <<g_barrier, g_epoch, e, arrived, passed>>

\* g_barrier.store(0)
Reset(r) ==
  /\ pc[r] = "last"
  /\ g_barrier' = 0
  /\ pc' = [pc EXCEPT ![r] = "reset"]
  /\ UNCHANGED <<g_epoch, e, arrived, passed>>

\* g_epoch.fetch_add(1), and return
Open(r) ==
  /\ pc[r] = "reset"
  /\ g_epoch' = g_epoch + 1
  /\ pc' = [pc EXCEPT ![r] = "out"]
  /\ passed' = [passed EXCEPT ![r] = @ + 1]
  /\ UNCHANGED <<g_barrier, e, arrived>>

\* Fault: the epoch is opened before the counter is reset.
CloseBackwards(r) ==
  \/ /\ pc[r] = "last"
     /\ g_epoch' = g_epoch + 1
     /\ pc' = [pc EXCEPT ![r] = "reset"]
     /\ UNCHANGED <<g_barrier, e, arrived, passed>>
  \/ /\ pc[r] = "reset"
     /\ g_barrier' = 0
     /\ pc' = [pc EXCEPT ![r] = "out"]
     /\ passed' = [passed EXCEPT ![r] = @ + 1]
     /\ UNCHANGED <<g_epoch, e, arrived>>

Close(r) == Reset(r) \/ Open(r)

\* The load that ends the spinning; those before it change nothing.
Leave(r) ==
  /\ pc[r] = "spin"
  /\ g_epoch # e[r]
  /\ pc' = [pc EXCEPT ![r] = "out"]
  /\ passed' = [passed EXCEPT ![r] = @ + 1]
  /\ UNCHANGED <<g_barrier, g_epoch, e, arrived>>

Inside(r) == Count(r) \/ Close(r) \/ Leave(r)

NextBarrier == \E r \in ThreadRanks : Enter(r) \/ Inside(r)

SafeBarrierSpec == InitBarrier /\ [][NextBarrier]_barrierVars

\* Every thread that is inside the barrier is run again and again; whether it
\* comes back to the barrier is its caller's business.
BarrierSpec == SafeBarrierSpec /\ \A r \in ThreadRanks : WF_barrierVars(Inside(r))

-----------------------------------------------------------------------------
TypeOK ==
  /\ g_barrier \in 0 .. g_size
  /\ g_epoch \in Nat
  /\ pc \in [ThreadRanks -> {"out", "entered", "spin", "last", "reset"}]
  /\ e \in [ThreadRanks -> Nat]
  /\ arrived \in [ThreadRanks -> Nat]
  /\ passed \in [ThreadRanks -> Nat]

\* The ranks that spin until the epoch changes, and those whose epoch has
\* changed but who have not looked yet.
Spinning == {r \in ThreadRanks : pc[r] = "spin" /\ e[r] = g_epoch}
Released(r) == pc[r] = "spin" /\ e[r] + 1 = g_epoch
Closing(r) == pc[r] \in {"last", "reset"}

\* At any moment the counter agrees with the ranks of the current epoch: with
\* nobody closing it, it counts those that wait, and is short of them all;
\* whoever closes it does so alone, with everybody else waiting.  No rank is
\* more than one epoch behind.
CounterMatchesWaiting ==
  /\ (\A r \in ThreadRanks : ~ Closing(r)) => g_barrier = Cardinality(Spinning)
  /\ g_barrier = g_size <=> \E r \in ThreadRanks : pc[r] = "last"
  /\ \A r \in ThreadRanks : Closing(r) => /\ e[r] = g_epoch
                                          /\ Spinning = ThreadRanks \ {r}
                                          /\ pc[r] = "reset" => g_barrier = 0
  /\ \A r \in ThreadRanks : pc[r] = "entered" => e[r] = g_epoch
  /\ \A r \in ThreadRanks : pc[r] = "spin" => r \in Spinning \/ Released(r)

\* No rank returns from the barrier for the k-th time before every rank has
\* come to it k times: what the stages of the driver that start with a
\* CommBarrier rely on.
NobodyPassesEarly == \A r, s \in ThreadRanks : passed[r] <= arrived[s]

\* The barrier keeps its promise; this includes that whoever may pass does.
AbstractBarrier == INSTANCE Barrier WITH Ranks <- ThreadRanks
KeepsBarrier == AbstractBarrier!Spec
KeepsSafeBarrier == AbstractBarrier!SafeSpec
=============================================================================
