------------------------------ MODULE MCCkRing ------------------------------
(* CkRing for TLC, with a set of threads that are not preempted for ever.  *)
EXTENDS CkRing

CONSTANT Running     \* the threads the scheduler keeps running

ASSUME RunningAssumption == Running \subseteq Threads

FairSpec == Spec /\ FairFor(Running)

\* A dequeue never waits for another thread: it returns although a producer
\* was preempted between winning a ticket and publishing it.
DequeueNeverWaits ==
  \A t \in Running : pc[t] \in DequeuePoints ~> At(t, "idle")
=============================================================================
