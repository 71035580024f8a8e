----------------------------- MODULE RingQueue -----------------------------
(***************************************************************************)
(* The promise of one bounded multi-producer multi-consumer ring to the    *)
(* threads that call ck_ring_enqueue_mpmc and ck_ring_dequeue_mpmc:        *)
(*                                                                         *)
(*   - an enqueue that returns true put its entry at the end of the ring,  *)
(*     in the order in which tickets were won, and returned only after     *)
(*     every earlier ticket was published;                                 *)
(*   - a dequeue that returns true took the oldest published entry, and    *)
(*     nobody else gets it;                                                *)
(*   - a call returns false only if the ring was full (enqueue) or had     *)
(*     nothing published (dequeue) at some moment while the call ran.      *)
(*                                                                         *)
(* CkRing is shown to implement this specification.                        *)
(***************************************************************************)
EXTENDS RingOps

CONSTANTS Threads,   \* the callers
          Values,    \* what an entry can be
          NoValue,   \* no entry
          Capacity   \* how many tickets the ring holds: size - 1

VARIABLES ring,      \* the ring, as in RingOps
          op,        \* op[t]: what t is doing
          arg,       \* arg[t]: the entry t is enqueueing
          mayFail,   \* mayFail[t]: t's call has seen the ring full (empty)
          ret        \* ret[t]: what t's last call returned

vars == <<ring, op, arg, mayFail, ret>>

Idle      == "idle"
Enqueuing == "enqueue"
Reserved  == "reserved"
Dequeuing == "dequeue"

NoReturn    == [ok |-> FALSE, val |-> NoValue]
Returned(v) == [ok |-> TRUE,  val |-> v]

Init ==
  /\ ring = EmptyRing
  /\ op = [t \in Threads |-> Idle]
  /\ arg = [t \in Threads |-> NoValue]
  /\ mayFail = [t \in Threads |-> FALSE]
  /\ ret = [t \in Threads |-> NoReturn]

----------------------------------------------------------------------------
BeginEnqueue(t, v) ==
  /\ op[t] = Idle
  /\ op' = [op EXCEPT ![t] = Enqueuing]
  /\ arg' = [arg EXCEPT ![t] = v]
  /\ mayFail' = [mayFail EXCEPT ![t] = RingFull(ring, Capacity)]
  /\ ret' = [ret EXCEPT ![t] = NoReturn]
  /\ UNCHANGED ring

\* Winning a ticket; the last free ticket makes the ring full for the others.
Reserve(t) ==
  /\ op[t] = Enqueuing
  /\ ~ RingFull(ring, Capacity)
  /\ ring' = ReserveTicket(ring, t, arg[t])
  /\ op' = [op EXCEPT ![t] = Reserved]
  /\ mayFail' = [u \in Threads |->
                   /\ u # t
                   /\ mayFail[u] \/ (op[u] = Enqueuing /\ RingFull(ring', Capacity))]
  /\ UNCHANGED <<arg, ret>>

Publish(t) ==
  /\ op[t] = Reserved
  /\ MayPublish(ring, t)
  /\ ring' = PublishTicket(ring)
  /\ op' = [op EXCEPT ![t] = Idle]
  /\ arg' = [arg EXCEPT ![t] = NoValue]
  /\ ret' = [ret EXCEPT ![t] = Returned(NoValue)]
  /\ UNCHANGED mayFail

RejectFull(t) ==
  /\ op[t] = Enqueuing
  /\ mayFail[t]
  /\ op' = [op EXCEPT ![t] = Idle]
  /\ arg' = [arg EXCEPT ![t] = NoValue]
  /\ mayFail' = [mayFail EXCEPT ![t] = FALSE]
  /\ UNCHANGED <<ring, ret>>

BeginDequeue(t) ==
  /\ op[t] = Idle
  /\ op' = [op EXCEPT ![t] = Dequeuing]
  /\ mayFail' = [mayFail EXCEPT ![t] = RingEmpty(ring)]
  /\ ret' = [ret EXCEPT ![t] = NoReturn]
  /\ UNCHANGED <<ring, arg>>

Take(t) ==
  /\ op[t] = Dequeuing
  /\ ~ RingEmpty(ring)
  /\ ring' = TakeHead(ring)
  /\ op' = [op EXCEPT ![t] = Idle]
  /\ mayFail' = [u \in Threads |->
                   /\ u # t
                   /\ mayFail[u] \/ (op[u] = Dequeuing /\ RingEmpty(ring'))]
  /\ ret' = [ret EXCEPT ![t] = Returned(Head(ring.queue))]
  /\ UNCHANGED arg

RejectEmpty(t) ==
  /\ op[t] = Dequeuing
  /\ mayFail[t]
  /\ op' = [op EXCEPT ![t] = Idle]
  /\ mayFail' = [mayFail EXCEPT ![t] = FALSE]
  /\ UNCHANGED <<ring, arg, ret>>

Next ==
  \E t \in Threads :
    \/ \E v \in Values : BeginEnqueue(t, v)
    \/ Reserve(t)
    \/ Publish(t)
    \/ RejectFull(t)
    \/ BeginDequeue(t)
    \/ Take(t)
    \/ RejectEmpty(t)

Spec == Init /\ [][Next]_vars
=============================================================================
