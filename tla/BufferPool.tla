----------------------------- MODULE BufferPool -----------------------------
(***************************************************************************)
(* What eg_mempool promises to those who use its buffers: the buffer       *)
(* eg_mempool_get returns is nobody else's until it is given back, and     *)
(* giving one back ends the program only if more buffers than a ring holds *)
(* were in use at once. A buffer is in use from the ring call in           *)
(* eg_mempool_get to the end of the ring call that gives it back.          *)
(*                                                                         *)
(* EgMempool is shown to implement this specification; EgLog is built on   *)
(* its actions.                                                            *)
(***************************************************************************)
EXTENDS Naturals, FiniteSets

CONSTANTS Blocks,    \* the buffers
          Capacity   \* how many buffers one ring holds

VARIABLES users,     \* users[b]: how many use buffer b
          most,      \* the most buffers that were in use at once
          up         \* no buffer was passed to free

Busy == {b \in Blocks : users[b] # 0}

Init ==
  /\ users = [b \in Blocks |-> 0]
  /\ most = 0
  /\ up = TRUE

\* eg_mempool_get: a pooled buffer or a new one
Get(b) ==
  /\ up
  /\ users[b] = 0
  /\ users' = [users EXCEPT ![b] = 1]
  /\ most' = IF Cardinality(Busy') > most THEN Cardinality(Busy') ELSE most
  /\ UNCHANGED up

\* eg_mempool_reclaim, eg_mempool_reclaim_ex
GiveBack(b) ==
  /\ up
  /\ users[b] = 1
  /\ users' = [users EXCEPT ![b] = 0]
  /\ UNCHANGED <<most, up>>

\* The same, into a ring that is full: the buffer is passed to free, which
\* never returned that pointer.
Overflow(b) ==
  /\ up
  /\ users[b] = 1
  /\ most > Capacity
  /\ up' = FALSE
  /\ UNCHANGED <<users, most>>

Next == \E b \in Blocks : Get(b) \/ GiveBack(b) \/ Overflow(b)

Spec == Init /\ [][Next]_<<users, most, up>>
=============================================================================
