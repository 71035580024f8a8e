------------------------------- MODULE CkRing -------------------------------
(***************************************************************************)
(* The multi-producer multi-consumer operations of ck_ring.h, one step per *)
(* access to shared memory: _ck_ring_enqueue_mp and _ck_ring_dequeue_mc,   *)
(* the bodies of every ring call made by eg_cklog, eg_log, eg_log2 and     *)
(* eg_mempool.                                                             *)
(*                                                                         *)
(* The counters c_head, p_tail and p_head are unsigned and wrap at UMod    *)
(* (2^32 in the code). The model keeps their unwrapped values, so that     *)
(* "how far ahead" has a meaning, and makes every comparison, subtraction  *)
(* and CAS of the code on the wrapped ones. A thread that sleeps while the *)
(* ring turns through all of UMod cannot be told from one that has not     *)
(* slept, so the model lets the ring advance only while every snapshot is  *)
(* less than a turn old (WithinLap). Memory is sequentially consistent:    *)
(* the fences of the code order exactly the accesses modelled here.        *)
(***************************************************************************)
EXTENDS Integers, Sequences

CONSTANTS Threads,   \* the threads that use the ring
          Values,    \* the entries they put into it
          NoValue,   \* memory nobody has written, no entry
          Size,      \* ck_ring_init's size
          UMod,      \* one past UINT_MAX
          MaxCalls   \* bound: how many ring calls are made in all

ASSUME SizeAssumption == Size \in Nat /\ Size >= 2
\* Both are powers of two, the ring is at most half of the counters' range.
ASSUME UModAssumption == UMod \in Nat /\ UMod >= 2 * Size /\ UMod % Size = 0
ASSUME MaxCallsAssumption == MaxCalls \in Nat
ASSUME NoValueAssumption == NoValue \notin Values

VARIABLES c_head,    \* struct ck_ring
          p_tail,
          p_head,
          slot,      \* the ck_ring_buffer array
          pc,        \* pc[t]: the next shared access of t
          producer,  \* producer[t]: t's snapshot of p_head, then its ticket
          consumer,  \* consumer[t]: t's snapshot of c_head
          data,      \* data[t]: the entry t enqueues, or the copy it dequeues
          ret,       \* ret[t]: what t's last call returned
          calls,     \* how many calls were made
          mayFail    \* history: t's call has seen the ring full (empty)

ring == <<c_head, p_tail, p_head, slot>>
locals == <<pc, producer, consumer, data>>
vars == <<ring, locals, ret, calls, mayFail>>

mask == Size - 1

Index(n) == n % Size            \* n & mask: wrapping does not change it
SameUint(a, b) == a % UMod = b % UMod
UintDiff(a, b) == (a - b) % UMod

EnqueueSearch == {"enq_load_c_head", "enq_cas_p_head", "enq_reload_p_head"}
EnqueueOwner  == {"enq_write_slot", "enq_wait_p_tail", "enq_store_p_tail"}
DequeuePoints == {"deq_load_p_tail", "deq_read_slot", "deq_cas_c_head"}
ControlPoints == {"idle"} \cup EnqueueSearch \cup EnqueueOwner \cup DequeuePoints

NoReturn    == [ok |-> FALSE, val |-> NoValue]
Returned(v) == [ok |-> TRUE,  val |-> v]

Full(c, p)  == p - c >= mask    \* of c_head and p_head
Empty(c, p) == p = c            \* of c_head and p_tail

\* Every snapshot is less than a turn of the counters behind head.
WithinLap(head) ==
  \A u \in Threads :
    /\ pc[u] \in EnqueueSearch => head - producer[u] <= UMod - mask
    /\ pc[u] \in DequeuePoints => head - consumer[u] <= UMod - mask

\* Mutant of Init: the buffer has one slot less than the ring uses.
BufferTooSmall ==
  /\ c_head = 0 /\ p_tail = 0 /\ p_head = 0
  /\ slot = [i \in 0 .. mask - 1 |-> NoValue]
  /\ pc = [t \in Threads |-> "idle"]
  /\ producer = [t \in Threads |-> 0]
  /\ consumer = [t \in Threads |-> 0]
  /\ data = [t \in Threads |-> NoValue]
  /\ ret = [t \in Threads |-> NoReturn]
  /\ calls = 0
  /\ mayFail = [t \in Threads |-> FALSE]

\* ck_ring_init
Init ==
  /\ c_head = 0 /\ p_tail = 0 /\ p_head = 0
  /\ slot = [i \in 0 .. mask |-> NoValue]
  /\ pc = [t \in Threads |-> "idle"]
  /\ producer = [t \in Threads |-> 0]
  /\ consumer = [t \in Threads |-> 0]
  /\ data = [t \in Threads |-> NoValue]
  /\ ret = [t \in Threads |-> NoReturn]
  /\ calls = 0
  /\ mayFail = [t \in Threads |-> FALSE]

At(t, point) == pc[t] = point
Goto(t, point) == pc' = [pc EXCEPT ![t] = point]

\* A call returns; its locals are dead.
Leave(t, r) ==
  /\ Goto(t, "idle")
  /\ producer' = [producer EXCEPT ![t] = 0]
  /\ consumer' = [consumer EXCEPT ![t] = 0]
  /\ data' = [data EXCEPT ![t] = NoValue]
  /\ ret' = [ret EXCEPT ![t] = r]

\* A call begins.
Enter(t, point, full) ==
  /\ At(t, "idle")
  /\ calls < MaxCalls
  /\ calls' = calls + 1
  /\ Goto(t, point)
  /\ ret' = [ret EXCEPT ![t] = NoReturn]
  /\ mayFail' = [mayFail EXCEPT ![t] = full]
  /\ UNCHANGED ring

----------------------------------------------------------------------------
(* _ck_ring_enqueue_mp *)

EnqueueCall(t, v) ==
  /\ Enter(t, "enq_load_c_head", Full(c_head, p_head))
  /\ producer' = [producer EXCEPT ![t] = p_head]
  /\ data' = [data EXCEPT ![t] = v]
  /\ UNCHANGED consumer

HasRoom(t) == UintDiff(producer[t], c_head) < mask

EnqueueLoadCHead(t) ==
  /\ At(t, "enq_load_c_head")
  /\ Goto(t, IF HasRoom(t) THEN "enq_cas_p_head" ELSE "enq_reload_p_head")
  /\ UNCHANGED <<ring, producer, consumer, data, ret, calls, mayFail>>

EnqueueCasWins(t) ==
  /\ At(t, "enq_cas_p_head")
  /\ SameUint(p_head, producer[t])
  /\ WithinLap(p_head + 1)
  /\ p_head' = p_head + 1
  /\ producer' = [producer EXCEPT ![t] = p_head]
  /\ Goto(t, "enq_write_slot")
  /\ mayFail' = [u \in Threads |->
                   /\ u # t
                   /\ mayFail[u] \/ (pc[u] \in EnqueueSearch /\ Full(c_head, p_head'))]
  /\ UNCHANGED <<c_head, p_tail, slot, consumer, data, ret, calls>>

EnqueueCasLoses(t) ==
  /\ At(t, "enq_cas_p_head")
  /\ ~ SameUint(p_head, producer[t])
  /\ producer' = [producer EXCEPT ![t] = p_head]
  /\ Goto(t, "enq_load_c_head")
  /\ UNCHANGED <<ring, consumer, data, ret, calls, mayFail>>

\* Mutant of EnqueueFails: fails on the stale snapshot, without the reload.
FailsOnStaleSnapshot(t) ==
  /\ At(t, "enq_reload_p_head")
  /\ Leave(t, NoReturn)
  /\ mayFail' = [mayFail EXCEPT ![t] = FALSE]
  /\ UNCHANGED <<ring, calls>>

\* No progress since the snapshot: the call fails.
EnqueueFails(t) ==
  /\ At(t, "enq_reload_p_head")
  /\ SameUint(p_head, producer[t])
  /\ Leave(t, NoReturn)
  /\ mayFail' = [mayFail EXCEPT ![t] = FALSE]
  /\ UNCHANGED <<ring, calls>>

EnqueueRetries(t) ==
  /\ At(t, "enq_reload_p_head")
  /\ ~ SameUint(p_head, producer[t])
  /\ producer' = [producer EXCEPT ![t] = p_head]
  /\ Goto(t, "enq_load_c_head")
  /\ UNCHANGED <<ring, consumer, data, ret, calls, mayFail>>

EnqueueWriteSlot(t) ==
  /\ At(t, "enq_write_slot")
  /\ slot' = [slot EXCEPT ![Index(producer[t])] = data[t]]
  /\ Goto(t, "enq_wait_p_tail")
  /\ UNCHANGED <<c_head, p_tail, p_head, producer, consumer, data, ret, calls, mayFail>>

\* Mutant of EnqueueMyTurn: publishes without waiting for earlier tickets.
NoWaitForEarlier(t) ==
  /\ At(t, "enq_wait_p_tail")
  /\ Goto(t, "enq_store_p_tail")
  /\ UNCHANGED <<ring, producer, consumer, data, ret, calls, mayFail>>

\* The spin loop lets t through once every earlier ticket is published.
EnqueueMyTurn(t) ==
  /\ At(t, "enq_wait_p_tail")
  /\ SameUint(p_tail, producer[t])
  /\ Goto(t, "enq_store_p_tail")
  /\ UNCHANGED <<ring, producer, consumer, data, ret, calls, mayFail>>

\* Mutant of EnqueueStorePTail: stores the ticket itself, not the next one.
StoresOwnTicket(t) ==
  /\ At(t, "enq_store_p_tail")
  /\ p_tail' = producer[t]
  /\ Leave(t, Returned(NoValue))
  /\ UNCHANGED <<c_head, p_head, slot, calls, mayFail>>

EnqueueStorePTail(t) ==
  /\ At(t, "enq_store_p_tail")
  /\ p_tail' = producer[t] + 1
  /\ Leave(t, Returned(NoValue))
  /\ UNCHANGED <<c_head, p_head, slot, calls, mayFail>>

----------------------------------------------------------------------------
(* _ck_ring_dequeue_mc *)

DequeueCall(t) ==
  /\ Enter(t, "deq_load_p_tail", Empty(c_head, p_tail))
  /\ consumer' = [consumer EXCEPT ![t] = c_head]
  /\ UNCHANGED <<producer, data>>

\* Mutant of DequeueFails: gives up only when no ticket is pending either.
WaitsForPending(t) ==
  /\ At(t, "deq_load_p_tail")
  /\ SameUint(consumer[t], p_tail) /\ SameUint(consumer[t], p_head)
  /\ Leave(t, NoReturn)
  /\ mayFail' = [mayFail EXCEPT ![t] = FALSE]
  /\ UNCHANGED <<ring, calls>>

DequeueFails(t) ==
  /\ At(t, "deq_load_p_tail")
  /\ SameUint(consumer[t], p_tail)
  /\ Leave(t, NoReturn)
  /\ mayFail' = [mayFail EXCEPT ![t] = FALSE]
  /\ UNCHANGED <<ring, calls>>

DequeueLoadPTail(t) ==
  /\ At(t, "deq_load_p_tail")
  /\ ~ SameUint(consumer[t], p_tail)
  /\ Goto(t, "deq_read_slot")
  /\ UNCHANGED <<ring, producer, consumer, data, ret, calls, mayFail>>

\* The copy may be of a slot another consumer has taken and a producer
\* refills: it counts only if the CAS that follows succeeds.
DequeueReadSlot(t) ==
  /\ At(t, "deq_read_slot")
  /\ data' = [data EXCEPT ![t] = slot[Index(consumer[t])]]
  /\ Goto(t, "deq_cas_c_head")
  /\ UNCHANGED <<ring, producer, consumer, ret, calls, mayFail>>

DequeueCasWins(t) ==
  /\ At(t, "deq_cas_c_head")
  /\ SameUint(c_head, consumer[t])
  /\ c_head' = c_head + 1
  /\ Leave(t, Returned(data[t]))
  /\ mayFail' = [u \in Threads |->
                   /\ u # t
                   /\ mayFail[u] \/ (pc[u] \in DequeuePoints /\ Empty(c_head', p_tail))]
  /\ UNCHANGED <<p_tail, p_head, slot, calls>>

\* Mutant of DequeueCasLoses: retries the CAS with the copy it already has.
KeepsOldCopy(t) ==
  /\ At(t, "deq_cas_c_head")
  /\ ~ SameUint(c_head, consumer[t])
  /\ consumer' = [consumer EXCEPT ![t] = c_head]
  /\ UNCHANGED <<ring, pc, producer, data, ret, calls, mayFail>>

DequeueCasLoses(t) ==
  /\ At(t, "deq_cas_c_head")
  /\ ~ SameUint(c_head, consumer[t])
  /\ consumer' = [consumer EXCEPT ![t] = c_head]
  /\ Goto(t, "deq_load_p_tail")
  /\ UNCHANGED <<ring, producer, data, ret, calls, mayFail>>

----------------------------------------------------------------------------
EnqueueStep(t) ==
  \/ EnqueueLoadCHead(t)
  \/ EnqueueCasWins(t) \/ EnqueueCasLoses(t)
  \/ EnqueueFails(t)   \/ EnqueueRetries(t)
  \/ EnqueueWriteSlot(t) \/ EnqueueMyTurn(t) \/ EnqueueStorePTail(t)

DequeueStep(t) ==
  \/ DequeueFails(t) \/ DequeueLoadPTail(t)
  \/ DequeueReadSlot(t)
  \/ DequeueCasWins(t) \/ DequeueCasLoses(t)

Step(t) == EnqueueStep(t) \/ DequeueStep(t)

Call(t) == DequeueCall(t) \/ \E v \in Values : EnqueueCall(t, v)

Next == \E t \in Threads : Call(t) \/ Step(t)

Spec == Init /\ [][Next]_vars
----------------------------------------------------------------------------
(* The abstract ring this implements. *)

\* The thread that owns ticket n, while n is not published.
Owner(n) == CHOOSE t \in Threads : pc[t] \in EnqueueOwner /\ producer[t] = n

\* The entries of the published tickets, and the tickets after them.
Published == [i \in 1 .. p_tail - c_head |-> slot[Index(c_head + i - 1)]]
Won ==
  [i \in 1 .. p_head - p_tail |->
     [by |-> Owner(p_tail + i - 1), val |-> data[Owner(p_tail + i - 1)]]]

OperationAt(point) ==
  CASE point = "idle" -> "idle"
    [] point \in EnqueueSearch -> "enqueue"
    [] point \in EnqueueOwner -> "reserved"
    [] point \in DequeuePoints -> "dequeue"

Operation == [t \in Threads |-> OperationAt(pc[t])]
Argument ==
  [t \in Threads |-> IF pc[t] \in EnqueueSearch \cup EnqueueOwner THEN data[t] ELSE NoValue]

RQ == INSTANCE RingQueue WITH
  Capacity <- mask,
  ring     <- [queue |-> Published, pending |-> Won],
  op       <- Operation,
  arg      <- Argument

\* Every step of the counters and slots is a step of the abstract ring or
\* invisible to it: entries come out once, in ticket order, unharmed, and a
\* call fails only if the ring was full (empty) while it ran.
ImplementsRingQueue == RQ!Spec

----------------------------------------------------------------------------
(* Invariants *)

TypeOK ==
  /\ c_head \in Nat /\ p_tail \in Nat /\ p_head \in Nat
  /\ slot \in [0 .. mask -> Values \cup {NoValue}]
  /\ pc \in [Threads -> ControlPoints]
  /\ producer \in [Threads -> Nat]
  /\ consumer \in [Threads -> Nat]
  /\ data \in [Threads -> Values \cup {NoValue}]
  /\ ret \in [Threads -> [ok : BOOLEAN, val : Values \cup {NoValue}]]
  /\ calls \in Nat /\ calls <= MaxCalls
  /\ mayFail \in [Threads -> BOOLEAN]

\* ck_ring_valid's meaning, on the unwrapped counters and at every step, not
\* only while the ring is at rest: consumers stay behind what is published,
\* and producers together never run more than mask tickets ahead, although
\* each of them decided on a c_head that was stale when its CAS succeeded.
RingValid ==
  /\ c_head <= p_tail
  /\ p_tail <= p_head
  /\ p_head - c_head <= mask

\* Every ticket between p_tail and p_head is in the hands of exactly one
\* thread, so that the thread which waits for p_tail to reach its ticket
\* waits for threads that are themselves going to publish.
TicketsOwned ==
  /\ \A t \in Threads : pc[t] \in EnqueueOwner => producer[t] \in p_tail .. p_head - 1
  /\ \A n \in p_tail .. p_head - 1 :
       \E t \in Threads : pc[t] \in EnqueueOwner /\ producer[t] = n
  /\ \A t, u \in Threads :
       /\ pc[t] \in EnqueueOwner /\ pc[u] \in EnqueueOwner
       /\ producer[t] = producer[u]
       => t = u

\* Between the load of p_tail that ends the spin loop and the store of p_tail
\* nobody else stores it: the store publishes t's ticket and no other.
StoreIsMine ==
  \A t \in Threads : At(t, "enq_store_p_tail") => p_tail = producer[t]

\* The copy is made before the CAS and outside any lock. If the CAS is about
\* to succeed, the copy is the entry at the head of the ring: it had been
\* published when it was read, and no producer has reused the slot since.
CopyIsHead ==
  \A t \in Threads :
    At(t, "deq_cas_c_head") /\ SameUint(c_head, consumer[t])
    => /\ c_head = consumer[t]
       /\ c_head < p_tail
       /\ data[t] = slot[Index(c_head)]
       /\ data[t] # NoValue

----------------------------------------------------------------------------
(* What makes the invariants inductive *)

\* Snapshots are old values of the counters, less than a turn old; what a
\* thread concluded from them still holds, or the CAS that follows fails.
SnapshotsOld ==
  \A t \in Threads :
    /\ pc[t] \in EnqueueSearch =>
         producer[t] <= p_head /\ p_head - producer[t] <= UMod - mask
    /\ At(t, "enq_cas_p_head") => producer[t] - c_head < mask
    /\ pc[t] \in DequeuePoints =>
         consumer[t] <= c_head /\ p_head - consumer[t] <= UMod - mask
    /\ pc[t] \in {"deq_read_slot", "deq_cas_c_head"} => consumer[t] < p_tail

CountersInv == RingValid /\ TicketsOwned /\ StoreIsMine /\ SnapshotsOld

\* A ticket is published only after its entry was written to its slot, and
\* the slot keeps it until the ticket is taken.
SlotsWritten ==
  /\ \A t \in Threads :
       /\ pc[t] \in EnqueueOwner => data[t] \in Values
       /\ pc[t] \in {"enq_wait_p_tail", "enq_store_p_tail"} =>
            slot[Index(producer[t])] = data[t]
  /\ \A n \in c_head .. p_tail - 1 : slot[Index(n)] \in Values

\* An enqueue call carries an entry from the start.
EntriesReal ==
  \A t \in Threads : pc[t] \in EnqueueSearch => data[t] \in Values

CopiesInv == EntriesReal /\ SlotsWritten /\ CopyIsHead

----------------------------------------------------------------------------
(* Liveness *)

\* The scheduler runs each thread of S again and again; the others may be
\* preempted for ever anywhere, a ticket in their hands included.
FairFor(S) == \A t \in S : WF_vars(Step(t))

\* No call spins or retries for ever if every thread is run.
EveryCallReturns ==
  FairFor(Threads) => \A t \in Threads : ~ At(t, "idle") ~> At(t, "idle")
=============================================================================
