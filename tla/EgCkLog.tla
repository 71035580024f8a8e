------------------------------ MODULE EgCkLog ------------------------------
(***************************************************************************)
(* test_threads/eg_cklog.c: a message log for threads. queue_capacity      *)
(* fixed-size slots circulate between two rings:                           *)
(*                                                                         *)
(*   ring_free --eg_cklog_enqueue--> ring_used --eg_cklog_consume--> ...   *)
(*                                                                         *)
(* A logging thread takes a slot number from ring_free, copies its message *)
(* into the slot and puts the number into ring_used; a printing thread     *)
(* takes it from there, prints the slot and puts the number back into      *)
(* ring_free.                                                              *)
(*                                                                         *)
(* A ring call is the step of RingOps that CkRing implements: a successful *)
(* enqueue reserves a ticket and later publishes it, in ticket order; a    *)
(* dequeue takes the head or, when nothing is published, fails. A call     *)
(* that fails and is repeated leaves everything as it was, so the retry    *)
(* loops are steps that wait for the call to succeed; usleep and the       *)
(* backoff only set the pace.                                              *)
(***************************************************************************)
EXTENDS RingOps, FiniteSets

CONSTANTS Producers,    \* threads that call eg_cklog_enqueue
          Consumers,    \* threads that call eg_cklog_consume for ever
          Messages,     \* shorter than msg_capacity: strncpy ends them with NUL
          NoMessage,    \* memory nobody has written
          Torn,         \* a slot strncpy has begun to write
          Capacity,     \* queue_capacity
          MaxMessages   \* bound: how many calls of eg_cklog_enqueue are made

ASSUME ThreadsAssumption == Producers \cap Consumers = {}
ASSUME CapacityAssumption == Capacity \in Nat /\ Capacity >= 2
ASSUME MessagesAssumption ==
  NoMessage \notin Messages /\ Torn \notin Messages /\ NoMessage # Torn
ASSUME MaxMessagesAssumption == MaxMessages \in Nat

VARIABLES ring_free, ring_used,
          msg_mem,      \* msg_mem[i]: what slot i holds
          pc,           \* pc[t]: where t is in its call
          i,            \* i[t]: the slot number in t's hands
          msg,          \* msg[p]: the argument of p's call
          rv,           \* rv[p]: what p's last call returned, TRUE while one runs
          called        \* how many calls of eg_cklog_enqueue were made

vars == <<ring_free, ring_used, msg_mem, pc, i, msg, rv, called>>

Threads == Producers \cup Consumers

\* A ring of Capacity slots holds one entry less.
RingCapacity == Capacity - 1

\* The slots that circulate: the loop of eg_cklog_create offers 0..Capacity-1
\* and ignores that the last one does not fit.
Slots == 0 .. Capacity - 2

NoSlot == Capacity

Goto(t, from, to) == pc[t] = from /\ pc' = [pc EXCEPT ![t] = to]

\* Mutant of Init: every slot fits, as the loop of eg_cklog_create reads.
AllSlotsOffered ==
  /\ ring_free = [EmptyRing EXCEPT !.queue = [n \in 1 .. Capacity |-> n - 1]]
  /\ ring_used = EmptyRing
  /\ msg_mem = [s \in Slots |-> NoMessage]
  /\ pc = [t \in Threads |-> "idle"]
  /\ i = [t \in Threads |-> NoSlot]
  /\ msg = [p \in Producers |-> NoMessage]
  /\ rv = [p \in Producers |-> TRUE]
  /\ called = 0

\* eg_cklog_create, which returns before any thread uses the log
Init ==
  /\ ring_free = [EmptyRing EXCEPT !.queue = [n \in 1 .. RingCapacity |-> n - 1]]
  /\ ring_used = EmptyRing
  /\ msg_mem = [s \in Slots |-> NoMessage]
  /\ pc = [t \in Threads |-> "idle"]
  /\ i = [t \in Threads |-> NoSlot]
  /\ msg = [p \in Producers |-> NoMessage]
  /\ rv = [p \in Producers |-> TRUE]
  /\ called = 0

----------------------------------------------------------------------------
(* eg_cklog_enqueue *)

Log(p, m) ==
  /\ called < MaxMessages
  /\ called' = called + 1
  /\ Goto(p, "idle", "take_free")
  /\ msg' = [msg EXCEPT ![p] = m]
  /\ rv' = [rv EXCEPT ![p] = TRUE]
  /\ UNCHANGED <<ring_free, ring_used, msg_mem, i>>

\* Mutant of TakeFree: looks at the head of ring_free without taking it.
PeeksFree(p) ==
  /\ Goto(p, "take_free", "copy")
  /\ ~ RingEmpty(ring_free)
  /\ i' = [i EXCEPT ![p] = Head(ring_free.queue)]
  /\ UNCHANGED <<ring_free, ring_used, msg_mem, msg, rv, called>>

TakeFree(p) ==
  /\ Goto(p, "take_free", "copy")
  /\ ~ RingEmpty(ring_free)
  /\ i' = [i EXCEPT ![p] = Head(ring_free.queue)]
  /\ ring_free' = TakeHead(ring_free)
  /\ UNCHANGED <<ring_used, msg_mem, msg, rv, called>>

\* Mutant of NoneFree: waits for a slot instead of returning false.
WaitsForSlot(p) == FALSE

NoneFree(p) ==
  /\ Goto(p, "take_free", "idle")
  /\ RingEmpty(ring_free)
  /\ rv' = [rv EXCEPT ![p] = FALSE]
  /\ msg' = [msg EXCEPT ![p] = NoMessage]
  /\ UNCHANGED <<ring_free, ring_used, msg_mem, i, called>>

\* Mutant of CopyBegins: the slot is queued before strncpy has filled it.
QueuesBeforeCopy(p) ==
  /\ Goto(p, "copy", "put_used")
  /\ msg_mem' = [msg_mem EXCEPT ![i[p]] = Torn]
  /\ UNCHANGED <<ring_free, ring_used, i, msg, rv, called>>

\* strncpy is not atomic.
CopyBegins(p) ==
  /\ Goto(p, "copy", "copying")
  /\ msg_mem' = [msg_mem EXCEPT ![i[p]] = Torn]
  /\ UNCHANGED <<ring_free, ring_used, i, msg, rv, called>>

CopyEnds(p) ==
  /\ Goto(p, "copying", "put_used")
  /\ msg_mem' = [msg_mem EXCEPT ![i[p]] = msg[p]]
  /\ UNCHANGED <<ring_free, ring_used, i, msg, rv, called>>

PutUsed(p) ==
  /\ Goto(p, "put_used", "publish_used")
  /\ ~ RingFull(ring_used, RingCapacity)
  /\ ring_used' = ReserveTicket(ring_used, p, i[p])
  /\ i' = [i EXCEPT ![p] = NoSlot]
  /\ msg' = [msg EXCEPT ![p] = NoMessage]
  /\ UNCHANGED <<ring_free, msg_mem, rv, called>>

\* The function ends without a return statement: its value is anything.
PublishUsed(p) ==
  /\ Goto(p, "publish_used", "idle")
  /\ MayPublish(ring_used, p)
  /\ ring_used' = PublishTicket(ring_used)
  /\ \E b \in BOOLEAN : rv' = [rv EXCEPT ![p] = b]
  /\ UNCHANGED <<ring_free, msg_mem, i, msg, called>>

----------------------------------------------------------------------------
(* eg_cklog_consume *)

Consume(c) ==
  /\ Goto(c, "idle", "take_used")
  /\ UNCHANGED <<ring_free, ring_used, msg_mem, i, msg, rv, called>>

TakeUsed(c) ==
  /\ Goto(c, "take_used", "print")
  /\ ~ RingEmpty(ring_used)
  /\ i' = [i EXCEPT ![c] = Head(ring_used.queue)]
  /\ ring_used' = TakeHead(ring_used)
  /\ UNCHANGED <<ring_free, msg_mem, msg, rv, called>>

\* Mutant of PrintSlot: forgets to give the slot back.
KeepsSlot(c) ==
  /\ Goto(c, "print", "idle")
  /\ UNCHANGED <<ring_free, ring_used, msg_mem, i, msg, rv, called>>

PrintSlot(c) ==
  /\ Goto(c, "print", "put_free")
  /\ UNCHANGED <<ring_free, ring_used, msg_mem, i, msg, rv, called>>

PutFree(c) ==
  /\ Goto(c, "put_free", "publish_free")
  /\ ~ RingFull(ring_free, RingCapacity)
  /\ ring_free' = ReserveTicket(ring_free, c, i[c])
  /\ i' = [i EXCEPT ![c] = NoSlot]
  /\ UNCHANGED <<ring_used, msg_mem, msg, rv, called>>

PublishFree(c) ==
  /\ Goto(c, "publish_free", "idle")
  /\ MayPublish(ring_free, c)
  /\ ring_free' = PublishTicket(ring_free)
  /\ UNCHANGED <<ring_used, msg_mem, i, msg, rv, called>>

----------------------------------------------------------------------------
ProducerStep(p) ==
  \/ TakeFree(p) \/ NoneFree(p)
  \/ CopyBegins(p) \/ CopyEnds(p)
  \/ PutUsed(p) \/ PublishUsed(p)

ConsumerStep(c) ==
  \/ Consume(c) \/ TakeUsed(c) \/ PrintSlot(c) \/ PutFree(c) \/ PublishFree(c)

Next ==
  \/ \E p \in Producers : (\E m \in Messages : Log(p, m)) \/ ProducerStep(p)
  \/ \E c \in Consumers : ConsumerStep(c)

Spec == Init /\ [][Next]_vars
----------------------------------------------------------------------------
(* The log this implements. *)

InSlots(ring) == [n \in DOMAIN Contents(ring) |-> msg_mem[Contents(ring)[n]]]

Backlog == InSlots(ring_used)

Phase == [t \in Threads |->
            CASE pc[t] = "take_free" -> "asking"
              [] pc[t] \in {"copy", "copying", "put_used"} -> "writing"
              [] pc[t] = "publish_used" -> "accepted"
              [] pc[t] = "take_used" -> "waiting"
              [] pc[t] = "print" -> "printing"
              [] pc[t] \in {"put_free", "publish_free"} -> "disposing"
              [] OTHER -> "idle"]

Out == [c \in Consumers |-> IF pc[c] = "print" THEN msg_mem[i[c]] ELSE NoMessage]

ML == INSTANCE MsgLog WITH
  Slots <- RingCapacity, backlog <- Backlog, phase <- Phase, out <- Out

\* Whatever the threads do, messages are printed whole, once, in the order of
\* acceptance, and one is refused only when all slots are in use.
ImplementsMsgLog == ML!Spec

----------------------------------------------------------------------------
(* Invariants *)

RingType(ring, threads) ==
  /\ ring.queue \in Seq(Slots)
  /\ ring.pending \in Seq([by : threads, val : Slots])

TypeOK ==
  /\ RingType(ring_free, Consumers) /\ RingType(ring_used, Producers)
  /\ msg_mem \in [Slots -> Messages \cup {NoMessage, Torn}]
  /\ \A p \in Producers : pc[p] \in {"idle", "take_free", "copy", "copying",
                                     "put_used", "publish_used"}
  /\ \A c \in Consumers : pc[c] \in {"idle", "take_used", "print",
                                     "put_free", "publish_free"}
  /\ i \in [Threads -> Slots \cup {NoSlot}]
  /\ msg \in [Producers -> Messages \cup {NoMessage}]
  /\ rv \in [Producers -> BOOLEAN]
  /\ called \in 0 .. MaxMessages

\* How often slot s is in a ring, in a thread's hands.
TimesIn(ring, s) ==
  Cardinality({n \in DOMAIN ring.queue : ring.queue[n] = s})
  + Cardinality({n \in DOMAIN ring.pending : ring.pending[n].val = s})
Holders(s) == {t \in Threads : i[t] = s}

\* No slot is ever lost, duplicated or used by two threads: each one is in
\* one ring, once, or in the hands of one thread.
EverySlotOnce ==
  \A s \in Slots :
    TimesIn(ring_free, s) + TimesIn(ring_used, s) + Cardinality(Holders(s)) = 1

\* The retry loops after a full ring ("Unlikely", "This is impossible ?") are
\* dead code: a thread with a slot in its hands always finds room for it.
PutNeverFails ==
  \A t \in Threads :
    /\ pc[t] = "put_used" => ~ RingFull(ring_used, RingCapacity)
    /\ pc[t] = "put_free" => ~ RingFull(ring_free, RingCapacity)

----------------------------------------------------------------------------
(* Liveness *)

FairProducers == \A p \in Producers : WF_vars(ProducerStep(p))
FairConsumers == \A c \in Consumers : WF_vars(ConsumerStep(c))

FairSpec == Spec /\ FairProducers

\* When logging stops and printing threads are run, everything accepted gets
\* printed and every slot comes home, in spite of producers and consumers
\* overtaking each other between winning a ticket and publishing it.
LogDrains ==
  FairConsumers =>
    <>[](ring_used = EmptyRing /\ Len(ring_free.queue) = RingCapacity)

\* Logging never waits for printing: a call returns even when every printing
\* thread is stopped, with slots and tickets in its hands.
LogNeverWaitsForPrint ==
  \A p \in Producers : pc[p] # "idle" ~> pc[p] = "idle"
=============================================================================
