---------------------------- MODULE EgCkLog_proofs ----------------------------
(***************************************************************************)
(* Proofs about EgCkLog, for any sets of threads and messages, any number  *)
(* of slots and any number of calls.                                       *)
(***************************************************************************)
EXTENDS EgCkLog, RingOps_proofs

----------------------------------------------------------------------------
(* What makes the invariants inductive *)

Points == {"idle", "take_free", "copy", "copying", "put_used", "publish_used",
           "take_used", "print", "put_free", "publish_free"}
Writing == {"copy", "copying", "put_used"}
Printing == {"print"}
Disposing == {"put_free", "publish_free"}
Publishing == {"publish_free"}
Stages == {Writing, Printing, Disposing, Publishing}

\* The threads at one of some points.
At(points) == {t \in Threads : pc[t] \in points}

\* A thread has a slot between the dequeue that takes it and the enqueue.
HandsInv ==
  \A t \in Threads : i[t] \in Slots <=> pc[t] \in Writing \cup Printing \cup {"put_free"}

\* The slots that are free or coming home, that wait or will.
Free == Len(ring_free.queue)
Returned == Len(ring_free.pending)
Queued == Len(ring_used.queue)
Unpublished == Len(ring_used.pending)

\* How many threads write, print, dispose of and publish a slot.
Writers == Cardinality(At(Writing))
Printers == Cardinality(At(Printing))
Disposers == Cardinality(At(Disposing))
Publishers == Cardinality(At(Publishing))

\* Every slot is free, waiting, or counted by the stage its thread is in; a
\* ticket of ring_free is pending while its thread is about to publish it.
CountInv ==
  /\ \A stage \in Stages : IsFiniteSet(At(stage))
  /\ Free + Queued + Unpublished + Writers + Printers + Disposers = RingCapacity
  /\ Publishers = Returned

\* A thread that writes knows its message; the slot has it when it is put.
MsgInv ==
  \A p \in Producers :
    /\ pc[p] \in Writing \cup {"take_free"} => msg[p] \in Messages
    /\ pc[p] = "put_used" => msg_mem[i[p]] = msg[p]

IInv ==
  /\ TypeOK
  /\ ring_free \in Rings(Consumers, Slots) /\ ring_used \in Rings(Producers, Slots)
  /\ pc \in [Threads -> Points]
  /\ HandsInv
  /\ CountInv
  /\ (\A s \in Slots : IsFiniteSet(Holders(s))) /\ EverySlotOnce
  /\ MsgInv

----------------------------------------------------------------------------
(* How often a slot is in a ring *)

\* The tickets with slot s.
Of(T, s) == {e \in Tickets(T, Slots) : e.val = s}

\* How often a ring has a slot is counted in its entries and in its tickets.
LEMMA TimesAreHits ==
  ASSUME NEW T, NEW r \in Rings(T, Slots), NEW s
  PROVE  /\ TimesIn(r, s) = Cardinality(Hits(r.queue, {s})) + Cardinality(Hits(r.pending, Of(T, s)))
         /\ Cardinality(Hits(r.queue, {s})) \in Nat
         /\ Cardinality(Hits(r.pending, Of(T, s))) \in Nat
<1>. DEFINE Ticket == Tickets(T, Slots)
            p == r.pending
<1>1. r.queue \in Seq(Slots) /\ p \in Seq(Ticket)
  BY RingFields
<1>2. {n \in DOMAIN r.queue : r.queue[n] = s} = Hits(r.queue, {s})
  BY DEF Hits
<1>3. \A n \in DOMAIN p : p[n] \in Ticket
  <2>. HIDE DEF Ticket, p
  <2>. QED BY <1>1, LenProperties, ElementOfSeq
<1>4. {n \in DOMAIN p : p[n].val = s} = Hits(p, Of(T, s))
  BY <1>3 DEF Hits, Of
<1>5. /\ Cardinality(Hits(r.queue, {s})) \in Nat
      /\ Cardinality(Hits(p, Of(T, s))) \in Nat
  <2>. HIDE DEF Ticket, p
  <2>. QED BY <1>1, HitsFinite
<1>. QED BY <1>2, <1>4, <1>5 DEF TimesIn

\* An empty ring has no slot.
LEMMA TimesInEmpty == \A s : TimesIn(EmptyRing, s) = 0
<1>1. EmptyRing.queue = <<>> /\ EmptyRing.pending = <<>>
  BY DEF EmptyRing
<1>2. /\ \A s : {n \in DOMAIN EmptyRing.queue : EmptyRing.queue[n] = s} = {}
      /\ \A s : {n \in DOMAIN EmptyRing.pending : EmptyRing.pending[n].val = s} = {}
  <2>1. DOMAIN <<>> = {}
    OBVIOUS
  <2>. QED BY <1>1, <2>1
<1>. QED BY <1>2, FS_EmptySet DEF TimesIn

\* A successful enqueue puts its slot once into the ring, publishing it changes
\* nothing, and a dequeue takes the head out once.
LEMMA TimesReserve ==
  ASSUME NEW T, NEW r \in Rings(T, Slots), NEW t \in T, NEW v \in Slots, NEW s
  PROVE  TimesIn(ReserveTicket(r, t, v), s) = TimesIn(r, s) + (IF v = s THEN 1 ELSE 0)
<1>. DEFINE e == [by |-> t, val |-> v]
            Ticket == Tickets(T, Slots)
            K == Of(T, s)
            p == r.pending
            z == ReserveTicket(r, t, v)
<1>1. z \in Rings(T, Slots) /\ z.queue = r.queue /\ z.pending = Append(p, e)
  BY ReserveIsRing
<1>2. p \in Seq(Ticket) /\ e \in Ticket /\ (e \in K <=> v = s)
  BY RingFields DEF Tickets, Of
<1>. HIDE DEF e, Ticket, K, p, z
<1>3. Cardinality(Hits(Append(p, e), K)) = Cardinality(Hits(p, K)) + (IF e \in K THEN 1 ELSE 0)
  BY <1>2, HitsAppend
<1>4. TimesIn(r, s) = Cardinality(Hits(r.queue, {s})) + Cardinality(Hits(p, K))
      /\ Cardinality(Hits(r.queue, {s})) \in Nat /\ Cardinality(Hits(p, K)) \in Nat
  BY TimesAreHits DEF K, p
<1>5. TimesIn(z, s) = Cardinality(Hits(r.queue, {s})) + Cardinality(Hits(Append(p, e), K))
  <2>1. TimesIn(z, s) = Cardinality(Hits(z.queue, {s})) + Cardinality(Hits(z.pending, Of(T, s)))
    BY <1>1, TimesAreHits
  <2>. QED BY <1>1, <2>1 DEF K
<1>6. TimesIn(z, s) = TimesIn(r, s) + (IF e \in K THEN 1 ELSE 0)
  BY <1>3, <1>4, <1>5
<1>. QED BY <1>2, <1>6 DEF z

\* Publishing a ticket leaves its slot in the ring.
LEMMA TimesPublish ==
  ASSUME NEW T, NEW r \in Rings(T, Slots), r.pending # <<>>, NEW s
  PROVE  TimesIn(PublishTicket(r), s) = TimesIn(r, s)
<1>. DEFINE Ticket == Tickets(T, Slots)
            K == Of(T, s)
            p == r.pending
            q == r.queue
            v == Head(r.pending).val
            z == PublishTicket(r)
<1>1. z \in Rings(T, Slots) /\ z.queue = Append(q, v) /\ z.pending = Tail(p) /\ v \in Slots
  BY PublishIsRing
<1>2. p \in Seq(Ticket) /\ p # <<>> /\ q \in Seq(Slots) /\ (Head(p) \in K <=> v = s)
  BY RingFields DEF Of
<1>. HIDE DEF Ticket, K, p, q, v, z
<1>3. Cardinality(Hits(Append(q, v), {s})) = Cardinality(Hits(q, {s})) + (IF v \in {s} THEN 1 ELSE 0)
  BY <1>1, <1>2, HitsAppend
<1>4. Cardinality(Hits(Tail(p), K)) = Cardinality(Hits(p, K)) - (IF Head(p) \in K THEN 1 ELSE 0)
  BY <1>2, HitsTail
<1>5. TimesIn(r, s) = Cardinality(Hits(q, {s})) + Cardinality(Hits(p, K))
      /\ Cardinality(Hits(q, {s})) \in Nat /\ Cardinality(Hits(p, K)) \in Nat
  BY TimesAreHits DEF K, p, q
<1>6. TimesIn(z, s) = Cardinality(Hits(Append(q, v), {s})) + Cardinality(Hits(Tail(p), K))
  <2>1. TimesIn(z, s) = Cardinality(Hits(z.queue, {s})) + Cardinality(Hits(z.pending, Of(T, s)))
    BY <1>1, TimesAreHits
  <2>. QED BY <1>1, <2>1 DEF K
<1>. QED BY <1>2, <1>3, <1>4, <1>5, <1>6 DEF z

\* Taking the head removes one place of one slot.
LEMMA TimesTake ==
  ASSUME NEW T, NEW r \in Rings(T, Slots), r.queue # <<>>, NEW s
  PROVE  TimesIn(TakeHead(r), s) = TimesIn(r, s) - (IF Head(r.queue) = s THEN 1 ELSE 0)
<1>. DEFINE K == Of(T, s)
            p == r.pending
            q == r.queue
            z == TakeHead(r)
<1>1. z \in Rings(T, Slots) /\ z.queue = Tail(q) /\ z.pending = p
  BY TakeIsRing
<1>2. q \in Seq(Slots) /\ q # <<>>
  BY RingFields
<1>. HIDE DEF K, p, q, z
<1>3. Cardinality(Hits(Tail(q), {s})) = Cardinality(Hits(q, {s})) - (IF Head(q) \in {s} THEN 1 ELSE 0)
  BY <1>2, HitsTail
<1>4. TimesIn(r, s) = Cardinality(Hits(q, {s})) + Cardinality(Hits(p, K))
      /\ Cardinality(Hits(q, {s})) \in Nat /\ Cardinality(Hits(p, K)) \in Nat
  BY TimesAreHits DEF K, p, q
<1>5. TimesIn(z, s) = Cardinality(Hits(Tail(q), {s})) + Cardinality(Hits(p, K))
  <2>1. TimesIn(z, s) = Cardinality(Hits(z.queue, {s})) + Cardinality(Hits(z.pending, Of(T, s)))
    BY <1>1, TimesAreHits
  <2>. QED BY <1>1, <2>1 DEF K
<1>. QED BY <1>3, <1>4, <1>5 DEF z, q

\* A slot that is no time in a ring is none of its values.
LEMMA NotInContents ==
  ASSUME NEW T, NEW r \in Rings(T, Slots), NEW s, TimesIn(r, s) = 0
  PROVE  \A n \in DOMAIN Contents(r) : Contents(r)[n] # s
<1>. DEFINE Ticket == Tickets(T, Slots)
            K == Of(T, s)
            p == r.pending
            q == r.queue
<1>1. Cardinality(Hits(q, {s})) = 0 /\ Cardinality(Hits(p, K)) = 0
  BY TimesAreHits
<1>2. q \in Seq(Slots) /\ p \in Seq(Ticket) /\ Len(q) \in Nat /\ Len(p) \in Nat
  BY RingFields
<1>3. \A n \in 1 .. Len(p) : p[n] \in Ticket
  <2>. HIDE DEF Ticket, p
  <2>. QED BY <1>2, ElementOfSeq
<1>4. \A n \in 1 .. Len(p) : p[n] \notin K => p[n].val # s
  BY <1>3 DEF Of
<1>. HIDE DEF Ticket, K, p, q
<1>5. Hits(q, {s}) = {} /\ Hits(p, K) = {}
  BY <1>1, <1>2, HitsFinite, FS_EmptySet
<1>6. DOMAIN q = 1 .. Len(q) /\ DOMAIN p = 1 .. Len(p)
  BY <1>2, LenProperties
<1>7. \A n \in 1 .. Len(q) : q[n] # s
  BY <1>5, <1>6 DEF Hits
<1>8. \A n \in 1 .. Len(p) : p[n].val # s
  BY <1>4, <1>5, <1>6 DEF Hits
<1>. SUFFICES ASSUME NEW n \in DOMAIN Contents(r) PROVE Contents(r)[n] # s
  OBVIOUS
<1>9. n \in 1 .. Len(q) + Len(p)
  <2>1. Contents(r) \in Seq(Slots) /\ Len(Contents(r)) = Len(q) + Len(p)
    BY ContentsIsSeq DEF p, q
  <2>. QED BY <2>1, LenProperties
<1>10. CASE n <= Len(q)
  <2>1. n \in 1 .. Len(r.queue)
    BY <1>2, <1>9, <1>10 DEF q
  <2>2. Contents(r)[n] = r.queue[n]
    BY <2>1, ContentsPublished
  <2>. QED BY <1>7, <2>1, <2>2 DEF q
<1>11. CASE n > Len(q)
  <2>. DEFINE k == n - Len(q)
  <2>1. k \in 1 .. Len(p) /\ Len(q) + k = n
    BY <1>2, <1>9, <1>11
  <2>. HIDE DEF k
  <2>2. Contents(r)[Len(r.queue) + k] = r.pending[k].val
    BY <2>1, ContentsPending DEF p
  <2>. QED BY <1>8, <2>1, <2>2 DEF p, q
<1>. QED BY <1>2, <1>9, <1>10, <1>11
----------------------------------------------------------------------------
(* The inductive invariant, initially *)

\* What the assumption on the capacity says of the numbers used below.
LEMMA ConstantFacts ==
  /\ RingCapacity \in Nat /\ RingCapacity >= 1 /\ Slots = 0 .. RingCapacity - 1
  /\ NoSlot \notin Slots
BY CapacityAssumption DEF RingCapacity, Slots, NoSlot

\* The slots eg_cklog_create offers, one by one.
LEMMA OfferedSlots ==
  ASSUME NEW f, f = [n \in 1 .. RingCapacity |-> n - 1]
  PROVE  /\ f \in Seq(Slots) /\ Len(f) = RingCapacity
         /\ \A s \in Slots : {n \in DOMAIN f : f[n] = s} = {s + 1}
<1>1. \A n \in 1 .. RingCapacity : n - 1 \in Slots
  BY ConstantFacts
<1>2. \A s \in Slots : s + 1 \in 1 .. RingCapacity /\ (s + 1) - 1 = s
  BY ConstantFacts
<1>3. f \in Seq(Slots) /\ Len(f) = RingCapacity
  BY <1>1, ConstantFacts
<1>. QED BY <1>2, <1>3, ConstantFacts

\* After eg_cklog_create every slot is free once and the invariant holds.
LEMMA InitInv == Init => IInv
<1>. SUFFICES ASSUME Init PROVE IInv
  OBVIOUS
<1>. DEFINE f == [n \in 1 .. RingCapacity |-> n - 1]
<1>0. /\ ring_free = [queue |-> f, pending |-> <<>>] /\ ring_used = EmptyRing
      /\ msg_mem = [s \in Slots |-> NoMessage]
      /\ pc = [t \in Threads |-> "idle"]
      /\ i = [t \in Threads |-> NoSlot]
      /\ msg = [p \in Producers |-> NoMessage]
      /\ rv = [p \in Producers |-> TRUE]
      /\ called = 0
  BY DEF Init, EmptyRing
<1>1. f \in Seq(Slots) /\ Len(f) = RingCapacity
      /\ \A s \in Slots : {n \in DOMAIN f : f[n] = s} = {s + 1}
  BY OfferedSlots
<1>. HIDE DEF f, Init
<1>2. /\ ring_free \in Rings(Consumers, Slots) /\ ring_used \in Rings(Producers, Slots)
      /\ ring_free.queue = f /\ ring_free.pending = <<>>
      /\ ring_used.queue = <<>> /\ ring_used.pending = <<>>
  <2>1. <<>> \in Seq(Tickets(Consumers, Slots))
    <3>. DEFINE Ticket == Tickets(Consumers, Slots)
    <3>. HIDE DEF Ticket
    <3>1. <<>> \in Seq(Ticket)
      BY EmptySeq
    <3>. QED BY <3>1 DEF Ticket
  <2>. QED BY <1>0, <1>1, <2>1, EmptyIsRing DEF Rings
<1>3. TypeOK
  <2>1. RingType(ring_free, Consumers) /\ RingType(ring_used, Producers)
    BY <1>2, RingFields DEF RingType, Tickets
  <2>2. rv \in [Producers -> BOOLEAN] /\ called \in 0 .. MaxMessages
    BY <1>0, MaxMessagesAssumption
  <2>3. /\ \A p \in Producers : pc[p] = "idle"
        /\ \A c \in Consumers : pc[c] = "idle"
    BY <1>0 DEF Threads
  <2>. QED BY <1>0, <2>1, <2>2, <2>3 DEF TypeOK
<1>4. pc \in [Threads -> Points] /\ HandsInv /\ MsgInv
  BY <1>0, ConstantFacts DEF Points, HandsInv, MsgInv, Writing, Printing, Threads
<1>5. CountInv
  <2>1. \A stage \in Stages : At(stage) = {}
    BY <1>0 DEF Stages, At, Writing, Printing, Disposing, Publishing
  <2>2. \A stage \in Stages : IsFiniteSet(At(stage)) /\ Cardinality(At(stage)) = 0
    BY <2>1, FS_EmptySet
  <2>3. /\ Cardinality(At(Writing)) = 0 /\ Cardinality(At(Printing)) = 0
        /\ Cardinality(At(Disposing)) = 0 /\ Cardinality(At(Publishing)) = 0
    BY <2>2 DEF Stages
  <2>4. Len(<<>>) = 0
    OBVIOUS
  <2>5. Free = RingCapacity /\ Returned = 0 /\ Queued = 0 /\ Unpublished = 0
    BY <1>1, <1>2, <2>4 DEF Free, Returned, Queued, Unpublished
  <2>6. Writers = 0 /\ Printers = 0 /\ Disposers = 0 /\ Publishers = 0
    BY <2>3 DEF Writers, Printers, Disposers, Publishers
  <2>. QED BY <2>2, <2>5, <2>6, ConstantFacts DEF CountInv
<1>6. \A s \in Slots : Holders(s) = {}
  BY <1>0, ConstantFacts DEF Holders
<1>7. ASSUME NEW s \in Slots
      PROVE  IsFiniteSet(Holders(s))
             /\ TimesIn(ring_free, s) + TimesIn(ring_used, s) + Cardinality(Holders(s)) = 1
  <2>1. TimesIn(ring_used, s) = 0
    BY <1>0, TimesInEmpty
  <2>2. Cardinality({n \in DOMAIN ring_free.queue : ring_free.queue[n] = s}) = 1
    <3>1. {n \in DOMAIN ring_free.queue : ring_free.queue[n] = s} = {s + 1}
      BY <1>1, <1>2
    <3>. QED BY <3>1, FS_Singleton
  <2>3. Cardinality({n \in DOMAIN ring_free.pending : ring_free.pending[n].val = s}) = 0
    <3>1. DOMAIN <<>> = {}
      OBVIOUS
    <3>2. {n \in DOMAIN ring_free.pending : ring_free.pending[n].val = s} = {}
      BY <1>2, <3>1
    <3>. QED BY <3>2, FS_EmptySet
  <2>4. IsFiniteSet(Holders(s)) /\ Cardinality(Holders(s)) = 0
    BY <1>6, FS_EmptySet
  <2>. QED BY <2>1, <2>2, <2>3, <2>4 DEF TimesIn
<1>. QED BY <1>2, <1>3, <1>4, <1>5, <1>7 DEF IInv, EverySlotOnce

----------------------------------------------------------------------------
(* How a step of one thread changes the counts *)

\* A thread that goes on is counted where it goes to and no longer where it was.
LEMMA StageMoves ==
  ASSUME IInv, NEW t \in Threads, NEW from, NEW to \in Points, Goto(t, from, to),
         NEW K \in Stages
  PROVE  /\ IsFiniteSet(At(K)')
         /\ Cardinality(At(K)) \in Nat /\ Cardinality(At(K)') \in Nat
         /\ Cardinality(At(K)') =
              Cardinality(At(K)) - (IF from \in K THEN 1 ELSE 0) + (IF to \in K THEN 1 ELSE 0)
<1>1. /\ t \in DOMAIN pc /\ pc[t] = from /\ DOMAIN pc' = DOMAIN pc
      /\ pc'[t] = to /\ \A x \in DOMAIN pc : x # t => pc'[x] = pc[x]
  BY DEF IInv, Goto
<1>2. At(K) = Hits(pc, K) /\ At(K)' = Hits(pc', K)
  BY <1>1 DEF At, Hits, IInv
<1>3. IsFiniteSet(Hits(pc, K))
  BY <1>2 DEF IInv, CountInv
<1>4. CountShift(pc, t, to, K, pc')
  BY <1>1, <1>3, CountMoves
<1>. QED BY <1>1, <1>2, <1>4 DEF CountShift

\* A thread that puts another slot into i holds that one and no longer the old one.
LEMMA HolderMoves ==
  ASSUME IInv, NEW t \in Threads, NEW v, i' = [i EXCEPT ![t] = v], NEW s \in Slots
  PROVE  /\ IsFiniteSet(Holders(s)')
         /\ Cardinality(Holders(s)) \in Nat /\ Cardinality(Holders(s)') \in Nat
         /\ Cardinality(Holders(s)') =
              Cardinality(Holders(s)) - (IF i[t] = s THEN 1 ELSE 0) + (IF v = s THEN 1 ELSE 0)
<1>1. /\ t \in DOMAIN i /\ DOMAIN i' = DOMAIN i
      /\ i'[t] = v /\ \A x \in DOMAIN i : x # t => i'[x] = i[x]
  BY DEF IInv, TypeOK
<1>. DEFINE K == {s}
<1>2. /\ Holders(s) = Hits(i, K) /\ Holders(s)' = Hits(i', K)
      /\ i[t] \in K <=> i[t] = s
      /\ v \in K <=> v = s
  BY <1>1 DEF Holders, Hits, IInv, TypeOK
<1>3. IsFiniteSet(Hits(i, K))
  BY <1>2 DEF IInv
<1>. HIDE DEF K
<1>4. CountShift(i, t, v, K, i')
  BY <1>1, <1>3, CountMoves
<1>. QED BY <1>2, <1>4 DEF CountShift

\* A slot is in a ring a number of times.
LEMMA TimesNat ==
  ASSUME NEW T, NEW r \in Rings(T, Slots), NEW s
  PROVE  TimesIn(r, s) \in Nat
<1>. DEFINE a == Cardinality(Hits(r.queue, {s}))
            b == Cardinality(Hits(r.pending, Of(T, s)))
<1>1. TimesIn(r, s) = a + b /\ a \in Nat /\ b \in Nat
  BY TimesAreHits
<1>. HIDE DEF a, b
<1>. QED BY <1>1

\* Two threads never have the same slot in their hands, and what is in hands is
\* in no ring.
LEMMA SlotInHands ==
  ASSUME IInv, NEW t \in Threads, i[t] \in Slots
  PROVE  /\ \A u \in Threads : i[u] = i[t] => u = t
         /\ TimesIn(ring_free, i[t]) = 0 /\ TimesIn(ring_used, i[t]) = 0
<1>. DEFINE s == i[t]
<1>1. IsFiniteSet(Holders(s)) /\ t \in Holders(s)
      /\ TimesIn(ring_free, s) + TimesIn(ring_used, s) + Cardinality(Holders(s)) = 1
  BY DEF IInv, EverySlotOnce, Holders
<1>2. TimesIn(ring_free, s) \in Nat /\ TimesIn(ring_used, s) \in Nat
  BY TimesNat DEF IInv
<1>3. Cardinality(Holders(s)) \in Nat /\ Cardinality(Holders(s)) # 0
  BY <1>1, FS_CardinalityType, FS_EmptySet
<1>4. Cardinality(Holders(s)) = 1 /\ TimesIn(ring_free, s) = 0 /\ TimesIn(ring_used, s) = 0
  <2>. HIDE DEF s
  <2>. QED BY <1>1, <1>2, <1>3
<1>5. PICK x : Holders(s) = {x}
  BY <1>1, <1>4, FS_Singleton
<1>6. \A u \in Threads : i[u] = s => u \in Holders(s)
  BY DEF Holders
<1>. QED BY <1>1, <1>4, <1>5, <1>6

----------------------------------------------------------------------------
(* The parts of the invariant that only some steps disturb *)

\* A step moves one thread.
LEMMA PcMoves ==
  ASSUME IInv, NEW t \in Threads, NEW from, NEW to \in Points, Goto(t, from, to)
  PROVE  /\ pc' \in [Threads -> Points] /\ pc[t] = from /\ pc'[t] = to
         /\ \A u \in Threads : u # t => pc'[u] = pc[u]
BY DEF IInv, Goto

\* What it does to the number of threads in each stage.
LEMMA CountsMove ==
  ASSUME IInv, NEW t \in Threads, NEW from, NEW to \in Points, Goto(t, from, to)
  PROVE  /\ \A stage \in Stages : IsFiniteSet(At(stage)')
         /\ Writers' = Writers - (IF from \in Writing THEN 1 ELSE 0) + (IF to \in Writing THEN 1 ELSE 0)
         /\ Printers' = Printers - (IF from \in Printing THEN 1 ELSE 0) + (IF to \in Printing THEN 1 ELSE 0)
         /\ Disposers' = Disposers
              - (IF from \in Disposing THEN 1 ELSE 0) + (IF to \in Disposing THEN 1 ELSE 0)
         /\ Publishers' = Publishers
              - (IF from \in Publishing THEN 1 ELSE 0) + (IF to \in Publishing THEN 1 ELSE 0)
<1>1. Writing \in Stages /\ Printing \in Stages /\ Disposing \in Stages /\ Publishing \in Stages
  BY DEF Stages
<1>2. \A stage \in Stages : IsFiniteSet(At(stage)')
  BY StageMoves
<1>3. Writers' = Writers - (IF from \in Writing THEN 1 ELSE 0) + (IF to \in Writing THEN 1 ELSE 0)
  BY <1>1, StageMoves DEF Writers
<1>4. Printers' = Printers - (IF from \in Printing THEN 1 ELSE 0) + (IF to \in Printing THEN 1 ELSE 0)
  BY <1>1, StageMoves DEF Printers
<1>5. Disposers' = Disposers
        - (IF from \in Disposing THEN 1 ELSE 0) + (IF to \in Disposing THEN 1 ELSE 0)
  BY <1>1, StageMoves DEF Disposers
<1>6. Publishers' = Publishers
        - (IF from \in Publishing THEN 1 ELSE 0) + (IF to \in Publishing THEN 1 ELSE 0)
  BY <1>1, StageMoves DEF Publishers
<1>. QED BY <1>2, <1>3, <1>4, <1>5, <1>6

\* All of these are numbers.
LEMMA CountsNat ==
  ASSUME IInv
  PROVE  /\ Free \in Nat /\ Returned \in Nat /\ Queued \in Nat /\ Unpublished \in Nat
         /\ Writers \in Nat /\ Printers \in Nat /\ Disposers \in Nat /\ Publishers \in Nat
         /\ Free + Queued + Unpublished + Writers + Printers + Disposers = RingCapacity
         /\ Publishers = Returned
<1>1. /\ Free \in Nat /\ Returned \in Nat /\ Queued \in Nat /\ Unpublished \in Nat
  BY RingFields DEF IInv, Free, Returned, Queued, Unpublished
<1>2. /\ Writers \in Nat /\ Printers \in Nat /\ Disposers \in Nat /\ Publishers \in Nat
  BY FS_CardinalityType DEF IInv, CountInv, Stages, Writers, Printers, Disposers, Publishers
<1>. QED BY <1>1, <1>2 DEF IInv, CountInv

\* A thread that gets a slot, or gives it away, arrives where it should.
LEMMA HandsMove ==
  ASSUME IInv, NEW t \in Threads, NEW from, NEW to \in Points, Goto(t, from, to),
         NEW v, i' = [i EXCEPT ![t] = v],
         v \in Slots <=> to \in Writing \cup Printing \cup {"put_free"}
  PROVE  HandsInv'
<1>1. i \in [Threads -> Slots \cup {NoSlot}] /\ Slots' = Slots
  BY DEF IInv, TypeOK, Slots
<1>2. i'[t] = v /\ pc'[t] = to
      /\ \A u \in Threads : u # t => i'[u] = i[u] /\ pc'[u] = pc[u]
  BY <1>1, PcMoves
<1>3. HandsInv
  BY DEF IInv
<1>. QED BY <1>2, <1>3 DEF HandsInv

\* A step that leaves the rings and all hands alone
LEMMA SlotsKept ==
  ASSUME IInv, UNCHANGED <<ring_free, ring_used, i>>
  PROVE  /\ (ring_free \in Rings(Consumers, Slots))' /\ (ring_used \in Rings(Producers, Slots))'
         /\ (\A s \in Slots : IsFiniteSet(Holders(s)))' /\ EverySlotOnce'
BY DEF IInv, EverySlotOnce, TimesIn, Holders

\* A step that takes a slot out of a ring into empty hands, or the other way
Exchange(t, v) ==
  \A s \in Slots :
    TimesIn(ring_free', s) + TimesIn(ring_used', s) =
      TimesIn(ring_free, s) + TimesIn(ring_used, s)
        + (IF i[t] = s THEN 1 ELSE 0) - (IF v = s THEN 1 ELSE 0)

\* Such a step loses and duplicates no slot.
LEMMA SlotsMove ==
  ASSUME IInv, NEW t \in Threads, NEW v, i' = [i EXCEPT ![t] = v], Exchange(t, v)
  PROVE  (\A s \in Slots : IsFiniteSet(Holders(s)))' /\ EverySlotOnce'
<1>. SUFFICES ASSUME NEW s \in Slots
              PROVE  /\ IsFiniteSet(Holders(s)')
                     /\ TimesIn(ring_free', s) + TimesIn(ring_used', s) + Cardinality(Holders(s)') = 1
  BY DEF EverySlotOnce, TimesIn, Slots
<1>1. /\ IsFiniteSet(Holders(s)')
      /\ Cardinality(Holders(s)) \in Nat
      /\ Cardinality(Holders(s)') =
              Cardinality(Holders(s)) - (IF i[t] = s THEN 1 ELSE 0) + (IF v = s THEN 1 ELSE 0)
  BY ZenonT(60), HolderMoves
<1>2. TimesIn(ring_free, s) \in Nat /\ TimesIn(ring_used, s) \in Nat
  BY TimesNat DEF IInv
<1>3. TimesIn(ring_free, s) + TimesIn(ring_used, s) + Cardinality(Holders(s)) = 1
  BY DEF IInv, EverySlotOnce
<1>4. TimesIn(ring_free', s) + TimesIn(ring_used', s) =
             TimesIn(ring_free, s) + TimesIn(ring_used, s)
               + (IF i[t] = s THEN 1 ELSE 0) - (IF v = s THEN 1 ELSE 0)
  BY DEF Exchange
<1>. HIDE DEF IInv
<1>. QED BY <1>1, <1>2, <1>3, <1>4

----------------------------------------------------------------------------
(* The inductive invariant, step by step *)

\* The calls that return at once, or only begin or end to print
LEMMA QuietInv ==
  ASSUME IInv,
         \/ \E p \in Producers : (\E m \in Messages : Log(p, m)) \/ NoneFree(p)
         \/ \E c \in Consumers : Consume(c) \/ PrintSlot(c)
  PROVE  IInv'
<1>1. ASSUME NEW t \in Threads, NEW from \in Points, NEW to \in Points, Goto(t, from, to),
             from \in Writing \cup Printing \cup {"put_free"}
               <=> to \in Writing \cup Printing \cup {"put_free"},
             <<from, to>> \in {<<"idle", "take_free">>, <<"take_free", "idle">>,
                               <<"idle", "take_used">>, <<"print", "put_free">>},
             UNCHANGED <<ring_free, ring_used, i>>,
             TypeOK', MsgInv'
      PROVE  IInv'
  <2>1. pc' \in [Threads -> Points] /\ pc[t] = from
    BY <1>1, PcMoves
  <2>2. HandsInv'
    <3>1. i' = [i EXCEPT ![t] = i[t]]
      BY <1>1 DEF IInv, TypeOK
    <3>2. i[t] \in Slots <=> to \in Writing \cup Printing \cup {"put_free"}
      BY <1>1, <2>1 DEF IInv, HandsInv
    <3>. QED BY <1>1, <3>1, <3>2, HandsMove
  <2>3. CountInv'
    <3>1. /\ \A stage \in Stages : IsFiniteSet(At(stage)')
          /\ Writers' = Writers /\ Publishers' = Publishers
          /\ \/ Printers' = Printers /\ Disposers' = Disposers
             \/ Printers' = Printers - 1 /\ Disposers' = Disposers + 1
      BY <1>1, CountsMove, CountsNat DEF Writing, Printing, Disposing, Publishing
    <3>2. Free' = Free /\ Returned' = Returned /\ Queued' = Queued /\ Unpublished' = Unpublished
      BY <1>1 DEF Free, Returned, Queued, Unpublished
    <3>. QED BY <3>1, <3>2, CountsNat DEF CountInv
  <2>. QED BY <1>1, <2>1, <2>2, <2>3, SlotsKept DEF IInv
<1>2. CASE \E p \in Producers, m \in Messages : Log(p, m)
  <2>1. PICK p \in Producers, m \in Messages : Log(p, m)
    BY <1>2
  <2>2. called' \in 0 .. MaxMessages
    BY <2>1, MaxMessagesAssumption DEF IInv, TypeOK, Log
  <2>3. TypeOK'
    BY <2>1, <2>2, ThreadsAssumption DEF IInv, TypeOK, Log, Goto, Threads, RingType
  <2>4. MsgInv'
    BY <2>1 DEF IInv, TypeOK, MsgInv, Log, Goto, Threads, Writing
  <2>. QED BY <1>1, <2>1, <2>3, <2>4 DEF Log, Points, Writing, Printing, Threads
<1>3. CASE \E p \in Producers : NoneFree(p)
  <2>1. PICK p \in Producers : NoneFree(p)
    BY <1>3
  <2>2. TypeOK' /\ MsgInv'
    BY <2>1, ThreadsAssumption
       DEF IInv, TypeOK, MsgInv, NoneFree, Goto, Threads, Writing, RingType
  <2>. QED BY <1>1, <2>1, <2>2 DEF NoneFree, Points, Writing, Printing, Threads
<1>4. CASE \E c \in Consumers : Consume(c) \/ PrintSlot(c)
  <2>1. PICK c \in Consumers : Consume(c) \/ PrintSlot(c)
    BY <1>4
  <2>2. TypeOK' /\ MsgInv'
    BY ZenonT(60), <2>1, ThreadsAssumption
       DEF IInv, TypeOK, MsgInv, Consume, PrintSlot, Goto, Threads, Writing, RingType
  <2>. QED BY <1>1, <2>1, <2>2 DEF Consume, PrintSlot, Points, Writing, Printing, Threads
<1>. QED BY <1>2, <1>3, <1>4

\* strncpy writes the slot in the thread's hands, which is nobody else's.
LEMMA CopyInv ==
  ASSUME IInv, NEW p \in Producers, CopyBegins(p) \/ CopyEnds(p)
  PROVE  IInv'
<1>1. PICK from \in {"copy", "copying"}, to \in {"copying", "put_used"} :
        Goto(p, from, to) /\ from # to
  BY DEF CopyBegins, CopyEnds
<1>2. p \in Threads /\ from \in Points /\ to \in Points
      /\ UNCHANGED <<ring_free, ring_used, i, msg, rv, called>>
  BY DEF Threads, Points, CopyBegins, CopyEnds
<1>3. pc' \in [Threads -> Points] /\ pc[p] = from /\ pc'[p] = to
      /\ \A u \in Threads : u # p => pc'[u] = pc[u]
  BY <1>1, <1>2, PcMoves
<1>4. i[p] \in Slots /\ msg[p] \in Messages /\ msg_mem \in [Slots -> Messages \cup {NoMessage, Torn}]
  BY <1>1, <1>2, <1>3 DEF IInv, HandsInv, MsgInv, TypeOK, Writing
<1>5. \A u \in Threads : i[u] = i[p] => u = p
  BY <1>2, <1>4, SlotInHands
<1>6. TypeOK'
  BY <1>3, <1>4, ThreadsAssumption
     DEF IInv, TypeOK, CopyBegins, CopyEnds, Threads, RingType, Goto
<1>7. MsgInv'
  <2>. SUFFICES ASSUME NEW q \in Producers
                PROVE  /\ pc'[q] \in Writing \cup {"take_free"} => msg[q] \in Messages
                       /\ pc'[q] = "put_used" => msg_mem'[i[q]] = msg[q]
    BY <1>2 DEF MsgInv
  <2>1. CASE q = p
    BY <1>1, <1>3, <1>4, <2>1 DEF CopyBegins, CopyEnds, Goto
  <2>2. CASE q # p
    <3>1. q \in Threads /\ i[q] # i[p] /\ pc'[q] = pc[q]
      BY <1>3, <1>5, <2>2 DEF Threads
    <3>2. pc[q] = "put_used" => i[q] \in Slots
      BY <3>1 DEF IInv, HandsInv, Writing
    <3>3. msg_mem'[i[q]] = msg_mem[i[q]] \/ i[q] \notin Slots
      BY <1>4, <3>1 DEF CopyBegins, CopyEnds
    <3>. QED BY <3>1, <3>2, <3>3 DEF IInv, MsgInv
  <2>. QED BY <2>1, <2>2
<1>8. HandsInv'
  <2>1. i' = [i EXCEPT ![p] = i[p]]
    BY <1>2 DEF IInv, TypeOK
  <2>2. i[p] \in Slots <=> to \in Writing \cup Printing \cup {"put_free"}
    BY <1>4 DEF Writing
  <2>. QED BY <1>1, <1>2, <2>1, <2>2, HandsMove
<1>9. CountInv'
  <2>1. /\ \A stage \in Stages : IsFiniteSet(At(stage)')
        /\ Writers' = Writers /\ Printers' = Printers
        /\ Disposers' = Disposers /\ Publishers' = Publishers
    BY <1>1, <1>2, CountsMove, CountsNat DEF Writing, Printing, Disposing, Publishing
  <2>2. Free' = Free /\ Returned' = Returned /\ Queued' = Queued /\ Unpublished' = Unpublished
    BY <1>2 DEF Free, Returned, Queued, Unpublished
  <2>. QED BY <2>1, <2>2, CountsNat DEF CountInv
<1>. QED BY <1>2, <1>3, <1>6, <1>7, <1>8, <1>9, SlotsKept DEF IInv

\* Taking a slot from ring_free makes its head the logging thread's.
LEMMA TakeFreeInv ==
  ASSUME IInv, NEW p \in Producers, TakeFree(p)
  PROVE  IInv'
<1>. DEFINE v == Head(ring_free.queue)
<1>1. /\ Goto(p, "take_free", "copy") /\ ring_free.queue # <<>>
      /\ i' = [i EXCEPT ![p] = v] /\ ring_free' = TakeHead(ring_free)
      /\ UNCHANGED <<ring_used, msg_mem, msg, rv, called>>
  BY DEF TakeFree, RingEmpty
<1>2. p \in Threads /\ "copy" \in Points
  BY DEF Threads, Points
<1>3. pc' \in [Threads -> Points] /\ pc[p] = "take_free" /\ pc'[p] = "copy"
      /\ \A u \in Threads : u # p => pc'[u] = pc[u]
  BY <1>1, <1>2, PcMoves
<1>4. ring_free \in Rings(Consumers, Slots) /\ ring_used \in Rings(Producers, Slots)
  BY DEF IInv
<1>5. v \in Slots /\ ring_free' \in Rings(Consumers, Slots)
      /\ Len(ring_free'.queue) = Len(ring_free.queue) - 1 /\ ring_free'.pending = ring_free.pending
  <2>1. v \in Slots
    BY <1>1, <1>4, RingFields
  <2>. QED BY <1>1, <1>4, <2>1, TakeIsRing
<1>. HIDE DEF v
<1>6. HandsInv'
  BY <1>1, <1>2, <1>5, HandsMove DEF Writing
<1>7. CountInv'
  <2>1. /\ \A stage \in Stages : IsFiniteSet(At(stage)')
        /\ Writers' = Writers + 1 /\ Printers' = Printers
        /\ Disposers' = Disposers /\ Publishers' = Publishers
    BY SMTT(60), <1>1, <1>2, CountsMove, CountsNat DEF Writing, Printing, Disposing, Publishing
  <2>2. Free' = Free - 1 /\ Returned' = Returned /\ Queued' = Queued /\ Unpublished' = Unpublished
    BY <1>1, <1>5 DEF Free, Returned, Queued, Unpublished
  <2>. QED BY <2>1, <2>2, CountsNat DEF CountInv
<1>8. (\A s \in Slots : IsFiniteSet(Holders(s)))' /\ EverySlotOnce'
  <2>1. i[p] \notin Slots
    BY <1>2, <1>3 DEF IInv, HandsInv, Writing, Printing
  <2>2. Exchange(p, v)
    <3>. SUFFICES ASSUME NEW s \in Slots
                  PROVE  TimesIn(ring_free', s) + TimesIn(ring_used', s) =
                           TimesIn(ring_free, s) + TimesIn(ring_used, s)
                             + (IF i[p] = s THEN 1 ELSE 0) - (IF v = s THEN 1 ELSE 0)
      BY DEF Exchange
    <3>1. TimesIn(ring_free', s) = TimesIn(ring_free, s) - (IF v = s THEN 1 ELSE 0)
      BY <1>1, <1>4, TimesTake DEF v
    <3>2. TimesIn(ring_free, s) \in Nat /\ TimesIn(ring_used, s) \in Nat
      BY <1>4, TimesNat
    <3>. QED BY <1>1, <2>1, <3>1, <3>2
  <2>. QED BY <1>1, <1>2, <2>2, SlotsMove
<1>9. MsgInv'
  BY <1>1, <1>2, <1>3 DEF IInv, TypeOK, MsgInv, Writing, Threads
<1>10. TypeOK'
  <2>1. RingType(ring_free', Consumers) /\ RingType(ring_used', Producers)
    BY <1>1, <1>4, <1>5, RingFields DEF RingType, Tickets
  <2>2. i' \in [Threads -> Slots \cup {NoSlot}]
    BY <1>1, <1>5 DEF IInv, TypeOK
  <2>. QED BY <1>1, <1>3, <2>1, <2>2, ThreadsAssumption DEF IInv, TypeOK, Threads, RingType
<1>. QED BY <1>1, <1>3, <1>4, <1>5, <1>6, <1>7, <1>8, <1>9, <1>10 DEF IInv

\* Taking a slot from ring_used makes its head the printing thread's.
LEMMA TakeUsedInv ==
  ASSUME IInv, NEW c \in Consumers, TakeUsed(c)
  PROVE  IInv'
<1>. DEFINE v == Head(ring_used.queue)
<1>1. /\ Goto(c, "take_used", "print") /\ ring_used.queue # <<>>
      /\ i' = [i EXCEPT ![c] = v] /\ ring_used' = TakeHead(ring_used)
      /\ UNCHANGED <<ring_free, msg_mem, msg, rv, called>>
  BY DEF TakeUsed, RingEmpty
<1>2. c \in Threads /\ "print" \in Points
  BY DEF Threads, Points
<1>3. pc' \in [Threads -> Points] /\ pc[c] = "take_used" /\ pc'[c] = "print"
      /\ \A u \in Threads : u # c => pc'[u] = pc[u]
  BY <1>1, <1>2, PcMoves
<1>4. ring_free \in Rings(Consumers, Slots) /\ ring_used \in Rings(Producers, Slots)
  BY DEF IInv
<1>5. v \in Slots /\ ring_used' \in Rings(Producers, Slots)
      /\ Len(ring_used'.queue) = Len(ring_used.queue) - 1 /\ ring_used'.pending = ring_used.pending
  <2>1. v \in Slots
    BY <1>1, <1>4, RingFields
  <2>. QED BY <1>1, <1>4, <2>1, TakeIsRing
<1>. HIDE DEF v
<1>6. HandsInv'
  BY <1>1, <1>2, <1>5, HandsMove DEF Printing
<1>7. CountInv'
  <2>1. /\ \A stage \in Stages : IsFiniteSet(At(stage)')
        /\ Writers' = Writers /\ Printers' = Printers + 1
        /\ Disposers' = Disposers /\ Publishers' = Publishers
    <3>1. /\ "take_used" \notin Writing /\ "print" \notin Writing
          /\ "take_used" \notin Printing /\ "print" \in Printing
          /\ "take_used" \notin Disposing /\ "print" \notin Disposing
          /\ "take_used" \notin Publishing /\ "print" \notin Publishing
      BY DEF Writing, Printing, Disposing, Publishing
    <3>. QED BY <1>1, <1>2, <3>1, CountsMove, CountsNat
  <2>2. Free' = Free /\ Returned' = Returned /\ Queued' = Queued - 1 /\ Unpublished' = Unpublished
    BY <1>1, <1>5 DEF Free, Returned, Queued, Unpublished
  <2>. QED BY <2>1, <2>2, CountsNat DEF CountInv
<1>8. (\A s \in Slots : IsFiniteSet(Holders(s)))' /\ EverySlotOnce'
  <2>1. i[c] \notin Slots
    BY <1>2, <1>3 DEF IInv, HandsInv, Writing, Printing
  <2>2. Exchange(c, v)
    <3>. SUFFICES ASSUME NEW s \in Slots
                  PROVE  TimesIn(ring_free', s) + TimesIn(ring_used', s) =
                           TimesIn(ring_free, s) + TimesIn(ring_used, s)
                             + (IF i[c] = s THEN 1 ELSE 0) - (IF v = s THEN 1 ELSE 0)
      BY DEF Exchange
    <3>1. TimesIn(ring_used', s) = TimesIn(ring_used, s) - (IF v = s THEN 1 ELSE 0)
      BY <1>1, <1>4, TimesTake DEF v
    <3>2. TimesIn(ring_free, s) \in Nat /\ TimesIn(ring_used, s) \in Nat
      BY <1>4, TimesNat
    <3>. QED BY <1>1, <2>1, <3>1, <3>2
  <2>. QED BY <1>1, <1>2, <2>2, SlotsMove
<1>9. MsgInv'
  BY <1>1, <1>2, <1>3, ThreadsAssumption DEF IInv, TypeOK, MsgInv, Writing, Threads
<1>10. TypeOK'
  <2>1. RingType(ring_free', Consumers) /\ RingType(ring_used', Producers)
    BY <1>1, <1>4, <1>5, RingFields DEF RingType, Tickets
  <2>2. i' \in [Threads -> Slots \cup {NoSlot}]
    BY <1>1, <1>5 DEF IInv, TypeOK
  <2>. QED BY <1>1, <1>3, <2>1, <2>2, ThreadsAssumption DEF IInv, TypeOK, Threads, RingType
<1>. QED BY <1>1, <1>3, <1>4, <1>5, <1>6, <1>7, <1>8, <1>9, <1>10 DEF IInv

\* The slot leaves the hands of the logging thread with its ticket.
LEMMA PutUsedInv ==
  ASSUME IInv, NEW p \in Producers, PutUsed(p)
  PROVE  IInv'
<1>. DEFINE v == i[p]
<1>1. /\ Goto(p, "put_used", "publish_used")
      /\ i' = [i EXCEPT ![p] = NoSlot] /\ ring_used' = ReserveTicket(ring_used, p, v)
      /\ UNCHANGED <<ring_free, msg_mem, rv, called>>
  BY DEF PutUsed
<1>2. p \in Threads /\ "publish_used" \in Points
  BY DEF Threads, Points
<1>3. pc' \in [Threads -> Points] /\ pc[p] = "put_used" /\ pc'[p] = "publish_used"
      /\ \A u \in Threads : u # p => pc'[u] = pc[u]
  BY <1>1, <1>2, PcMoves
<1>4. ring_free \in Rings(Consumers, Slots) /\ ring_used \in Rings(Producers, Slots)
  BY DEF IInv
<1>5. v \in Slots /\ ring_used' \in Rings(Producers, Slots)
      /\ ring_used'.queue = ring_used.queue /\ Len(ring_used'.pending) = Len(ring_used.pending) + 1
  <2>1. v \in Slots
    BY <1>2, <1>3 DEF IInv, HandsInv, Writing
  <2>. HIDE DEF v
  <2>. QED BY <1>1, <1>4, <2>1, ReserveLengths
<1>6. HandsInv'
  BY <1>1, <1>2, ConstantFacts, HandsMove DEF Writing, Printing
<1>7. CountInv'
  <2>1. /\ \A stage \in Stages : IsFiniteSet(At(stage)')
        /\ Writers' = Writers - 1 /\ Printers' = Printers
        /\ Disposers' = Disposers /\ Publishers' = Publishers
    <3>1. /\ "put_used" \in Writing /\ "publish_used" \notin Writing
          /\ "put_used" \notin Printing /\ "publish_used" \notin Printing
          /\ "put_used" \notin Disposing /\ "publish_used" \notin Disposing
          /\ "put_used" \notin Publishing /\ "publish_used" \notin Publishing
      BY DEF Writing, Printing, Disposing, Publishing
    <3>. QED BY <1>1, <1>2, <3>1, CountsMove, CountsNat
  <2>2. Free' = Free /\ Returned' = Returned /\ Queued' = Queued /\ Unpublished' = Unpublished + 1
    BY <1>1, <1>5 DEF Free, Returned, Queued, Unpublished
  <2>. QED BY <2>1, <2>2, CountsNat DEF CountInv
<1>8. (\A s \in Slots : IsFiniteSet(Holders(s)))' /\ EverySlotOnce'
  <2>. HIDE DEF v
  <2>1. Exchange(p, NoSlot)
    <3>. SUFFICES ASSUME NEW s \in Slots
                  PROVE  TimesIn(ring_free', s) + TimesIn(ring_used', s) =
                           TimesIn(ring_free, s) + TimesIn(ring_used, s)
                             + (IF i[p] = s THEN 1 ELSE 0) - (IF NoSlot = s THEN 1 ELSE 0)
      BY DEF Exchange
    <3>1. TimesIn(ring_used', s) = TimesIn(ring_used, s) + (IF v = s THEN 1 ELSE 0)
      BY <1>1, <1>4, <1>5, TimesReserve
    <3>2. TimesIn(ring_free, s) \in Nat /\ TimesIn(ring_used, s) \in Nat
      BY <1>4, TimesNat
    <3>3. s # NoSlot /\ v = i[p]
      BY ConstantFacts DEF v
    <3>. QED BY <1>1, <3>1, <3>2, <3>3
  <2>. QED BY <1>1, <1>2, <2>1, SlotsMove
<1>. HIDE DEF v
<1>9. MsgInv'
  BY <1>1, <1>2, <1>3, ThreadsAssumption DEF IInv, TypeOK, MsgInv, Writing, Threads, PutUsed
<1>10. TypeOK'
  <2>1. RingType(ring_free', Consumers) /\ RingType(ring_used', Producers)
    BY <1>1, <1>4, <1>5, RingFields DEF RingType, Tickets
  <2>2. i' \in [Threads -> Slots \cup {NoSlot}]
    BY <1>1 DEF IInv, TypeOK
  <2>. QED BY <1>1, <1>3, <2>1, <2>2, ThreadsAssumption DEF IInv, TypeOK, Threads, RingType, PutUsed
<1>. QED BY <1>1, <1>3, <1>4, <1>5, <1>6, <1>7, <1>8, <1>9, <1>10 DEF IInv

\* The slot leaves the hands of the printing thread with its ticket.
LEMMA PutFreeInv ==
  ASSUME IInv, NEW c \in Consumers, PutFree(c)
  PROVE  IInv'
<1>. DEFINE v == i[c]
<1>1. /\ Goto(c, "put_free", "publish_free")
      /\ i' = [i EXCEPT ![c] = NoSlot] /\ ring_free' = ReserveTicket(ring_free, c, v)
      /\ UNCHANGED <<ring_used, msg_mem, msg, rv, called>>
  BY DEF PutFree
<1>2. c \in Threads /\ "publish_free" \in Points
  BY DEF Threads, Points
<1>3. pc' \in [Threads -> Points] /\ pc[c] = "put_free" /\ pc'[c] = "publish_free"
      /\ \A u \in Threads : u # c => pc'[u] = pc[u]
  BY <1>1, <1>2, PcMoves
<1>4. ring_free \in Rings(Consumers, Slots) /\ ring_used \in Rings(Producers, Slots)
  BY DEF IInv
<1>5. v \in Slots /\ ring_free' \in Rings(Consumers, Slots)
      /\ ring_free'.queue = ring_free.queue /\ Len(ring_free'.pending) = Len(ring_free.pending) + 1
  <2>1. v \in Slots
    BY <1>2, <1>3 DEF IInv, HandsInv, Writing
  <2>. HIDE DEF v
  <2>. QED BY <1>1, <1>4, <2>1, ReserveLengths
<1>6. HandsInv'
  BY <1>1, <1>2, ConstantFacts, HandsMove DEF Writing, Printing
<1>7. CountInv'
  <2>1. /\ \A stage \in Stages : IsFiniteSet(At(stage)')
        /\ Writers' = Writers /\ Printers' = Printers
        /\ Disposers' = Disposers /\ Publishers' = Publishers + 1
    <3>1. /\ "put_free" \notin Writing /\ "publish_free" \notin Writing
          /\ "put_free" \notin Printing /\ "publish_free" \notin Printing
          /\ "put_free" \in Disposing /\ "publish_free" \in Disposing
          /\ "put_free" \notin Publishing /\ "publish_free" \in Publishing
      BY DEF Writing, Printing, Disposing, Publishing
    <3>. QED BY <1>1, <1>2, <3>1, CountsMove, CountsNat
  <2>2. Free' = Free /\ Returned' = Returned + 1 /\ Queued' = Queued /\ Unpublished' = Unpublished
    BY <1>1, <1>5 DEF Free, Returned, Queued, Unpublished
  <2>. QED BY <2>1, <2>2, CountsNat DEF CountInv
<1>8. (\A s \in Slots : IsFiniteSet(Holders(s)))' /\ EverySlotOnce'
  <2>. HIDE DEF v
  <2>1. Exchange(c, NoSlot)
    <3>. SUFFICES ASSUME NEW s \in Slots
                  PROVE  TimesIn(ring_free', s) + TimesIn(ring_used', s) =
                           TimesIn(ring_free, s) + TimesIn(ring_used, s)
                             + (IF i[c] = s THEN 1 ELSE 0) - (IF NoSlot = s THEN 1 ELSE 0)
      BY DEF Exchange
    <3>1. TimesIn(ring_free', s) = TimesIn(ring_free, s) + (IF v = s THEN 1 ELSE 0)
      BY <1>1, <1>4, <1>5, TimesReserve
    <3>2. TimesIn(ring_free, s) \in Nat /\ TimesIn(ring_used, s) \in Nat
      BY <1>4, TimesNat
    <3>3. s # NoSlot /\ v = i[c]
      BY ConstantFacts DEF v
    <3>. QED BY <1>1, <3>1, <3>2, <3>3
  <2>. QED BY <1>1, <1>2, <2>1, SlotsMove
<1>. HIDE DEF v
<1>9. MsgInv'
  BY <1>1, <1>2, <1>3, ThreadsAssumption DEF IInv, TypeOK, MsgInv, Writing, Threads, PutFree
<1>10. TypeOK'
  <2>1. RingType(ring_free', Consumers) /\ RingType(ring_used', Producers)
    BY <1>1, <1>4, <1>5, RingFields DEF RingType, Tickets
  <2>2. i' \in [Threads -> Slots \cup {NoSlot}]
    BY <1>1 DEF IInv, TypeOK
  <2>. QED BY <1>1, <1>3, <2>1, <2>2, ThreadsAssumption DEF IInv, TypeOK, Threads, RingType, PutFree
<1>. QED BY <1>1, <1>3, <1>4, <1>5, <1>6, <1>7, <1>8, <1>9, <1>10 DEF IInv

\* Publishing the oldest ticket of ring_used; the function returns.
LEMMA PublishUsedInv ==
  ASSUME IInv, NEW p \in Producers, PublishUsed(p)
  PROVE  IInv'
<1>1. /\ Goto(p, "publish_used", "idle") /\ ring_used.pending # <<>>
      /\ ring_used' = PublishTicket(ring_used)
      /\ UNCHANGED <<ring_free, i, msg_mem, msg, called>>
  BY DEF PublishUsed, MayPublish
<1>2. p \in Threads /\ "idle" \in Points
  BY DEF Threads, Points
<1>3. pc' \in [Threads -> Points] /\ pc[p] = "publish_used" /\ pc'[p] = "idle"
      /\ \A u \in Threads : u # p => pc'[u] = pc[u]
  BY <1>1, <1>2, PcMoves
<1>4. ring_free \in Rings(Consumers, Slots) /\ ring_used \in Rings(Producers, Slots)
  BY DEF IInv
<1>5. /\ ring_used' \in Rings(Producers, Slots)
      /\ Len(ring_used'.queue) = Len(ring_used.queue) + 1
      /\ Len(ring_used'.pending) = Len(ring_used.pending) - 1
  BY <1>1, <1>4, PublishIsRing
<1>6. /\ i' = [i EXCEPT ![p] = i[p]] /\ i[p] \notin Slots
  BY <1>1, <1>2, <1>3 DEF IInv, TypeOK, HandsInv, Writing, Printing
<1>7. HandsInv'
  BY ZenonT(60), <1>1, <1>2, <1>6, HandsMove DEF Writing, Printing
<1>8. CountInv'
  <2>1. /\ \A stage \in Stages : IsFiniteSet(At(stage)')
        /\ Writers' = Writers /\ Printers' = Printers
        /\ Disposers' = Disposers /\ Publishers' = Publishers
    <3>1. /\ "publish_used" \notin Writing /\ "idle" \notin Writing
          /\ "publish_used" \notin Printing /\ "idle" \notin Printing
          /\ "publish_used" \notin Disposing /\ "idle" \notin Disposing
          /\ "publish_used" \notin Publishing /\ "idle" \notin Publishing
      BY DEF Writing, Printing, Disposing, Publishing
    <3>. QED BY <1>1, <1>2, <3>1, CountsMove, CountsNat
  <2>2. Free' = Free /\ Returned' = Returned /\ Queued' = Queued + 1 /\ Unpublished' = Unpublished - 1
    BY <1>1, <1>5 DEF Free, Returned, Queued, Unpublished
  <2>. QED BY <2>1, <2>2, CountsNat DEF CountInv
<1>9. (\A s \in Slots : IsFiniteSet(Holders(s)))' /\ EverySlotOnce'
  <2>1. Exchange(p, i[p])
    <3>. SUFFICES ASSUME NEW s \in Slots
                  PROVE  TimesIn(ring_free', s) + TimesIn(ring_used', s) =
                           TimesIn(ring_free, s) + TimesIn(ring_used, s)
                             + (IF i[p] = s THEN 1 ELSE 0) - (IF i[p] = s THEN 1 ELSE 0)
      BY DEF Exchange
    <3>1. TimesIn(ring_used', s) = TimesIn(ring_used, s)
      BY <1>1, <1>4, TimesPublish
    <3>2. TimesIn(ring_free, s) \in Nat /\ TimesIn(ring_used, s) \in Nat
      BY <1>4, TimesNat
    <3>. QED BY <1>1, <3>1, <3>2
  <2>. QED BY <1>2, <1>6, <2>1, SlotsMove
<1>10. MsgInv'
  BY <1>1, <1>2, <1>3, ThreadsAssumption DEF IInv, TypeOK, MsgInv, Writing, Threads
<1>11. TypeOK'
  <2>1. RingType(ring_free', Consumers) /\ RingType(ring_used', Producers)
    BY <1>1, <1>4, <1>5, RingFields DEF RingType, Tickets
  <2>2. rv' \in [Producers -> BOOLEAN]
    BY DEF IInv, TypeOK, PublishUsed
  <2>. QED BY <1>1, <1>3, <2>1, <2>2, ThreadsAssumption DEF IInv, TypeOK, Threads, RingType
<1>. QED BY <1>1, <1>3, <1>4, <1>5, <1>7, <1>8, <1>9, <1>10, <1>11 DEF IInv

\* Publishing the oldest ticket of ring_free; the slot can be taken again.
LEMMA PublishFreeInv ==
  ASSUME IInv, NEW c \in Consumers, PublishFree(c)
  PROVE  IInv'
<1>1. /\ Goto(c, "publish_free", "idle") /\ ring_free.pending # <<>>
      /\ ring_free' = PublishTicket(ring_free)
      /\ UNCHANGED <<ring_used, i, msg_mem, msg, rv, called>>
  BY DEF PublishFree, MayPublish
<1>2. c \in Threads /\ "idle" \in Points
  BY DEF Threads, Points
<1>3. pc' \in [Threads -> Points] /\ pc[c] = "publish_free" /\ pc'[c] = "idle"
      /\ \A u \in Threads : u # c => pc'[u] = pc[u]
  BY <1>1, <1>2, PcMoves
<1>4. ring_free \in Rings(Consumers, Slots) /\ ring_used \in Rings(Producers, Slots)
  BY DEF IInv
<1>5. /\ ring_free' \in Rings(Consumers, Slots)
      /\ Len(ring_free'.queue) = Len(ring_free.queue) + 1
      /\ Len(ring_free'.pending) = Len(ring_free.pending) - 1
  BY <1>1, <1>4, PublishIsRing
<1>6. /\ i' = [i EXCEPT ![c] = i[c]] /\ i[c] \notin Slots
  BY <1>1, <1>2, <1>3 DEF IInv, TypeOK, HandsInv, Writing, Printing
<1>7. HandsInv'
  BY ZenonT(60), <1>1, <1>2, <1>6, HandsMove DEF Writing, Printing
<1>8. CountInv'
  <2>1. /\ \A stage \in Stages : IsFiniteSet(At(stage)')
        /\ Writers' = Writers /\ Printers' = Printers
        /\ Disposers' = Disposers - 1 /\ Publishers' = Publishers - 1
    <3>1. /\ "publish_free" \notin Writing /\ "idle" \notin Writing
          /\ "publish_free" \notin Printing /\ "idle" \notin Printing
          /\ "publish_free" \in Disposing /\ "idle" \notin Disposing
          /\ "publish_free" \in Publishing /\ "idle" \notin Publishing
      BY DEF Writing, Printing, Disposing, Publishing
    <3>. QED BY <1>1, <1>2, <3>1, CountsMove, CountsNat
  <2>2. Free' = Free + 1 /\ Returned' = Returned - 1 /\ Queued' = Queued /\ Unpublished' = Unpublished
    BY <1>1, <1>5 DEF Free, Returned, Queued, Unpublished
  <2>. QED BY <2>1, <2>2, CountsNat DEF CountInv
<1>9. (\A s \in Slots : IsFiniteSet(Holders(s)))' /\ EverySlotOnce'
  <2>1. Exchange(c, i[c])
    <3>. SUFFICES ASSUME NEW s \in Slots
                  PROVE  TimesIn(ring_free', s) + TimesIn(ring_used', s) =
                           TimesIn(ring_free, s) + TimesIn(ring_used, s)
                             + (IF i[c] = s THEN 1 ELSE 0) - (IF i[c] = s THEN 1 ELSE 0)
      BY DEF Exchange
    <3>1. TimesIn(ring_free', s) = TimesIn(ring_free, s)
      BY <1>1, <1>4, TimesPublish
    <3>2. TimesIn(ring_free, s) \in Nat /\ TimesIn(ring_used, s) \in Nat
      BY <1>4, TimesNat
    <3>. QED BY <1>1, <3>1, <3>2
  <2>. QED BY <1>2, <1>6, <2>1, SlotsMove
<1>10. MsgInv'
  BY <1>1, <1>2, <1>3, ThreadsAssumption DEF IInv, TypeOK, MsgInv, Writing, Threads
<1>11. TypeOK'
  <2>1. RingType(ring_free', Consumers) /\ RingType(ring_used', Producers)
    BY <1>1, <1>4, <1>5, RingFields DEF RingType, Tickets
  <2>2. rv' \in [Producers -> BOOLEAN]
    BY DEF IInv, TypeOK, PublishFree
  <2>. QED BY <1>1, <1>3, <2>1, <2>2, ThreadsAssumption DEF IInv, TypeOK, Threads, RingType
<1>. QED BY <1>1, <1>3, <1>4, <1>5, <1>7, <1>8, <1>9, <1>10, <1>11 DEF IInv

\* Every step of the log keeps the invariant.
LEMMA NextInv == IInv /\ [Next]_vars => IInv'
<1>. SUFFICES ASSUME IInv, [Next]_vars PROVE IInv'
  OBVIOUS
<1>1. ASSUME NEW p \in Producers, ProducerStep(p) PROVE IInv'
  BY <1>1, TakeFreeInv, QuietInv, CopyInv, PutUsedInv, PublishUsedInv DEF ProducerStep
<1>2. ASSUME NEW c \in Consumers, ConsumerStep(c) PROVE IInv'
  BY <1>2, TakeUsedInv, QuietInv, PutFreeInv, PublishFreeInv DEF ConsumerStep
<1>3. ASSUME NEW p \in Producers, NEW m \in Messages, Log(p, m) PROVE IInv'
  BY <1>3, QuietInv
<1>4. CASE UNCHANGED vars
  <2>1. UNCHANGED <<ring_free, ring_used, msg_mem, pc, i, msg, rv, called>>
    BY <1>4 DEF vars
  <2>2. TypeOK' /\ HandsInv' /\ MsgInv'
    BY <2>1 DEF IInv, TypeOK, RingType, HandsInv, MsgInv
  <2>3. CountInv'
    <3>1. \A stage \in Stages : IsFiniteSet(At(stage)')
      BY <2>1 DEF IInv, CountInv, At
    <3>2. /\ Writers' = Writers /\ Printers' = Printers
          /\ Disposers' = Disposers /\ Publishers' = Publishers
      BY <2>1 DEF Writers, Printers, Disposers, Publishers, At
    <3>3. Free' = Free /\ Returned' = Returned /\ Queued' = Queued /\ Unpublished' = Unpublished
      BY <2>1 DEF Free, Returned, Queued, Unpublished
    <3>. QED BY <3>1, <3>2, <3>3 DEF IInv, CountInv
  <2>. QED BY <2>1, <2>2, <2>3, SlotsKept DEF IInv
<1>. QED BY <1>1, <1>2, <1>3, <1>4 DEF Next

\* Every reachable state satisfies the inductive invariant.
THEOREM Invariance == Spec => []IInv
BY InitInv, NextInv, PTL DEF Spec

----------------------------------------------------------------------------
(* The invariants the runs check *)

\* Every variable keeps its type: a slot number in hands or in a ring is that
\* of a slot eg_cklog_create has offered.
THEOREM TypeCorrect == Spec => []TypeOK
<1>1. IInv => TypeOK
  BY DEF IInv
<1>. QED BY <1>1, Invariance, PTL

\* eg_cklog_enqueue and eg_cklog_consume never lose a slot, never put one into
\* circulation twice, and never let two threads use the same one.
THEOREM SlotsCirculate == Spec => []EverySlotOnce
<1>1. IInv => EverySlotOnce
  BY DEF IInv
<1>. QED BY <1>1, Invariance, PTL

\* A thread at some point is one of those that are counted there.
LEMMA Counted ==
  ASSUME IInv, NEW t \in Threads, NEW stage \in Stages, pc[t] \in stage
  PROVE  Cardinality(At(stage)) \in Nat \ {0}
<1>1. IsFiniteSet(At(stage)) /\ t \in At(stage)
  BY DEF IInv, CountInv, At
<1>. QED BY <1>1, FS_CardinalityType, FS_EmptySet

\* There is room for what a thread has in its hands.
LEMMA RoomForSlot == IInv => PutNeverFails
<1>. SUFFICES ASSUME IInv, NEW t \in Threads
              PROVE  /\ pc[t] = "put_used" => ~ RingFull(ring_used, RingCapacity)
                     /\ pc[t] = "put_free" => ~ RingFull(ring_free, RingCapacity)
  BY DEF PutNeverFails
<1>1. CASE pc[t] = "put_used"
  <2>1. Writers \in Nat \ {0}
    BY <1>1, Counted DEF Writers, Stages, Writing
  <2>2. Queued + Unpublished < RingCapacity
    BY <2>1, CountsNat, ConstantFacts
  <2>3. Occupied(ring_used) = Queued + Unpublished
    BY DEF Occupied, Queued, Unpublished
  <2>. QED BY <1>1, <2>2, <2>3, CountsNat, ConstantFacts DEF RingFull
<1>2. CASE pc[t] = "put_free"
  <2>1. /\ IsFiniteSet(At(Disposing)) /\ IsFiniteSet(At(Publishing))
        /\ t \notin At(Publishing) /\ At(Publishing) \cup {t} \subseteq At(Disposing)
    BY <1>2 DEF IInv, CountInv, Stages, At, Disposing, Publishing
  <2>2. Cardinality(At(Publishing) \cup {t}) = Publishers + 1
    BY <2>1, FS_AddElement DEF Publishers
  <2>3. Publishers + 1 <= Disposers
    BY <2>1, <2>2, FS_Subset DEF Disposers
  <2>4. Free + Returned < RingCapacity
    BY SMTT(60), <2>3, CountsNat, ConstantFacts
  <2>5. Occupied(ring_free) = Free + Returned
    BY DEF Occupied, Free, Returned
  <2>. QED BY <1>2, <2>4, <2>5, CountsNat, ConstantFacts DEF RingFull
<1>. QED BY <1>1, <1>2

\* The retry loops behind ck_ring_enqueue_mpmc in eg_cklog_enqueue and
\* eg_cklog_consume are never entered: a thread that gives back a slot finds
\* room in the ring, whatever the others do.
THEOREM PutsSucceed == Spec => []PutNeverFails
BY RoomForSlot, Invariance, PTL

----------------------------------------------------------------------------
(* The log implements MsgLog: what a step does to the mapped state *)

PhaseOf(point) ==
  CASE point = "take_free" -> "asking"
    [] point \in {"copy", "copying", "put_used"} -> "writing"
    [] point = "publish_used" -> "accepted"
    [] point = "take_used" -> "waiting"
    [] point = "print" -> "printing"
    [] point \in {"put_free", "publish_free"} -> "disposing"
    [] OTHER -> "idle"

Memory == Messages \cup {NoMessage, Torn}

\* The phase of a thread depends on its point only.
LEMMA PhaseIs ==
  /\ Phase = [t \in Threads |-> PhaseOf(pc[t])]
  /\ Phase' = [t \in Threads |-> PhaseOf(pc'[t])]
  /\ PhaseOf("idle") = "idle" /\ PhaseOf("take_free") = "asking"
  /\ PhaseOf("copy") = "writing" /\ PhaseOf("copying") = "writing"
  /\ PhaseOf("put_used") = "writing" /\ PhaseOf("publish_used") = "accepted"
  /\ PhaseOf("take_used") = "waiting" /\ PhaseOf("print") = "printing"
  /\ PhaseOf("put_free") = "disposing" /\ PhaseOf("publish_free") = "disposing"
BY DEF Phase, PhaseOf

\* A thread that moves to another phase does what MsgLog's thread does.
LEMMA PhaseMoves ==
  ASSUME IInv, NEW t \in Threads, NEW from, NEW to \in Points, Goto(t, from, to)
  PROVE  ML!Goto(t, PhaseOf(from), PhaseOf(to))
<1>1. pc[t] = from /\ pc'[t] = to /\ \A u \in Threads : u # t => pc'[u] = pc[u]
  BY PcMoves
<1>2. Phase = [u \in Threads |-> PhaseOf(pc[u])] /\ Phase' = [u \in Threads |-> PhaseOf(pc'[u])]
  BY PhaseIs
<1>3. Phase[t] = PhaseOf(from) /\ Phase' = [Phase EXCEPT ![t] = PhaseOf(to)]
  BY <1>1, <1>2
<1>. QED BY <1>3 DEF ML!Goto

\* A thread that stays in its phase does nothing.
LEMMA PhaseStays ==
  ASSUME IInv, NEW t \in Threads, NEW from, NEW to \in Points, Goto(t, from, to),
         PhaseOf(from) = PhaseOf(to)
  PROVE  Phase' = Phase
<1>1. pc[t] = from /\ pc'[t] = to /\ \A u \in Threads : u # t => pc'[u] = pc[u]
  BY PcMoves
<1>2. Phase = [u \in Threads |-> PhaseOf(pc[u])] /\ Phase' = [u \in Threads |-> PhaseOf(pc'[u])]
  BY PhaseIs
<1>. QED BY <1>1, <1>2

\* The backlog is what the slots in ring_used hold.
LEMMA BacklogIs ==
  /\ Backlog = Through(msg_mem, Contents(ring_used))
  /\ Backlog' = Through(msg_mem', Contents(ring_used'))
BY DEF Backlog, InSlots, Through, Contents

\* The Cardinality of MsgLog is the one of the library.
LEMMA SameCardinality == \A S : ML!Cardinality(S) = Cardinality(S)
BY DEF ML!Cardinality, Cardinality

\* MsgLog counts the slots as CountInv does.
LEMMA InUseIs == IInv => ML!InUse \in Nat /\ ML!InUse + Free = RingCapacity
<1>. SUFFICES ASSUME IInv PROVE ML!InUse \in Nat /\ ML!InUse + Free = RingCapacity
  OBVIOUS
<1>1. Len(Backlog) = Queued + Unpublished
  <2>1. ring_used \in Rings(Producers, Slots) /\ msg_mem \in [Slots -> Memory]
    BY DEF IInv, TypeOK, Memory
  <2>2. Contents(ring_used) \in Seq(Slots) /\ Len(Contents(ring_used)) = Queued + Unpublished
    BY <2>1, ContentsIsSeq DEF Queued, Unpublished
  <2>3. Len(Through(msg_mem, Contents(ring_used))) = Len(Contents(ring_used))
    BY <2>2, ThroughLen
  <2>. QED BY <2>2, <2>3, BacklogIs
<1>2. \A t \in Threads : pc[t] \in Points
  BY DEF IInv
<1>3. \A t \in Threads :
        /\ PhaseOf(pc[t]) = "writing" <=> pc[t] \in Writing
        /\ PhaseOf(pc[t]) = "printing" <=> pc[t] \in Printing
        /\ PhaseOf(pc[t]) = "disposing" <=> pc[t] \in Disposing
  BY <1>2 DEF PhaseOf, Points, Writing, Printing, Disposing
<1>4. /\ ML!In("writing") = At(Writing) /\ ML!In("printing") = At(Printing)
      /\ ML!In("disposing") = At(Disposing)
  BY <1>3, PhaseIs DEF ML!In, ML!Threads, At, Threads
<1>5. ML!InUse = (Queued + Unpublished) + Writers + Printers + Disposers
  <2>1. ML!InUse = Len(Backlog) + Cardinality(ML!In("writing"))
          + Cardinality(ML!In("printing")) + Cardinality(ML!In("disposing"))
    BY SameCardinality DEF ML!InUse
  <2>2. /\ Cardinality(ML!In("writing")) = Writers /\ Cardinality(ML!In("printing")) = Printers
        /\ Cardinality(ML!In("disposing")) = Disposers
    BY <1>4 DEF Writers, Printers, Disposers
  <2>. QED BY <1>1, <2>1, <2>2
<1>. QED BY SMTT(60), <1>5, CountsNat, ConstantFacts

\* Printing threads go on printing what they print unless they move.
LEMMA OutStays ==
  ASSUME IInv, NEW t \in Threads, NEW from \in Points, NEW to \in Points, Goto(t, from, to),
         \A u \in Threads : u # t => i'[u] = i[u], UNCHANGED msg_mem
  PROVE  \A c \in Consumers : c # t => Out'[c] = Out[c]
<1>1. \A u \in Threads : u # t => pc'[u] = pc[u]
  BY PcMoves
<1>. QED BY <1>1 DEF Out, Threads

\* The steps of a producer print nothing.
LEMMA OutOfProducer ==
  ASSUME IInv, NEW p \in Producers, NEW from \in Points, NEW to \in Points, Goto(p, from, to),
         \A u \in Threads : u # p => i'[u] = i[u], UNCHANGED msg_mem
  PROVE  Out' = Out
<1>1. \A c \in Consumers : c # p
  BY ThreadsAssumption
<1>2. \A c \in Consumers : Out'[c] = Out[c]
  BY <1>1, OutStays DEF Threads
<1>. QED BY <1>2 DEF Out

\* Nothing in the rings and the slots: the backlog stays.
LEMMA BacklogStays ==
  ASSUME UNCHANGED <<ring_used, msg_mem>>
  PROVE  Backlog' = Backlog
BY BacklogIs

----------------------------------------------------------------------------
(* The log implements MsgLog, step by step *)

\* eg_cklog_create makes an empty log.
LEMMA InitMaps == Init => ML!Init
<1>. SUFFICES ASSUME Init PROVE ML!Init
  OBVIOUS
<1>1. IInv
  BY InitInv
<1>2. ring_used = EmptyRing /\ msg = [p \in Producers |-> NoMessage]
      /\ pc = [t \in Threads |-> "idle"]
  BY DEF Init
<1>3. Backlog = <<>>
  <2>1. Contents(ring_used) \in Seq(Slots) /\ Len(Contents(ring_used)) = 0
    <3>1. ring_used \in Rings(Producers, Slots)
      BY <1>1 DEF IInv
    <3>2. ring_used.queue = <<>> /\ ring_used.pending = <<>>
      BY <1>2 DEF EmptyRing
    <3>3. Contents(ring_used) \in Seq(Slots)
      BY <3>1, ContentsIsSeq
    <3>4. Len(Contents(ring_used)) = Len(<<>>) + Len(<<>>)
      BY <3>1, <3>2, ContentsIsSeq
    <3>. QED BY <3>3, <3>4
  <2>2. Contents(ring_used) = <<>>
    BY <2>1, EmptySeq
  <2>. QED BY <2>2, BacklogIs DEF Through
<1>4. Phase = [t \in ML!Threads |-> "idle"]
  BY <1>2, PhaseIs DEF ML!Threads, Threads
<1>5. Out = [c \in Consumers |-> NoMessage]
  BY <1>2 DEF Out, Threads
<1>. QED BY <1>2, <1>3, <1>4, <1>5 DEF ML!Init

\* The call of eg_cklog_enqueue begins.
LEMMA LogMaps ==
  ASSUME IInv, NEW p \in Producers, NEW m \in Messages, Log(p, m)
  PROVE  ML!Ask(p, m)
<1>1. p \in Threads /\ Goto(p, "idle", "take_free") /\ UNCHANGED <<ring_used, msg_mem, i>>
      /\ msg' = [msg EXCEPT ![p] = m] /\ "idle" \in Points /\ "take_free" \in Points
  BY DEF Log, Threads, Points
<1>2. ML!Goto(p, "idle", "asking")
  BY <1>1, PhaseIs, PhaseMoves
<1>3. Backlog' = Backlog /\ Out' = Out
  BY <1>1, BacklogStays, OutOfProducer
<1>. QED BY <1>1, <1>2, <1>3 DEF ML!Ask

\* It gets a slot when fewer than all are in use.
LEMMA TakeFreeMaps ==
  ASSUME IInv, NEW p \in Producers, TakeFree(p)
  PROVE  ML!Admit(p)
<1>1. p \in Threads /\ Goto(p, "take_free", "copy") /\ UNCHANGED <<ring_used, msg_mem, msg>>
      /\ ring_free.queue # <<>> /\ "take_free" \in Points /\ "copy" \in Points
      /\ i' = [i EXCEPT ![p] = Head(ring_free.queue)]
  BY DEF TakeFree, Threads, Points, RingEmpty
<1>2. ML!Goto(p, "asking", "writing")
  BY <1>1, PhaseIs, PhaseMoves
<1>3. \A u \in Threads : u # p => i'[u] = i[u]
  BY <1>1 DEF IInv, TypeOK
<1>4. Backlog' = Backlog /\ Out' = Out
  BY <1>1, <1>3, BacklogStays, OutOfProducer
<1>5. ML!InUse < RingCapacity
  <2>1. ring_free \in Rings(Consumers, Slots)
    BY DEF IInv
  <2>2. Free > 0
    BY <1>1, <2>1, RingFields DEF Free
  <2>3. ML!InUse = RingCapacity - Free
    BY InUseIs, CountsNat, ConstantFacts
  <2>. QED BY <2>2, <2>3, CountsNat, ConstantFacts
<1>. QED BY <1>1, <1>2, <1>4, <1>5 DEF ML!Admit

\* It is refused when all are in use.
LEMMA NoneFreeMaps ==
  ASSUME IInv, NEW p \in Producers, NoneFree(p)
  PROVE  ML!Refuse(p)
<1>1. p \in Threads /\ Goto(p, "take_free", "idle") /\ UNCHANGED <<ring_used, msg_mem, i>>
      /\ ring_free.queue = <<>> /\ "take_free" \in Points /\ "idle" \in Points
      /\ msg' = [msg EXCEPT ![p] = NoMessage]
  BY DEF NoneFree, Threads, Points, RingEmpty
<1>2. ML!Goto(p, "asking", "idle")
  BY <1>1, PhaseIs, PhaseMoves
<1>3. Backlog' = Backlog /\ Out' = Out
  BY <1>1, BacklogStays, OutOfProducer
<1>4. ML!InUse = RingCapacity
  <2>1. Free = 0
    BY <1>1 DEF Free
  <2>. QED BY <2>1, InUseIs, CountsNat, ConstantFacts
<1>. QED BY <1>1, <1>2, <1>3, <1>4 DEF ML!Refuse

\* Its ticket puts the message behind all others; from here on it is accepted.
LEMMA PutUsedMaps ==
  ASSUME IInv, NEW p \in Producers, PutUsed(p)
  PROVE  ML!Accept(p)
<1>1. p \in Threads /\ Goto(p, "put_used", "publish_used") /\ UNCHANGED msg_mem
      /\ ring_used' = ReserveTicket(ring_used, p, i[p])
      /\ i' = [i EXCEPT ![p] = NoSlot] /\ msg' = [msg EXCEPT ![p] = NoMessage]
      /\ "put_used" \in Points /\ "publish_used" \in Points
  BY DEF PutUsed, Threads, Points
<1>2. ML!Goto(p, "writing", "accepted")
  BY <1>1, PhaseIs, PhaseMoves
<1>3. \A u \in Threads : u # p => i'[u] = i[u]
  BY <1>1 DEF IInv, TypeOK
<1>4. Out' = Out
  BY <1>1, <1>3, OutOfProducer
<1>5. i[p] \in Slots /\ msg_mem[i[p]] = msg[p]
  BY <1>1 DEF IInv, HandsInv, MsgInv, Writing, Goto
<1>6. Backlog' = Append(Backlog, msg[p])
  <2>. DEFINE c == Contents(ring_used)
              s == i[p]
  <2>1. ring_used \in Rings(Producers, Slots) /\ msg_mem \in [Slots -> Memory] /\ s \in Slots
    BY <1>5 DEF IInv, TypeOK, Memory
  <2>. HIDE DEF s
  <2>2. Contents(ReserveTicket(ring_used, p, s)) = Append(c, s)
    BY <2>1, ContentsOfReserve
  <2>3. c \in Seq(Slots)
    BY <2>1, ContentsIsSeq
  <2>. HIDE DEF c
  <2>4. Through(msg_mem, Append(c, s)) = Append(Through(msg_mem, c), msg_mem[s])
    BY <2>1, <2>3, ThroughAppend
  <2>. QED BY <1>1, <1>5, <2>2, <2>4, BacklogIs DEF c, s
<1>. QED BY <1>1, <1>2, <1>4, <1>6 DEF ML!Accept

\* Publishing the ticket makes it visible and changes no order.
LEMMA PublishUsedMaps ==
  ASSUME IInv, NEW p \in Producers, PublishUsed(p)
  PROVE  ML!Return(p)
<1>1. p \in Threads /\ Goto(p, "publish_used", "idle") /\ UNCHANGED <<msg_mem, i, msg>>
      /\ ring_used' = PublishTicket(ring_used) /\ ring_used.pending # <<>>
      /\ "publish_used" \in Points /\ "idle" \in Points
  BY DEF PublishUsed, MayPublish, Threads, Points
<1>2. ML!Goto(p, "accepted", "idle")
  BY <1>1, PhaseIs, PhaseMoves
<1>3. Out' = Out
  BY <1>1, OutOfProducer
<1>4. Backlog' = Backlog
  <2>1. ring_used \in Rings(Producers, Slots)
    BY DEF IInv
  <2>2. Contents(ring_used') = Contents(ring_used)
    BY <1>1, <2>1, ContentsOfPublish
  <2>. QED BY <1>1, <2>2, BacklogIs
<1>. QED BY <1>1, <1>2, <1>3, <1>4 DEF ML!Return

\* strncpy writes to a slot that is in no ring and that nobody prints.
LEMMA CopyMaps ==
  ASSUME IInv, NEW p \in Producers, CopyBegins(p) \/ CopyEnds(p)
  PROVE  UNCHANGED ML!vars
<1>1. PICK v \in Memory :
        /\ Goto(p, "copy", "copying") \/ Goto(p, "copying", "put_used")
        /\ msg_mem' = [msg_mem EXCEPT ![i[p]] = v]
        /\ UNCHANGED <<ring_free, ring_used, i, msg>>
  <2>1. CASE CopyBegins(p)
    BY <2>1 DEF CopyBegins, Memory
  <2>2. CASE CopyEnds(p)
    BY <2>2 DEF CopyEnds, Memory, IInv, MsgInv, Goto, Writing
  <2>. QED BY <2>1, <2>2
<1>2. p \in Threads /\ pc[p] \in Writing /\ i[p] \in Slots
  BY <1>1 DEF IInv, HandsInv, Goto, Writing, Threads
<1>3. Phase' = Phase
  <2>1. {"copy", "copying", "put_used"} \subseteq Points
        /\ PhaseOf("copy") = PhaseOf("copying") /\ PhaseOf("copying") = PhaseOf("put_used")
    BY PhaseIs DEF Points
  <2>2. CASE Goto(p, "copy", "copying")
    BY <1>2, <2>1, <2>2, PhaseStays
  <2>3. CASE Goto(p, "copying", "put_used")
    BY <1>2, <2>1, <2>3, PhaseStays
  <2>. QED BY <1>1, <2>2, <2>3
<1>4. Backlog' = Backlog
  <2>1. ring_used \in Rings(Producers, Slots) /\ msg_mem \in [Slots -> Memory]
    BY DEF IInv, TypeOK, Memory
  <2>2. TimesIn(ring_used, i[p]) = 0
    BY <1>2, SlotInHands
  <2>3. \A n \in DOMAIN Contents(ring_used) : Contents(ring_used)[n] # i[p]
    BY <2>1, <2>2, NotInContents
  <2>4. \A n \in DOMAIN Contents(ring_used) :
          msg_mem'[Contents(ring_used)[n]] = msg_mem[Contents(ring_used)[n]]
    <3>1. Contents(ring_used) \in Seq(Slots)
      BY <2>1, ContentsIsSeq
    <3>2. \A n \in DOMAIN Contents(ring_used) : Contents(ring_used)[n] \in Slots
      BY <3>1, LenProperties, ElementOfSeq
    <3>. QED BY <1>1, <2>1, <2>3, <3>2
  <2>. QED BY <1>1, <2>4, BacklogIs DEF Through
<1>5. Out' = Out
  <2>1. \A c \in Consumers : c \in Threads /\ c # p /\ pc'[c] = pc[c]
    BY <1>1, ThreadsAssumption DEF Goto, Threads, IInv
  <2>2. \A u \in Threads : i[u] = i[p] => u = p
    BY <1>2, SlotInHands
  <2>3. \A c \in Consumers : pc[c] = "print" => i[c] \in Slots
    BY <2>1 DEF IInv, HandsInv, Printing
  <2>4. \A c \in Consumers : pc[c] = "print" => msg_mem'[i[c]] = msg_mem[i[c]]
    BY <1>1, <2>1, <2>2, <2>3 DEF IInv, TypeOK
  <2>. QED BY <1>1, <2>1, <2>4 DEF Out
<1>. QED BY <1>1, <1>3, <1>4, <1>5 DEF ML!vars

\* The call of eg_cklog_consume begins.
LEMMA ConsumeMaps ==
  ASSUME IInv, NEW c \in Consumers, Consume(c)
  PROVE  ML!Wait(c)
<1>1. c \in Threads /\ Goto(c, "idle", "take_used") /\ UNCHANGED <<ring_used, msg_mem, i, msg>>
      /\ "idle" \in Points /\ "take_used" \in Points
  BY DEF Consume, Threads, Points
<1>2. ML!Goto(c, "idle", "waiting")
  BY <1>1, PhaseIs, PhaseMoves
<1>3. Backlog' = Backlog
  BY <1>1, BacklogStays
<1>4. Out' = Out
  <2>1. pc'[c] # "print" /\ pc[c] # "print" /\ \A u \in Consumers : u # c => pc'[u] = pc[u]
    BY <1>1, PcMoves DEF Threads
  <2>. QED BY <1>1, <2>1 DEF Out
<1>. QED BY <1>1, <1>2, <1>3, <1>4 DEF ML!Wait

\* What it prints is the oldest message of the backlog, as it was given.
LEMMA TakeUsedMaps ==
  ASSUME IInv, NEW c \in Consumers, TakeUsed(c)
  PROVE  ML!Take(c)
<1>. DEFINE v == Head(ring_used.queue)
<1>1. c \in Threads /\ Goto(c, "take_used", "print") /\ UNCHANGED <<msg_mem, msg>>
      /\ ring_used' = TakeHead(ring_used) /\ ring_used.queue # <<>>
      /\ i' = [i EXCEPT ![c] = v]
      /\ "take_used" \in Points /\ "print" \in Points
  BY DEF TakeUsed, RingEmpty, Threads, Points
<1>2. ML!Goto(c, "waiting", "printing")
  BY <1>1, PhaseIs, PhaseMoves
<1>3. Backlog' = Tail(Backlog) /\ Backlog # <<>> /\ Head(Backlog) = msg_mem[v]
  <2>. DEFINE q == Contents(ring_used)
  <2>1. ring_used \in Rings(Producers, Slots) /\ msg_mem \in [Slots -> Memory]
    BY DEF IInv, TypeOK, Memory
  <2>2. q # <<>> /\ Head(q) = v /\ Contents(ring_used') = Tail(q)
    BY <1>1, <2>1, ContentsOfTake
  <2>3. q \in Seq(Slots)
    BY <2>1, ContentsIsSeq
  <2>. HIDE DEF q, v
  <2>4. Through(msg_mem, Tail(q)) = Tail(Through(msg_mem, q))
    BY <2>1, <2>2, <2>3, ThroughTail
  <2>5. Through(msg_mem, q) # <<>> /\ Head(Through(msg_mem, q)) = msg_mem[Head(q)]
    BY <2>1, <2>2, <2>3, ThroughTail
  <2>. QED BY <1>1, <2>2, <2>4, <2>5, BacklogIs DEF q
<1>4. Out' = [Out EXCEPT ![c] = Head(Backlog)]
  <2>1. pc'[c] = "print" /\ \A u \in Consumers : u # c => pc'[u] = pc[u]
    BY <1>1, PcMoves DEF Threads
  <2>2. i'[c] = v /\ \A u \in Consumers : u # c => i'[u] = i[u]
    BY <1>1 DEF IInv, TypeOK, Threads
  <2>. DEFINE h == Head(Backlog)
  <2>3. h = msg_mem[v] /\ UNCHANGED msg_mem
    BY <1>1, <1>3
  <2>. HIDE DEF v, h
  <2>4. Out' = [Out EXCEPT ![c] = h]
    BY <2>1, <2>2, <2>3 DEF Out
  <2>. QED BY <2>4 DEF h
<1>. QED BY <1>1, <1>2, <1>3, <1>4 DEF ML!Take

\* The message is printed.
LEMMA PrintSlotMaps ==
  ASSUME IInv, NEW c \in Consumers, PrintSlot(c)
  PROVE  ML!Printed(c)
<1>1. c \in Threads /\ Goto(c, "print", "put_free") /\ UNCHANGED <<ring_used, msg_mem, i, msg>>
      /\ "print" \in Points /\ "put_free" \in Points
  BY DEF PrintSlot, Threads, Points
<1>2. ML!Goto(c, "printing", "disposing")
  BY <1>1, PhaseIs, PhaseMoves
<1>3. Backlog' = Backlog
  BY <1>1, BacklogStays
<1>4. Out' = [Out EXCEPT ![c] = NoMessage]
  <2>1. pc'[c] # "print" /\ \A u \in Consumers : u # c => pc'[u] = pc[u]
    BY <1>1, PcMoves DEF Threads
  <2>. QED BY <1>1, <2>1 DEF Out
<1>. QED BY <1>1, <1>2, <1>3, <1>4 DEF ML!Printed

\* The slot goes home in two steps; only the second is one of MsgLog.
LEMMA PutFreeMaps ==
  ASSUME IInv, NEW c \in Consumers, PutFree(c)
  PROVE  UNCHANGED ML!vars
<1>1. c \in Threads /\ Goto(c, "put_free", "publish_free") /\ UNCHANGED <<ring_used, msg_mem, msg>>
      /\ i' = [i EXCEPT ![c] = NoSlot] /\ "publish_free" \in Points
  BY DEF PutFree, Threads, Points
<1>2. Phase' = Phase
  <2>1. PhaseOf("put_free") = PhaseOf("publish_free")
    BY PhaseIs
  <2>. QED BY <1>1, <2>1, PhaseStays
<1>3. Backlog' = Backlog
  BY <1>1, BacklogStays
<1>4. Out' = Out
  <2>1. pc'[c] # "print" /\ pc[c] # "print" /\ \A u \in Consumers : u # c => pc'[u] = pc[u]
    BY <1>1, PcMoves DEF Threads
  <2>2. \A u \in Consumers : u # c => i'[u] = i[u]
    BY <1>1 DEF IInv, TypeOK, Threads
  <2>. QED BY <1>1, <2>1, <2>2 DEF Out
<1>. QED BY <1>1, <1>2, <1>3, <1>4 DEF ML!vars

\* The slot can be taken again.
LEMMA PublishFreeMaps ==
  ASSUME IInv, NEW c \in Consumers, PublishFree(c)
  PROVE  ML!Dispose(c)
<1>1. c \in Threads /\ Goto(c, "publish_free", "idle") /\ UNCHANGED <<ring_used, msg_mem, i, msg>>
      /\ "publish_free" \in Points /\ "idle" \in Points
  BY DEF PublishFree, Threads, Points
<1>2. ML!Goto(c, "disposing", "idle")
  BY <1>1, PhaseIs, PhaseMoves
<1>3. Backlog' = Backlog
  BY <1>1, BacklogStays
<1>4. Out' = Out
  <2>1. pc'[c] # "print" /\ pc[c] # "print" /\ \A u \in Consumers : u # c => pc'[u] = pc[u]
    BY <1>1, PcMoves DEF Threads
  <2>. QED BY <1>1, <2>1 DEF Out
<1>. QED BY <1>1, <1>2, <1>3, <1>4 DEF ML!Dispose

\* Every step of the log is one of MsgLog, or none.
LEMMA StepMaps == IInv /\ [Next]_vars => [ML!Next]_(ML!vars)
<1>. SUFFICES ASSUME IInv, [Next]_vars PROVE ML!Next \/ UNCHANGED ML!vars
  OBVIOUS
<1>1. ASSUME NEW p \in Producers, ProducerStep(p) PROVE ML!Next \/ UNCHANGED ML!vars
  <2>1. CASE TakeFree(p)
    BY <2>1, TakeFreeMaps DEF ML!Next
  <2>2. CASE NoneFree(p)
    BY <2>2, NoneFreeMaps DEF ML!Next
  <2>3. CASE CopyBegins(p) \/ CopyEnds(p)
    BY <2>3, CopyMaps
  <2>4. CASE PutUsed(p)
    BY <2>4, PutUsedMaps DEF ML!Next
  <2>5. CASE PublishUsed(p)
    BY <2>5, PublishUsedMaps DEF ML!Next
  <2>. QED BY <1>1, <2>1, <2>2, <2>3, <2>4, <2>5 DEF ProducerStep
<1>2. ASSUME NEW c \in Consumers, ConsumerStep(c) PROVE ML!Next \/ UNCHANGED ML!vars
  <2>1. CASE Consume(c)
    BY <2>1, ConsumeMaps DEF ML!Next
  <2>2. CASE TakeUsed(c)
    BY <2>2, TakeUsedMaps DEF ML!Next
  <2>3. CASE PrintSlot(c)
    BY <2>3, PrintSlotMaps DEF ML!Next
  <2>4. CASE PutFree(c)
    BY <2>4, PutFreeMaps
  <2>5. CASE PublishFree(c)
    BY <2>5, PublishFreeMaps DEF ML!Next
  <2>. QED BY <1>2, <2>1, <2>2, <2>3, <2>4, <2>5 DEF ConsumerStep
<1>3. ASSUME NEW p \in Producers, NEW m \in Messages, Log(p, m) PROVE ML!Next
  BY <1>3, LogMaps DEF ML!Next
<1>4. CASE UNCHANGED vars
  BY <1>4, BacklogStays DEF vars, ML!vars, Phase, Out
<1>. QED BY <1>1, <1>2, <1>3, <1>4 DEF Next

\* eg_cklog is the bounded first-in first-out log of MsgLog: whatever its
\* threads do, messages are printed whole, once and in the order in which
\* eg_cklog_enqueue accepted them, and it refuses one only when all slots are
\* in use.
THEOREM LogImplementsMsgLog == Spec => ImplementsMsgLog
<1>1. Spec => ML!Spec
  BY InitMaps, StepMaps, Invariance, PTL DEF Spec, ML!Spec
<1>. QED BY <1>1 DEF ImplementsMsgLog
===============================================================================
