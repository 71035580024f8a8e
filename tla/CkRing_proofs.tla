--------------------------- MODULE CkRing_proofs ---------------------------
(***************************************************************************)
(* Proofs about CkRing, for any number of threads, any ring size, any      *)
(* width of the counters and any number of calls, and, since they rest on  *)
(* the same facts about remainders, at the end about FlecsUv, for any set  *)
(* of connections, any size of the buffers and any number of bytes.        *)
(***************************************************************************)
EXTENDS CkRing, FlecsUv, SequenceTheorems, TLAPS

----------------------------------------------------------------------------
(* Wrapped arithmetic *)

\* A positive multiple of m is at least m.
LEMMA MultipleGrows ==
  ASSUME NEW m \in Nat, NEW q \in Int, q >= 1
  PROVE  m * q >= m
OBVIOUS

\* Two numbers less than m apart have different remainders.
LEMMA RemaindersDiffer ==
  ASSUME NEW m \in Nat, m > 0, NEW a \in Nat, NEW b \in Nat,
         a < b, b - a < m
  PROVE  a % m # b % m
<1>. DEFINE q == (b \div m) - (a \div m)
<1>1. q \in Int
  OBVIOUS
<1>2. a = m * (a \div m) + (a % m) /\ b = m * (b \div m) + (b % m)
  OBVIOUS
<1>3. SUFFICES ASSUME a % m = b % m PROVE FALSE
  OBVIOUS
<1>4. b - a = m * q
  BY <1>2, <1>3
<1>. HIDE DEF q
<1>5. CASE q >= 1
  BY <1>1, <1>4, <1>5, MultipleGrows
<1>6. CASE q <= 0
  <2>1. m * q <= 0
    BY <1>1, <1>6
  <2>. QED BY <2>1, <1>4
<1>. QED BY <1>1, <1>5, <1>6

\* A comparison of two counters less than a turn apart is exact.
LEMMA SameUintExact ==
  ASSUME NEW a \in Nat, NEW b \in Nat, a <= b, b - a < UMod, SameUint(a, b)
  PROVE  a = b
<1>1. UMod \in Nat /\ UMod > 0
  BY UModAssumption, SizeAssumption
<1>2. a < b => a % UMod # b % UMod
  BY <1>1, RemaindersDiffer
<1>. QED BY <1>2 DEF SameUint

\* The comparison of two wrapped counters does not depend on their order.
LEMMA SameUintSym ==
  ASSUME NEW a, NEW b
  PROVE  SameUint(a, b) <=> SameUint(b, a)
BY DEF SameUint

\* Tickets less than a ring apart live in different slots.
LEMMA IndexInjective ==
  ASSUME NEW a \in Nat, NEW b \in Nat, a < b, b - a <= mask
  PROVE  Index(a) # Index(b)
<1>1. Size \in Nat /\ Size > 0 /\ b - a < Size
  BY SizeAssumption DEF mask
<1>2. a % Size # b % Size
  BY <1>1, RemaindersDiffer
<1>. QED BY <1>2 DEF Index

\* "n & mask" never leaves the ring's buffer.
LEMMA IndexInRange ==
  ASSUME NEW a \in Nat
  PROVE  Index(a) \in 0 .. mask
BY SizeAssumption DEF Index, mask

\* The unsigned test "producer - consumer < mask" never mistakes a producer
\* snapshot that is behind the consumer for one that has room.
LEMMA RoomExact ==
  ASSUME NEW p \in Nat, NEW c \in Nat,
         c - p <= UMod - mask, p - c <= mask, UintDiff(p, c) < mask
  PROVE  c <= p /\ p - c < mask
<1>1. CASE c <= p
  <2>1. UintDiff(p, c) = p - c
    BY <1>1, UModAssumption, SizeAssumption DEF UintDiff, mask
  <2>. QED BY <1>1, <2>1
<1>2. CASE c > p
  <2>1. (p - c) % UMod = p - c + UMod
    BY <1>2, UModAssumption, SizeAssumption DEF mask
  <2>. QED BY <1>2, <2>1, UModAssumption, SizeAssumption DEF UintDiff, mask
<1>. QED BY <1>1, <1>2

----------------------------------------------------------------------------
(* Types *)

\* The ring's counters stay numbers, its buffer keeps its mask + 1 slots, and a
\* thread in _ck_ring_enqueue_mp or _ck_ring_dequeue_mc is always between two
\* of their accesses to shared memory.
THEOREM TypeCorrect == Spec => []TypeOK
<1>1. Init => TypeOK
  BY SizeAssumption, MaxCallsAssumption
     DEF Init, TypeOK, mask, ControlPoints, NoReturn
<1>2. TypeOK /\ [Next]_vars => TypeOK'
  <2>. SUFFICES ASSUME TypeOK, [Next]_vars PROVE TypeOK'
    OBVIOUS
  <2>. USE DEF TypeOK, ring, At, Goto
  <2>1. ASSUME NEW t \in Threads, NEW v \in Values, EnqueueCall(t, v)
        PROVE  TypeOK'
    BY <2>1, MaxCallsAssumption
       DEF EnqueueCall, Enter, ControlPoints, EnqueueSearch, NoReturn, Full, mask
  <2>2. ASSUME NEW t \in Threads, EnqueueLoadCHead(t)
        PROVE  TypeOK'
    BY <2>2 DEF EnqueueLoadCHead, ControlPoints, EnqueueSearch
  <2>3. ASSUME NEW t \in Threads, EnqueueCasWins(t)
        PROVE  TypeOK'
    BY <2>3 DEF EnqueueCasWins, ControlPoints, EnqueueOwner
  <2>4. ASSUME NEW t \in Threads, EnqueueCasLoses(t) \/ EnqueueRetries(t)
        PROVE  TypeOK'
    BY <2>4 DEF EnqueueCasLoses, EnqueueRetries, ControlPoints, EnqueueSearch
  <2>5. ASSUME NEW t \in Threads, EnqueueFails(t) \/ DequeueFails(t)
        PROVE  TypeOK'
    <3>1. /\ Leave(t, NoReturn)
          /\ mayFail' = [mayFail EXCEPT ![t] = FALSE]
          /\ UNCHANGED <<ring, calls>>
      BY <2>5 DEF EnqueueFails, DequeueFails
    <3>. QED BY <3>1 DEF Leave, ControlPoints, NoReturn
  <2>6. ASSUME NEW t \in Threads, EnqueueWriteSlot(t)
        PROVE  TypeOK'
    BY <2>6 DEF EnqueueWriteSlot, ControlPoints, EnqueueOwner
  <2>7. ASSUME NEW t \in Threads, EnqueueMyTurn(t)
        PROVE  TypeOK'
    BY <2>7 DEF EnqueueMyTurn, ControlPoints, EnqueueOwner
  <2>8. ASSUME NEW t \in Threads, EnqueueStorePTail(t)
        PROVE  TypeOK'
    BY <2>8 DEF EnqueueStorePTail, Leave, ControlPoints, Returned
  <2>9. ASSUME NEW t \in Threads, DequeueCall(t)
        PROVE  TypeOK'
    BY <2>9, MaxCallsAssumption
       DEF DequeueCall, Enter, ControlPoints, DequeuePoints, NoReturn, Empty
  <2>10. ASSUME NEW t \in Threads, DequeueLoadPTail(t)
         PROVE  TypeOK'
    BY <2>10 DEF DequeueLoadPTail, ControlPoints, DequeuePoints
  <2>11. ASSUME NEW t \in Threads, DequeueReadSlot(t)
         PROVE  TypeOK'
    <3>1. slot[Index(consumer[t])] \in Values \cup {NoValue}
      BY IndexInRange
    <3>. QED BY <2>11, <3>1 DEF DequeueReadSlot, ControlPoints, DequeuePoints
  <2>12. ASSUME NEW t \in Threads, DequeueCasWins(t)
         PROVE  TypeOK'
    BY <2>12 DEF DequeueCasWins, Leave, ControlPoints, Returned
  <2>13. ASSUME NEW t \in Threads, DequeueCasLoses(t)
         PROVE  TypeOK'
    BY <2>13 DEF DequeueCasLoses, ControlPoints, DequeuePoints
  <2>14. CASE UNCHANGED vars
    BY <2>14 DEF vars, locals
  <2>. QED
    BY <2>1, <2>2, <2>3, <2>4, <2>5, <2>6, <2>7, <2>8, <2>9, <2>10, <2>11,
       <2>12, <2>13, <2>14
       DEF Next, Call, Step, EnqueueStep, DequeueStep
<1>. QED BY <1>1, <1>2, PTL DEF Spec
----------------------------------------------------------------------------
(* Counters and tickets *)

\* A step that moves no counter and takes nobody in or out of EnqueueOwner.
LEMMA TicketsUndisturbed ==
  ASSUME TicketsOwned,
         UNCHANGED <<c_head, p_tail, p_head>>,
         \A u \in Threads :
           /\ pc'[u] \in EnqueueOwner <=> pc[u] \in EnqueueOwner
           /\ pc[u] \in EnqueueOwner => producer'[u] = producer[u]
  PROVE  TicketsOwned'
BY DEF TicketsOwned

\* No access of _ck_ring_enqueue_mp or _ck_ring_dequeue_mc disturbs the order
\* of the counters, the tickets or what threads concluded from old snapshots.
LEMMA CountersInductive ==
  ASSUME TypeOK, CountersInv, [Next]_vars
  PROVE  CountersInv'
<1>. USE DEF CountersInv
<1>. SUFFICES ASSUME Next PROVE CountersInv'
  <2>1. CASE UNCHANGED vars
    BY <2>1 DEF vars, locals, ring, RingValid, TicketsOwned, StoreIsMine,
       SnapshotsOld, At
  <2>. QED BY <2>1
<1>. PICK t \in Threads : Call(t) \/ Step(t)
  BY DEF Next
<1>. USE DEF TypeOK, At, Goto, ring
\* Steps that change neither a counter nor who owns a ticket.
<1>1. CASE \E v \in Values : EnqueueCall(t, v)
  <2>. PICK v \in Values : EnqueueCall(t, v)
    BY <1>1
  <2>. USE DEF EnqueueCall, Enter
  <2>1. RingValid'
    BY DEF RingValid
  <2>2. TicketsOwned'
    BY TicketsUndisturbed DEF EnqueueOwner
  <2>3. StoreIsMine'
    BY DEF StoreIsMine
  <2>4. SnapshotsOld'
    BY UModAssumption, SizeAssumption
       DEF SnapshotsOld, EnqueueSearch, DequeuePoints, mask
  <2>. QED BY <2>1, <2>2, <2>3, <2>4
<1>2. CASE EnqueueLoadCHead(t)
  <2>. USE <1>2 DEF EnqueueLoadCHead
  <2>1. RingValid'
    BY DEF RingValid
  <2>2. TicketsOwned'
    BY TicketsUndisturbed DEF EnqueueOwner
  <2>3. StoreIsMine'
    BY DEF StoreIsMine
  <2>4. HasRoom(t) => producer[t] - c_head < mask
    <3>1. /\ c_head - producer[t] <= UMod - mask
          /\ producer[t] - c_head <= mask
      BY UModAssumption, SizeAssumption
         DEF SnapshotsOld, RingValid, EnqueueSearch, mask
    <3>. QED BY <3>1, RoomExact DEF HasRoom
  <2>5. SnapshotsOld'
    BY <2>4 DEF SnapshotsOld, EnqueueSearch, DequeuePoints
  <2>. QED BY <2>1, <2>2, <2>3, <2>5
<1>3. CASE EnqueueCasWins(t)
  <2>. USE <1>3 DEF EnqueueCasWins
  <2>1. producer[t] = p_head
    <3>1. producer[t] <= p_head /\ p_head - producer[t] < UMod
      BY UModAssumption, SizeAssumption DEF SnapshotsOld, EnqueueSearch, mask
    <3>. QED BY <3>1, SameUintExact, SameUintSym
  <2>2. RingValid'
    BY <2>1, SizeAssumption DEF RingValid, SnapshotsOld, mask
  <2>3. TicketsOwned'
    <3>1. /\ p_tail' = p_tail /\ p_head' = p_head + 1
          /\ pc[t] = "enq_cas_p_head"
          /\ pc' = [pc EXCEPT ![t] = "enq_write_slot"]
          /\ producer' = [producer EXCEPT ![t] = p_head]
      OBVIOUS
    <3>. HIDE <1>3 DEF EnqueueCasWins
    <3>2. \A u \in Threads :
            pc'[u] \in EnqueueOwner => producer'[u] \in p_tail' .. p_head' - 1
      BY <3>1 DEF TicketsOwned, RingValid, EnqueueOwner
    <3>3. \A n \in p_tail' .. p_head' - 1 :
            \E u \in Threads : pc'[u] \in EnqueueOwner /\ producer'[u] = n
      <4>. TAKE n \in p_tail' .. p_head' - 1
      <4>1. CASE n = p_head
        BY <3>1, <4>1 DEF EnqueueOwner
      <4>2. CASE n # p_head
        <5>0. n \in p_tail .. p_head - 1
          BY <3>1, <4>2
        <5>1. PICK u \in Threads : pc[u] \in EnqueueOwner /\ producer[u] = n
          BY <5>0 DEF TicketsOwned
        <5>2. u # t
          BY <3>1, <5>1 DEF EnqueueOwner
        <5>. QED BY <3>1, <5>1, <5>2
      <4>. QED BY <4>1, <4>2
    <3>4. \A u, w \in Threads :
            /\ pc'[u] \in EnqueueOwner /\ pc'[w] \in EnqueueOwner
            /\ producer'[u] = producer'[w]
            => u = w
      BY <3>1 DEF TicketsOwned, EnqueueOwner
    <3>. QED BY <3>2, <3>3, <3>4 DEF TicketsOwned
  <2>4. StoreIsMine'
    BY DEF StoreIsMine
  <2>5. SnapshotsOld'
    BY DEF SnapshotsOld, WithinLap, EnqueueSearch, DequeuePoints
  <2>. QED BY <2>2, <2>3, <2>4, <2>5
<1>4. CASE EnqueueCasLoses(t) \/ EnqueueRetries(t)
  <2>. USE <1>4 DEF EnqueueCasLoses, EnqueueRetries
  <2>1. RingValid'
    BY DEF RingValid
  <2>2. TicketsOwned'
    BY TicketsUndisturbed DEF EnqueueOwner
  <2>3. StoreIsMine'
    BY DEF StoreIsMine
  <2>4. SnapshotsOld'
    BY UModAssumption, SizeAssumption
       DEF SnapshotsOld, EnqueueSearch, DequeuePoints, mask
  <2>. QED BY <2>1, <2>2, <2>3, <2>4
<1>5. CASE EnqueueFails(t) \/ DequeueFails(t)
  <2>. USE <1>5 DEF EnqueueFails, DequeueFails, Leave
  <2>1. RingValid'
    BY DEF RingValid
  <2>2. TicketsOwned'
    BY TicketsUndisturbed DEF EnqueueOwner
  <2>3. StoreIsMine'
    BY DEF StoreIsMine
  <2>4. SnapshotsOld'
    BY DEF SnapshotsOld, EnqueueSearch, DequeuePoints
  <2>. QED BY <2>1, <2>2, <2>3, <2>4
<1>6. CASE EnqueueWriteSlot(t)
  <2>. USE <1>6 DEF EnqueueWriteSlot
  <2>1. RingValid'
    BY DEF RingValid
  <2>2. TicketsOwned'
    BY TicketsUndisturbed DEF EnqueueOwner
  <2>3. StoreIsMine'
    BY DEF StoreIsMine
  <2>4. SnapshotsOld'
    BY DEF SnapshotsOld, EnqueueSearch, DequeuePoints
  <2>. QED BY <2>1, <2>2, <2>3, <2>4
<1>7. CASE EnqueueMyTurn(t)
  <2>. USE <1>7 DEF EnqueueMyTurn
  <2>1. RingValid'
    BY DEF RingValid
  <2>2. TicketsOwned'
    BY TicketsUndisturbed DEF EnqueueOwner
  <2>3. StoreIsMine'
    <3>1. p_tail <= producer[t] /\ producer[t] - p_tail < UMod
      BY UModAssumption, SizeAssumption
         DEF TicketsOwned, RingValid, EnqueueOwner, mask
    <3>2. p_tail = producer[t]
      BY <3>1, SameUintExact
    <3>. QED BY <3>2 DEF StoreIsMine
  <2>4. SnapshotsOld'
    BY DEF SnapshotsOld, EnqueueSearch, DequeuePoints
  <2>. QED BY <2>1, <2>2, <2>3, <2>4
<1>8. CASE EnqueueStorePTail(t)
  <2>. USE <1>8 DEF EnqueueStorePTail, Leave
  <2>1. p_tail = producer[t] /\ p_tail' = p_tail + 1 /\ p_tail < p_head
    BY DEF StoreIsMine, TicketsOwned, EnqueueOwner
  <2>2. RingValid'
    BY <2>1 DEF RingValid
  <2>3. TicketsOwned'
    <3>1. /\ p_head' = p_head
          /\ pc[t] = "enq_store_p_tail"
          /\ pc' = [pc EXCEPT ![t] = "idle"]
          /\ producer' = [producer EXCEPT ![t] = 0]
      OBVIOUS
    <3>. HIDE <1>8 DEF EnqueueStorePTail, Leave
    <3>2. \A u \in Threads : pc'[u] \in EnqueueOwner =>
            /\ u # t /\ pc[u] \in EnqueueOwner
            /\ producer'[u] = producer[u] /\ producer[u] # p_tail
      BY <2>1, <3>1 DEF TicketsOwned, EnqueueOwner
    <3>3. \A n \in p_tail' .. p_head' - 1 :
            \E u \in Threads : pc'[u] \in EnqueueOwner /\ producer'[u] = n
      <4>. TAKE n \in p_tail' .. p_head' - 1
      <4>1. PICK u \in Threads : pc[u] \in EnqueueOwner /\ producer[u] = n
        BY SMTT(60), <2>1, <3>1 DEF TicketsOwned
      <4>2. u # t
        BY <2>1, <4>1
      <4>. QED BY <3>1, <4>1, <4>2
    <3>. QED BY <2>1, <3>1, <3>2, <3>3 DEF TicketsOwned
  <2>4. StoreIsMine'
    BY <2>1 DEF StoreIsMine, TicketsOwned, EnqueueOwner
  <2>5. SnapshotsOld'
    BY <2>1 DEF SnapshotsOld, EnqueueSearch, DequeuePoints
  <2>. QED BY <2>2, <2>3, <2>4, <2>5
<1>9. CASE DequeueCall(t)
  <2>. USE <1>9 DEF DequeueCall, Enter
  <2>1. RingValid'
    BY DEF RingValid
  <2>2. TicketsOwned'
    BY TicketsUndisturbed DEF EnqueueOwner
  <2>3. StoreIsMine'
    BY DEF StoreIsMine
  <2>4. SnapshotsOld'
    BY UModAssumption, SizeAssumption
       DEF SnapshotsOld, RingValid, EnqueueSearch, DequeuePoints, mask
  <2>. QED BY <2>1, <2>2, <2>3, <2>4
<1>10. CASE DequeueLoadPTail(t)
  <2>. USE <1>10 DEF DequeueLoadPTail
  <2>1. RingValid'
    BY DEF RingValid
  <2>2. TicketsOwned'
    BY TicketsUndisturbed DEF EnqueueOwner
  <2>3. StoreIsMine'
    BY DEF StoreIsMine
  <2>4. consumer[t] < p_tail
    BY DEF SnapshotsOld, RingValid, DequeuePoints, SameUint
  <2>5. SnapshotsOld'
    BY <2>4 DEF SnapshotsOld, EnqueueSearch, DequeuePoints
  <2>. QED BY <2>1, <2>2, <2>3, <2>5
<1>11. CASE DequeueReadSlot(t)
  <2>. USE <1>11 DEF DequeueReadSlot
  <2>1. RingValid'
    BY DEF RingValid
  <2>2. TicketsOwned'
    BY TicketsUndisturbed DEF EnqueueOwner
  <2>3. StoreIsMine'
    BY DEF StoreIsMine
  <2>4. SnapshotsOld'
    BY DEF SnapshotsOld, EnqueueSearch, DequeuePoints
  <2>. QED BY <2>1, <2>2, <2>3, <2>4
<1>12. CASE DequeueCasWins(t)
  <2>1. /\ pc[t] = "deq_cas_c_head" /\ SameUint(c_head, consumer[t])
        /\ c_head' = c_head + 1 /\ p_tail' = p_tail /\ p_head' = p_head
        /\ pc' = [pc EXCEPT ![t] = "idle"]
        /\ producer' = [producer EXCEPT ![t] = 0]
        /\ consumer' = [consumer EXCEPT ![t] = 0]
    BY <1>12 DEF DequeueCasWins, Leave
  <2>2. c_head < p_tail
    <3>1. consumer[t] <= c_head /\ c_head - consumer[t] < UMod
      BY <2>1, UModAssumption, SizeAssumption
         DEF SnapshotsOld, RingValid, DequeuePoints, mask
    <3>2. c_head = consumer[t]
      BY <2>1, <3>1, SameUintExact, SameUintSym
    <3>. QED BY <2>1, <3>2 DEF SnapshotsOld
  <2>3. RingValid'
    BY <2>1, <2>2, SizeAssumption DEF RingValid, mask
  <2>4. TicketsOwned'
    BY <2>1 DEF TicketsOwned, EnqueueOwner
  <2>5. StoreIsMine'
    BY <2>1 DEF StoreIsMine
  <2>6. SnapshotsOld'
    BY <2>1, SizeAssumption DEF SnapshotsOld, EnqueueSearch, DequeuePoints, mask
  <2>. QED BY <2>3, <2>4, <2>5, <2>6
<1>13. CASE DequeueCasLoses(t)
  <2>. USE <1>13 DEF DequeueCasLoses
  <2>1. RingValid'
    BY DEF RingValid
  <2>2. TicketsOwned'
    BY TicketsUndisturbed DEF EnqueueOwner
  <2>3. StoreIsMine'
    BY DEF StoreIsMine
  <2>4. SnapshotsOld'
    BY UModAssumption, SizeAssumption
       DEF SnapshotsOld, RingValid, EnqueueSearch, DequeuePoints, mask
  <2>. QED BY <2>1, <2>2, <2>3, <2>4
<1>. QED
  BY <1>1, <1>2, <1>3, <1>4, <1>5, <1>6, <1>7, <1>8, <1>9, <1>10, <1>11,
     <1>12, <1>13 DEF Call, Step, EnqueueStep, DequeueStep

\* For any number of threads, any size of ring and any width of counter:
\* c_head, p_tail and p_head stay in order and at most mask apart, each ticket
\* won by a CAS of p_head is owned by one thread until that thread publishes
\* it, and only its owner stores p_tail.
THEOREM CountersCorrect == Spec => []CountersInv
<1>1. Init => CountersInv
  BY SizeAssumption
     DEF Init, CountersInv, RingValid, TicketsOwned, StoreIsMine, SnapshotsOld,
         EnqueueOwner, EnqueueSearch, DequeuePoints, At, mask
<1>2. TypeOK /\ CountersInv /\ [Next]_vars => CountersInv'
  BY CountersInductive
<1>. QED BY <1>1, <1>2, TypeCorrect, PTL DEF Spec
----------------------------------------------------------------------------
(* Slots and copies *)

\* A step that writes no slot and moves neither c_head nor p_tail, of a
\* thread that neither wrote an entry nor made a copy.
LEMMA CopiesUndisturbed ==
  ASSUME CopiesInv,
         UNCHANGED <<c_head, p_tail, slot>>,
         NEW t \in Threads,
         \A u \in Threads \ {t} :
           pc'[u] = pc[u] /\ producer'[u] = producer[u] /\
           consumer'[u] = consumer[u] /\ data'[u] = data[u],
         pc'[t] \in EnqueueSearch => data'[t] \in Values,
         pc'[t] \notin EnqueueOwner \cup {"deq_cas_c_head"}
  PROVE  CopiesInv'
BY DEF CopiesInv, EntriesReal, SlotsWritten, CopyIsHead, EnqueueOwner, At, SameUint

\* What ck_ring_init makes of the size it is given.
LEMMA MaskFacts == mask \in Nat /\ mask >= 1 /\ UMod \in Nat /\ mask < UMod
BY SizeAssumption, UModAssumption DEF mask

\* What a consumer whose CAS can still succeed knows about its snapshot.
LEMMA CasReady ==
  ASSUME TypeOK, CountersInv, NEW t \in Threads,
         pc[t] \in {"deq_read_slot", "deq_cas_c_head"},
         SameUint(c_head, consumer[t])
  PROVE  c_head = consumer[t] /\ c_head < p_tail
<1>1. consumer[t] <= c_head /\ c_head - consumer[t] < UMod /\ consumer[t] < p_tail
  <2>1. /\ consumer[t] \in Nat /\ c_head \in Nat /\ p_tail \in Nat /\ p_head \in Nat
        /\ c_head <= p_tail /\ p_tail <= p_head
    BY DEF TypeOK, CountersInv, RingValid
  <2>2. /\ consumer[t] <= c_head /\ consumer[t] < p_tail
        /\ p_head - consumer[t] <= UMod - mask
    BY DEF CountersInv, SnapshotsOld, DequeuePoints
  <2>. QED BY <2>1, <2>2, MaskFacts
<1>2. c_head = consumer[t]
  BY <1>1, SameUintExact, SameUintSym DEF TypeOK
<1>. QED BY <1>1, <1>2

\* A thread writes to no slot that holds a published entry.
LEMMA WritesFreeSlot ==
  ASSUME TypeOK, CountersInv, NEW t \in Threads, pc[t] \in EnqueueOwner
  PROVE  /\ \A n \in c_head .. p_tail - 1 : Index(n) # Index(producer[t])
         /\ \A u \in Threads \ {t} :
              pc[u] \in EnqueueOwner => Index(producer[u]) # Index(producer[t])
<1>. USE DEF TypeOK
<1>1. /\ producer[t] \in p_tail .. p_head - 1 /\ producer[t] \in Nat
      /\ c_head <= p_tail /\ p_head - c_head <= mask
  BY DEF CountersInv, TicketsOwned, RingValid
<1>2. ASSUME NEW n \in c_head .. p_tail - 1
      PROVE  Index(n) # Index(producer[t])
  <2>1. n \in Nat /\ n < producer[t] /\ producer[t] - n <= mask
    BY <1>1, SizeAssumption DEF mask
  <2>. QED BY <1>1, <2>1, IndexInjective
<1>3. ASSUME NEW u \in Threads \ {t}, pc[u] \in EnqueueOwner
      PROVE  Index(producer[u]) # Index(producer[t])
  <2>1. producer[u] \in p_tail .. p_head - 1 /\ producer[u] \in Nat
    BY <1>3 DEF CountersInv, TicketsOwned
  <2>2. producer[u] # producer[t]
    BY <1>3 DEF CountersInv, TicketsOwned
  <2>3. /\ producer[u] < producer[t] \/ producer[t] < producer[u]
        /\ producer[t] - producer[u] <= mask
        /\ producer[u] - producer[t] <= mask
    BY <1>1, <2>1, <2>2, SizeAssumption DEF mask
  <2>. QED BY <1>1, <2>1, <2>3, IndexInjective
<1>. QED BY <1>2, <1>3

\* No access disturbs the slots of published entries, nor a copy that a
\* consumer's CAS can still make its own.
LEMMA CopiesInductive ==
  ASSUME TypeOK, CountersInv, CopiesInv, [Next]_vars
  PROVE  CopiesInv'
<1>. SUFFICES ASSUME Next PROVE CopiesInv'
  <2>1. CASE UNCHANGED vars
    BY <2>1 DEF vars, locals, ring, CopiesInv, EntriesReal, SlotsWritten,
       CopyIsHead, At, SameUint
  <2>. QED BY <2>1
<1>. PICK t \in Threads : Call(t) \/ Step(t)
  BY DEF Next
<1>. USE DEF TypeOK, At, Goto, ring
<1>1. CASE \E v \in Values : EnqueueCall(t, v)
  BY <1>1, CopiesUndisturbed DEF EnqueueCall, Enter, EnqueueOwner
<1>2. CASE EnqueueLoadCHead(t)
  <2>1. data[t] \in Values
    BY <1>2 DEF EnqueueLoadCHead, CopiesInv, EntriesReal, EnqueueSearch
  <2>. QED BY <1>2, <2>1, CopiesUndisturbed DEF EnqueueLoadCHead, EnqueueOwner
<1>3. CASE EnqueueCasWins(t)
  <2>1. /\ pc[t] = "enq_cas_p_head" /\ pc' = [pc EXCEPT ![t] = "enq_write_slot"]
        /\ producer' = [producer EXCEPT ![t] = p_head]
        /\ UNCHANGED <<c_head, p_tail, slot, consumer, data>>
    BY <1>3 DEF EnqueueCasWins
  <2>2. EntriesReal'
    BY <2>1 DEF CopiesInv, EntriesReal, EnqueueSearch
  <2>3. SlotsWritten'
    BY <2>1 DEF CopiesInv, EntriesReal, SlotsWritten, EnqueueSearch, EnqueueOwner
  <2>4. CopyIsHead'
    BY <2>1 DEF CopiesInv, CopyIsHead, SameUint
  <2>. QED BY <2>2, <2>3, <2>4 DEF CopiesInv
<1>4. CASE EnqueueCasLoses(t) \/ EnqueueRetries(t)
  <2>1. data[t] \in Values
    BY <1>4 DEF EnqueueCasLoses, EnqueueRetries, CopiesInv, EntriesReal, EnqueueSearch
  <2>. QED
    BY <1>4, <2>1, CopiesUndisturbed DEF EnqueueCasLoses, EnqueueRetries, EnqueueOwner
<1>5. CASE EnqueueFails(t) \/ DequeueFails(t)
  BY <1>5, CopiesUndisturbed
     DEF EnqueueFails, DequeueFails, Leave, EnqueueOwner, EnqueueSearch
<1>6. CASE EnqueueWriteSlot(t)
  <2>1. /\ pc[t] = "enq_write_slot" /\ pc' = [pc EXCEPT ![t] = "enq_wait_p_tail"]
        /\ slot' = [slot EXCEPT ![Index(producer[t])] = data[t]]
        /\ UNCHANGED <<c_head, p_tail, producer, consumer, data>>
    BY <1>6 DEF EnqueueWriteSlot
  <2>2. Index(producer[t]) \in 0 .. mask /\ data[t] \in Values
    BY <2>1, IndexInRange DEF CopiesInv, SlotsWritten, EnqueueOwner
  <2>3. /\ \A n \in c_head .. p_tail - 1 : slot'[Index(n)] = slot[Index(n)]
        /\ \A u \in Threads \ {t} : pc[u] \in EnqueueOwner =>
             slot'[Index(producer[u])] = slot[Index(producer[u])]
    <3>1. \A n \in Nat : Index(n) \in 0 .. mask
      BY IndexInRange
    <3>2. ASSUME NEW n \in Nat, Index(n) # Index(producer[t])
          PROVE  slot'[Index(n)] = slot[Index(n)]
      BY <2>1, <3>1, <3>2
    <3>3. pc[t] \in EnqueueOwner
      BY <2>1 DEF EnqueueOwner
    <3>4. \A n \in c_head .. p_tail - 1 : n \in Nat
      OBVIOUS
    <3>. QED BY <3>2, <3>3, <3>4, WritesFreeSlot
  <2>4. EntriesReal'
    BY <2>1 DEF CopiesInv, EntriesReal, EnqueueSearch
  <2>5. SlotsWritten'
    BY <2>1, <2>2, <2>3 DEF CopiesInv, SlotsWritten, EnqueueOwner
  <2>6. CopyIsHead'
    BY <2>1, <2>3 DEF CopiesInv, CopyIsHead, SameUint
  <2>. QED BY <2>4, <2>5, <2>6 DEF CopiesInv
<1>7. CASE EnqueueMyTurn(t)
  <2>1. /\ pc[t] = "enq_wait_p_tail" /\ pc' = [pc EXCEPT ![t] = "enq_store_p_tail"]
        /\ UNCHANGED <<c_head, p_tail, slot, producer, consumer, data>>
    BY <1>7 DEF EnqueueMyTurn
  <2>. QED
    BY <2>1 DEF CopiesInv, EntriesReal, SlotsWritten, CopyIsHead, SameUint,
       EnqueueSearch, EnqueueOwner
<1>8. CASE EnqueueStorePTail(t)
  <2>1. /\ pc[t] = "enq_store_p_tail" /\ pc' = [pc EXCEPT ![t] = "idle"]
        /\ p_tail = producer[t] /\ p_tail' = p_tail + 1
        /\ producer' = [producer EXCEPT ![t] = 0]
        /\ consumer' = [consumer EXCEPT ![t] = 0]
        /\ data' = [data EXCEPT ![t] = NoValue]
        /\ UNCHANGED <<c_head, slot>>
    BY <1>8 DEF EnqueueStorePTail, Leave, CountersInv, StoreIsMine
  <2>2. slot[Index(p_tail)] \in Values
    BY <2>1 DEF CopiesInv, SlotsWritten, EnqueueOwner
  <2>3. EntriesReal'
    BY <2>1 DEF CopiesInv, EntriesReal, EnqueueSearch
  <2>4. SlotsWritten'
    BY <2>1, <2>2 DEF CopiesInv, SlotsWritten, EnqueueOwner
  <2>5. CopyIsHead'
    BY <2>1 DEF CopiesInv, CopyIsHead, SameUint
  <2>. QED BY <2>3, <2>4, <2>5 DEF CopiesInv
<1>9. CASE DequeueCall(t)
  BY <1>9, CopiesUndisturbed DEF DequeueCall, Enter, EnqueueOwner, EnqueueSearch
<1>10. CASE DequeueLoadPTail(t)
  BY <1>10, CopiesUndisturbed DEF DequeueLoadPTail, EnqueueOwner, EnqueueSearch
<1>11. CASE DequeueReadSlot(t)
  <2>1. /\ pc[t] = "deq_read_slot" /\ pc' = [pc EXCEPT ![t] = "deq_cas_c_head"]
        /\ data' = [data EXCEPT ![t] = slot[Index(consumer[t])]]
        /\ UNCHANGED <<c_head, p_tail, slot, producer, consumer>>
    BY <1>11 DEF DequeueReadSlot
  <2>2. SameUint(c_head, consumer[t]) =>
          /\ c_head = consumer[t] /\ c_head < p_tail
          /\ slot[Index(c_head)] \in Values
    BY <2>1, CasReady DEF CopiesInv, SlotsWritten
  <2>3. EntriesReal'
    BY <2>1 DEF CopiesInv, EntriesReal, EnqueueSearch
  <2>4. SlotsWritten'
    BY <2>1 DEF CopiesInv, SlotsWritten, EnqueueOwner
  <2>5. CopyIsHead'
    BY <2>1, <2>2, NoValueAssumption DEF CopiesInv, CopyIsHead, SameUint
  <2>. QED BY <2>3, <2>4, <2>5 DEF CopiesInv
<1>12. CASE DequeueCasWins(t)
  <2>1. /\ pc[t] = "deq_cas_c_head" /\ pc' = [pc EXCEPT ![t] = "idle"]
        /\ SameUint(c_head, consumer[t]) /\ c_head' = c_head + 1
        /\ producer' = [producer EXCEPT ![t] = 0]
        /\ consumer' = [consumer EXCEPT ![t] = 0]
        /\ data' = [data EXCEPT ![t] = NoValue]
        /\ UNCHANGED <<p_tail, p_head, slot>>
    BY <1>12 DEF DequeueCasWins, Leave
  <2>2. EntriesReal'
    BY <2>1 DEF CopiesInv, EntriesReal, EnqueueSearch
  <2>3. SlotsWritten'
    BY <2>1 DEF CopiesInv, SlotsWritten, EnqueueOwner
  <2>4. CopyIsHead'
    \* Every other consumer's snapshot is now too old for its CAS.
    <3>1. ASSUME NEW u \in Threads, pc'[u] = "deq_cas_c_head"
          PROVE  ~ SameUint(c_head', consumer'[u])
      <4>1. u # t /\ pc[u] = "deq_cas_c_head" /\ consumer'[u] = consumer[u]
        BY <2>1, <3>1
      <4>2. consumer[u] <= c_head /\ p_head - consumer[u] <= UMod - mask
        BY <4>1 DEF CountersInv, SnapshotsOld, DequeuePoints
      <4>3. c_head < p_head
        BY <2>1, CasReady DEF CountersInv, RingValid
      <4>4. consumer[u] < c_head' /\ c_head' - consumer[u] < UMod
        <5>1. consumer[u] \in Nat /\ c_head' = c_head + 1
          BY <2>1
        <5>. QED BY <4>2, <4>3, <5>1, MaskFacts
      <4>. QED BY <2>1, <4>1, <4>4, SameUintExact, SameUintSym
    <3>. QED BY <3>1 DEF CopyIsHead
  <2>. QED BY <2>2, <2>3, <2>4 DEF CopiesInv
<1>13. CASE DequeueCasLoses(t)
  BY <1>13, CopiesUndisturbed DEF DequeueCasLoses, EnqueueOwner, EnqueueSearch
<1>. QED
  BY <1>1, <1>2, <1>3, <1>4, <1>5, <1>6, <1>7, <1>8, <1>9, <1>10, <1>11,
     <1>12, <1>13 DEF Call, Step, EnqueueStep, DequeueStep

\* The copy _ck_ring_dequeue_mc makes before its CAS is, whenever that CAS
\* succeeds, the entry the owner of the ticket wrote, for any number of
\* threads, any size of ring and any width of counter.
THEOREM CopiesCorrect == Spec => []CopiesInv
<1>1. Init => CopiesInv
  BY DEF Init, CopiesInv, EntriesReal, SlotsWritten, CopyIsHead,
     EnqueueOwner, EnqueueSearch, At
<1>2. TypeOK /\ CountersInv /\ CopiesInv /\ [Next]_vars => CopiesInv'
  BY CopiesInductive
<1>. QED BY <1>1, <1>2, TypeCorrect, CountersCorrect, PTL DEF Spec

----------------------------------------------------------------------------
(* What the users of the ring rely on *)

\* Producers never run more than mask tickets ahead of the consumers, although
\* _ck_ring_enqueue_mp compares its ticket with an old c_head: the test of
\* ck_ring_valid holds of the counters at every step.
THEOREM RingStaysValid == Spec => []RingValid
<1>1. CountersInv => RingValid
  BY DEF CountersInv
<1>. QED BY <1>1, CountersCorrect, PTL

\* Every ticket between p_tail and p_head is in the hands of one thread of
\* _ck_ring_enqueue_mp: the spin loop before the store of p_tail waits for
\* threads that are going to store it.
THEOREM TicketsStayOwned == Spec => []TicketsOwned
<1>1. CountersInv => TicketsOwned
  BY DEF CountersInv
<1>. QED BY <1>1, CountersCorrect, PTL

\* When the CAS of c_head in _ck_ring_dequeue_mc is about to succeed, the copy
\* made before it is the published entry at the head of the ring.
THEOREM CopyStaysHead == Spec => []CopyIsHead
<1>1. CopiesInv => CopyIsHead
  BY DEF CopiesInv
<1>. QED BY <1>1, CopiesCorrect, PTL

----------------------------------------------------------------------------
(* Failing calls *)

\* A call that found no room, or nothing published, has seen the ring full, or
\* empty, while it ran. After its load of c_head an enqueue is right as long as
\* p_head stays what it was.
FailuresSeen ==
  \A t \in Threads :
    /\ pc[t] \in EnqueueSearch /\ Full(c_head, p_head) => mayFail[t]
    /\ At(t, "enq_reload_p_head") /\ producer[t] = p_head => mayFail[t]
    /\ pc[t] \in DequeuePoints /\ Empty(c_head, p_tail) => mayFail[t]

\* The test of the enqueue is exact if nobody won a ticket since the snapshot.
LEMMA NoRoomIsFull ==
  ASSUME TypeOK, CountersInv, NEW t \in Threads, ~ HasRoom(t), producer[t] = p_head
  PROVE  Full(c_head, p_head)
<1>. SUFFICES ASSUME p_head - c_head < mask PROVE FALSE
  BY SizeAssumption DEF TypeOK, Full, mask
<1>1. /\ p_head - c_head \in 0 .. UMod - 1 /\ UMod \in Nat /\ UMod > 0
  BY MaskFacts DEF TypeOK, CountersInv, RingValid
<1>2. (p_head - c_head) % UMod = p_head - c_head
  BY <1>1
<1>. QED BY <1>2 DEF HasRoom, UintDiff

\* No step makes a call fail that was not entitled to.
LEMMA FailuresInductive ==
  ASSUME TypeOK, CountersInv, FailuresSeen, [Next]_vars
  PROVE  FailuresSeen'
<1>. SUFFICES ASSUME Next PROVE FailuresSeen'
  <2>1. CASE UNCHANGED vars
    BY <2>1 DEF vars, locals, ring, FailuresSeen, At, Full, Empty
  <2>. QED BY <2>1
<1>. PICK t \in Threads : Call(t) \/ Step(t)
  BY DEF Next
<1>. USE DEF TypeOK, At, Goto, ring, Full, Empty
<1>0. mask \in Nat /\ c_head <= p_tail /\ p_tail <= p_head
  BY MaskFacts DEF CountersInv, RingValid
\* A step that moves no counter, and the thread it is of.
<1>a. ASSUME UNCHANGED <<c_head, p_tail, p_head>>,
             \A u \in Threads \ {t} :
               pc'[u] = pc[u] /\ producer'[u] = producer[u] /\ mayFail'[u] = mayFail[u],
             /\ pc'[t] \in EnqueueSearch /\ p_head - c_head >= mask => mayFail'[t]
             /\ pc'[t] = "enq_reload_p_head" /\ producer'[t] = p_head => mayFail'[t]
             /\ pc'[t] \in DequeuePoints /\ p_tail = c_head => mayFail'[t]
      PROVE  FailuresSeen'
  BY <1>a DEF FailuresSeen
<1>1. CASE \E v \in Values : EnqueueCall(t, v)
  BY <1>1, <1>a DEF EnqueueCall, Enter, EnqueueSearch, DequeuePoints
<1>2. CASE EnqueueLoadCHead(t)
  BY <1>2, <1>a, NoRoomIsFull DEF EnqueueLoadCHead, FailuresSeen, EnqueueSearch, DequeuePoints
<1>3. CASE EnqueueCasWins(t)
  <2>1. /\ p_head' = p_head + 1 /\ UNCHANGED <<c_head, p_tail>>
        /\ pc' = [pc EXCEPT ![t] = "enq_write_slot"]
        /\ \A u \in Threads \ {t} : producer'[u] = producer[u]
        /\ \A u \in Threads :
             mayFail'[u] <=> u # t /\ (mayFail[u] \/ (pc[u] \in EnqueueSearch /\ p_head + 1 - c_head >= mask))
    BY <1>3 DEF EnqueueCasWins
  <2>2. \A u \in Threads : pc[u] \in EnqueueSearch => producer[u] <= p_head
    BY DEF CountersInv, SnapshotsOld
  <2>. QED BY <1>0, <2>1, <2>2 DEF FailuresSeen, EnqueueSearch, DequeuePoints
<1>4. CASE EnqueueCasLoses(t) \/ EnqueueRetries(t)
  BY <1>4, <1>a DEF EnqueueCasLoses, EnqueueRetries, FailuresSeen, EnqueueSearch, DequeuePoints
<1>5. CASE EnqueueFails(t) \/ DequeueFails(t)
  BY <1>5, <1>a DEF EnqueueFails, DequeueFails, Leave, EnqueueSearch, DequeuePoints
<1>6. CASE EnqueueWriteSlot(t) \/ EnqueueMyTurn(t)
  BY <1>6, <1>a DEF EnqueueWriteSlot, EnqueueMyTurn, EnqueueSearch, DequeuePoints
<1>7. CASE EnqueueStorePTail(t)
  <2>1. /\ p_tail' = p_tail + 1 /\ UNCHANGED <<c_head, p_head, mayFail>>
        /\ pc' = [pc EXCEPT ![t] = "idle"]
        /\ \A u \in Threads \ {t} : producer'[u] = producer[u]
    BY <1>7 DEF EnqueueStorePTail, Leave, CountersInv, StoreIsMine
  <2>. QED BY <1>0, <2>1 DEF FailuresSeen, EnqueueSearch, DequeuePoints
<1>8. CASE DequeueCall(t)
  BY <1>8, <1>a DEF DequeueCall, Enter, EnqueueSearch, DequeuePoints
<1>9. CASE DequeueLoadPTail(t) \/ DequeueReadSlot(t) \/ DequeueCasLoses(t)
  BY <1>9, <1>a
     DEF DequeueLoadPTail, DequeueReadSlot, DequeueCasLoses, FailuresSeen, EnqueueSearch, DequeuePoints
<1>10. CASE DequeueCasWins(t)
  <2>1. /\ c_head' = c_head + 1 /\ UNCHANGED <<p_tail, p_head>>
        /\ pc' = [pc EXCEPT ![t] = "idle"]
        /\ \A u \in Threads \ {t} : producer'[u] = producer[u]
        /\ \A u \in Threads :
             mayFail'[u] <=> u # t /\ (mayFail[u] \/ (pc[u] \in DequeuePoints /\ p_tail = c_head + 1))
    BY <1>10 DEF DequeueCasWins, Leave
  <2>. QED BY <1>0, <2>1 DEF FailuresSeen, EnqueueSearch, DequeuePoints
<1>. QED
  BY <1>1, <1>2, <1>3, <1>4, <1>5, <1>6, <1>7, <1>8, <1>9, <1>10
     DEF Call, Step, EnqueueStep, DequeueStep

\* A call fails only if the ring was full, or had nothing published, while it ran.
LEMMA FailuresCorrect == Spec => []FailuresSeen
<1>1. Init => FailuresSeen
  BY DEF Init, FailuresSeen, EnqueueSearch, DequeuePoints, At
<1>2. TypeOK /\ CountersInv /\ FailuresSeen /\ [Next]_vars => FailuresSeen'
  BY FailuresInductive
<1>. QED BY <1>1, <1>2, TypeCorrect, CountersCorrect, PTL DEF Spec

\* A call that runs has returned nothing yet.
NothingReturned == \A t \in Threads : pc[t] # "idle" => ret[t] = NoReturn

\* Only the steps that leave _ck_ring_enqueue_mp or _ck_ring_dequeue_mc set the
\* result.
LEMMA ReturnsCorrect == Spec => []NothingReturned
<1>1. Init => NothingReturned
  BY DEF Init, NothingReturned
<1>2. TypeOK /\ NothingReturned /\ [Next]_vars => NothingReturned'
  <2>. SUFFICES ASSUME TypeOK, NothingReturned, [Next]_vars PROVE NothingReturned'
    OBVIOUS
  <2>1. CASE UNCHANGED vars
    BY <2>1 DEF vars, locals, NothingReturned
  <2>2. CASE Next
    <3>. PICK t \in Threads : Call(t) \/ Step(t)
      BY <2>2 DEF Next
    <3>. USE DEF TypeOK, At, Goto
    <3>1. ASSUME \A u \in Threads \ {t} : pc'[u] = pc[u] /\ ret'[u] = ret[u],
                 pc'[t] = "idle" \/ ret'[t] = NoReturn \/ (pc[t] # "idle" /\ ret'[t] = ret[t])
          PROVE  NothingReturned'
      BY <3>1 DEF NothingReturned
    <3>2. CASE Call(t)
      BY <3>1, <3>2 DEF Call, DequeueCall, EnqueueCall, Enter
    <3>3. CASE EnqueueLoadCHead(t) \/ EnqueueCasWins(t) \/ EnqueueCasLoses(t) \/ EnqueueRetries(t)
               \/ EnqueueWriteSlot(t) \/ EnqueueMyTurn(t)
      BY <3>1, <3>3
         DEF EnqueueLoadCHead, EnqueueCasWins, EnqueueCasLoses, EnqueueRetries, EnqueueWriteSlot, EnqueueMyTurn
    <3>4. CASE DequeueLoadPTail(t) \/ DequeueReadSlot(t) \/ DequeueCasLoses(t)
      BY <3>1, <3>4 DEF DequeueLoadPTail, DequeueReadSlot, DequeueCasLoses
    <3>5. CASE EnqueueFails(t) \/ EnqueueStorePTail(t) \/ DequeueFails(t) \/ DequeueCasWins(t)
      BY <3>1, <3>5 DEF EnqueueFails, EnqueueStorePTail, DequeueFails, DequeueCasWins, Leave
    <3>. QED BY <3>2, <3>3, <3>4, <3>5 DEF Step, EnqueueStep, DequeueStep
  <2>. QED BY <2>1, <2>2
<1>. QED BY <1>1, <1>2, TypeCorrect, PTL DEF Spec

----------------------------------------------------------------------------
(* The abstract ring *)

\* A function on 1 .. n is a sequence of length n.
LEMMA SpanIsSeq ==
  ASSUME NEW S, NEW n \in Nat, NEW f \in [1 .. n -> S]
  PROVE  f \in Seq(S) /\ Len(f) = n
<1>1. f \in Seq(S)
  BY SeqDef
<1>2. Len(f) \in Nat /\ 1 .. Len(f) = 1 .. n
  BY <1>1, LenProperties
<1>. QED BY <1>1, <1>2

\* One more ticket at the end,
LEMMA SpanAppend ==
  ASSUME NEW S, NEW n \in Nat, NEW f \in [1 .. n -> S], NEW g \in [1 .. n + 1 -> S],
         \A i \in 1 .. n : g[i] = f[i]
  PROVE  g = Append(f, g[n + 1])
<1>1. f \in Seq(S) /\ Len(f) = n /\ g \in Seq(S) /\ Len(g) = n + 1 /\ g[n + 1] \in S
  BY SpanIsSeq
<1>. DEFINE a == Append(f, g[n + 1])
<1>2. /\ a \in Seq(S) /\ Len(a) = n + 1
      /\ \A i \in 1 .. n : a[i] = f[i]
      /\ a[n + 1] = g[n + 1]
  BY <1>1, AppendProperties
<1>. HIDE DEF a
<1>3. \A i \in 1 .. Len(g) : g[i] = a[i]
  BY <1>1, <1>2
<1>4. g = a
  BY <1>1, <1>2, <1>3, SeqEqual
<1>. QED BY <1>4 DEF a

\* and one less at the front.
LEMMA SpanTail ==
  ASSUME NEW S, NEW n \in Nat, NEW f \in [1 .. n + 1 -> S], NEW g \in [1 .. n -> S],
         \A i \in 1 .. n : g[i] = f[i + 1]
  PROVE  f # <<>> /\ Head(f) = f[1] /\ g = Tail(f)
<1>1. g \in Seq(S) /\ Len(g) = n /\ f \in Seq(S) /\ Len(f) = n + 1
  BY SpanIsSeq
<1>2. f # <<>>
  BY <1>1, EmptySeq
<1>. DEFINE a == Tail(f)
<1>3. a \in Seq(S) /\ Len(a) = n /\ \A i \in 1 .. n : a[i] = f[i + 1]
  BY <1>1, <1>2, HeadTailProperties
<1>4. Head(f) = f[1]
  BY <1>1, <1>2
<1>. HIDE DEF a
<1>5. g = a
  BY <1>1, <1>3, SeqEqual
<1>. QED BY <1>2, <1>4, <1>5 DEF a

\* What the abstract ring holds, ticket by ticket.
Ticket == [by : Threads, val : Values]
PublishedIs ==
  /\ Published \in [1 .. p_tail - c_head -> Values]
  /\ \A n \in c_head .. p_tail - 1 : Published[n - c_head + 1] = slot[Index(n)]
WonIs ==
  /\ Won \in [1 .. p_head - p_tail -> Ticket]
  /\ \A t \in Threads : pc[t] \in EnqueueOwner =>
       Won[producer[t] - p_tail + 1] = [by |-> t, val |-> data[t]]

\* The invariant the mapping rests on.
RingInv == TypeOK /\ CountersInv /\ CopiesInv

\* The mapping finds the published entries in their slots, and for each ticket
\* that is not published the thread that owns it.
LEMMA RingHolds == RingInv => PublishedIs /\ WonIs
<1>. SUFFICES ASSUME RingInv PROVE PublishedIs /\ WonIs
  OBVIOUS
<1>1. c_head \in Nat /\ p_tail \in Nat /\ p_head \in Nat /\ c_head <= p_tail /\ p_tail <= p_head
  BY DEF RingInv, TypeOK, CountersInv, RingValid
<1>2. \A n \in c_head .. p_tail - 1 : slot[Index(n)] \in Values
  BY DEF RingInv, CopiesInv, SlotsWritten
<1>3. PublishedIs
  BY <1>1, <1>2 DEF PublishedIs, Published
<1>4. ASSUME NEW t \in Threads, pc[t] \in EnqueueOwner
      PROVE  /\ producer[t] \in p_tail .. p_head - 1
             /\ Owner(producer[t]) = t /\ data[t] \in Values
  BY <1>4 DEF RingInv, CountersInv, CopiesInv, TicketsOwned, SlotsWritten, Owner
<1>5. \A n \in p_tail .. p_head - 1 : \E t \in Threads : pc[t] \in EnqueueOwner /\ producer[t] = n
  BY DEF RingInv, CountersInv, TicketsOwned
<1>6. \A n \in p_tail .. p_head - 1 : Owner(n) \in Threads /\ data[Owner(n)] \in Values
  BY <1>4, <1>5
<1>7. Won \in [1 .. p_head - p_tail -> Ticket]
  BY <1>1, <1>6 DEF Won, Ticket
<1>8. ASSUME NEW t \in Threads, pc[t] \in EnqueueOwner
      PROVE  Won[producer[t] - p_tail + 1] = [by |-> t, val |-> data[t]]
  <2>1. producer[t] \in p_tail .. p_head - 1 /\ Owner(producer[t]) = t
    BY <1>4, <1>8
  <2>. DEFINE i == producer[t] - p_tail + 1
  <2>2. i \in 1 .. p_head - p_tail /\ p_tail + i - 1 = producer[t]
    BY <1>1, <2>1
  <2>. HIDE DEF i
  <2>3. Won[i] = [by |-> Owner(p_tail + i - 1), val |-> data[Owner(p_tail + i - 1)]]
    BY <2>2 DEF Won
  <2>. QED BY <2>1, <2>2, <2>3 DEF i
<1>. QED BY <1>3, <1>7, <1>8 DEF WonIs

\* A step that moves neither c_head nor p_tail nor writes a published slot.
LEMMA PublishedKept ==
  ASSUME RingInv, RingInv', UNCHANGED <<c_head, p_tail>>,
         \A n \in c_head .. p_tail - 1 : slot'[Index(n)] = slot[Index(n)]
  PROVE  Published' = Published
<1>1. PublishedIs
  BY RingHolds
<1>2. PublishedIs'
  BY RingHolds, PTL
<1>3. c_head \in Nat /\ p_tail \in Nat /\ c_head <= p_tail
  BY DEF RingInv, TypeOK, CountersInv, RingValid
<1>. DEFINE m == p_tail - c_head
<1>4. m \in Nat /\ Published \in [1 .. m -> Values] /\ Published' \in [1 .. m -> Values]
  BY <1>1, <1>2, <1>3 DEF PublishedIs
<1>5. ASSUME NEW i \in 1 .. m PROVE Published'[i] = Published[i]
  <2>1. c_head + i - 1 \in c_head .. p_tail - 1 /\ (c_head + i - 1) - c_head + 1 = i
    BY <1>3
  <2>. QED BY <1>1, <1>2, <2>1 DEF PublishedIs
<1>. HIDE DEF m
<1>. QED BY <1>4, <1>5

\* A step that moves neither p_tail nor p_head and disturbs no owner.
LEMMA WonKept ==
  ASSUME RingInv, RingInv', UNCHANGED <<p_tail, p_head>>,
         \A u \in Threads : pc[u] \in EnqueueOwner =>
           pc'[u] \in EnqueueOwner /\ producer'[u] = producer[u] /\ data'[u] = data[u]
  PROVE  Won' = Won
<1>1. WonIs
  BY RingHolds
<1>2. WonIs'
  BY RingHolds, PTL
<1>3. p_tail \in Nat /\ p_head \in Nat /\ p_tail <= p_head
  BY DEF RingInv, TypeOK, CountersInv, RingValid
<1>. DEFINE m == p_head - p_tail
<1>4. m \in Nat /\ Won \in [1 .. m -> Ticket] /\ Won' \in [1 .. m -> Ticket]
  BY <1>1, <1>2, <1>3 DEF WonIs
<1>5. ASSUME NEW i \in 1 .. m PROVE Won'[i] = Won[i]
  <2>1. p_tail + i - 1 \in p_tail .. p_head - 1 /\ (p_tail + i - 1) - p_tail + 1 = i
    BY <1>3
  <2>2. PICK t \in Threads : pc[t] \in EnqueueOwner /\ producer[t] = p_tail + i - 1
    BY <2>1 DEF RingInv, CountersInv, TicketsOwned
  <2>3. Won[i] = [by |-> t, val |-> data[t]]
    BY <1>1, <2>1, <2>2 DEF WonIs
  <2>4. /\ pc'[t] \in EnqueueOwner /\ data'[t] = data[t]
        /\ producer'[t] - p_tail' + 1 = i
    BY <2>1, <2>2
  <2>5. Won'[producer'[t] - p_tail' + 1] = [by |-> t, val |-> data'[t]]
    BY <1>2, <2>4 DEF WonIs
  <2>. QED BY <2>3, <2>4, <2>5
<1>. HIDE DEF m
<1>. QED BY <1>4, <1>5

\* What a thread is doing, and with which entry, after a step of it.
LEMMA CallMoves ==
  ASSUME TypeOK, NEW t \in Threads, NEW point, pc' = [pc EXCEPT ![t] = point],
         \A u \in Threads \ {t} : data'[u] = data[u]
  PROVE  /\ Operation' = [Operation EXCEPT ![t] = OperationAt(point)]
         /\ Argument' = [Argument EXCEPT ![t] =
                           IF point \in EnqueueSearch \cup EnqueueOwner THEN data'[t] ELSE NoValue]
<1>1. pc'[t] = point /\ \A u \in Threads \ {t} : pc'[u] = pc[u] /\ data'[u] = data[u]
  BY DEF TypeOK
<1>. DEFINE o == [Operation EXCEPT ![t] = OperationAt(point)]
            a == [Argument EXCEPT ![t] =
                    IF point \in EnqueueSearch \cup EnqueueOwner THEN data'[t] ELSE NoValue]
<1>2. Operation' = o
  <2>1. DOMAIN Operation' = Threads /\ DOMAIN o = Threads
    BY DEF Operation
  <2>2. \A u \in Threads : Operation'[u] = o[u]
    BY <1>1 DEF Operation
  <2>. QED BY <2>1, <2>2 DEF Operation
<1>3. Argument' = a
  <2>1. ASSUME NEW u \in Threads PROVE Argument'[u] = a[u]
    BY <1>1 DEF Argument
  <2>. QED BY <2>1 DEF Argument
<1>. QED BY <1>2, <1>3

\* What the control points of a call are called in RingQueue.
LEMMA Operations ==
  /\ OperationAt("idle") = "idle"
  /\ \A point \in EnqueueSearch : OperationAt(point) = "enqueue"
  /\ \A point \in EnqueueOwner : OperationAt(point) = "reserved"
  /\ \A point \in DequeuePoints : OperationAt(point) = "dequeue"
BY DEF OperationAt, EnqueueSearch, EnqueueOwner, DequeuePoints

AbstractRing == [queue |-> Published, pending |-> Won]

\* The abstract ring is full, or has nothing published, when the counters say so.
LEMMA FullAndEmpty ==
  RingInv =>
    /\ RQ!RingFull(AbstractRing, mask) <=> Full(c_head, p_head)
    /\ RQ!RingEmpty(AbstractRing) <=> Empty(c_head, p_tail)
<1>. SUFFICES ASSUME RingInv
     PROVE  /\ RQ!RingFull(AbstractRing, mask) <=> Full(c_head, p_head)
            /\ RQ!RingEmpty(AbstractRing) <=> Empty(c_head, p_tail)
  OBVIOUS
<1>1. /\ c_head \in Nat /\ p_tail \in Nat /\ p_head \in Nat
      /\ c_head <= p_tail /\ p_tail <= p_head
  BY DEF RingInv, TypeOK, CountersInv, RingValid
<1>2. Published \in Seq(Values) /\ Len(Published) = p_tail - c_head
  BY <1>1, RingHolds, SpanIsSeq DEF PublishedIs
<1>3. Len(Won) = p_head - p_tail
  <2>1. Won \in [1 .. p_head - p_tail -> Ticket]
    BY RingHolds DEF WonIs
  <2>. QED BY <1>1, <2>1, SpanIsSeq
<1>4. Published = <<>> <=> Len(Published) = 0
  BY <1>2, EmptySeq
<1>5. mask \in Nat
  BY MaskFacts
<1>6. RQ!RingEmpty(AbstractRing) <=> Empty(c_head, p_tail)
  BY <1>1, <1>2, <1>4 DEF RQ!RingEmpty, Empty, AbstractRing
<1>7. RQ!Occupied(AbstractRing) = p_head - c_head
  BY <1>1, <1>2, <1>3 DEF RQ!Occupied, AbstractRing
<1>. QED BY <1>6, <1>7 DEF RQ!RingFull, Full

\* A step the users of the ring do not see.
LEMMA Unseen ==
  ASSUME RingInv, RingInv', NEW t \in Threads, NEW point,
         UNCHANGED <<c_head, p_tail, p_head, ret, mayFail>>,
         \A n \in c_head .. p_tail - 1 : slot'[Index(n)] = slot[Index(n)],
         \A u \in Threads \ {t} :
           pc'[u] = pc[u] /\ producer'[u] = producer[u] /\ data'[u] = data[u],
         pc' = [pc EXCEPT ![t] = point],
         \/ pc[t] \in EnqueueSearch /\ point \in EnqueueSearch /\ data'[t] = data[t]
         \/ pc[t] \in EnqueueOwner /\ point \in EnqueueOwner /\ data'[t] = data[t]
              /\ producer'[t] = producer[t]
         \/ pc[t] \in DequeuePoints /\ point \in DequeuePoints
  PROVE  UNCHANGED RQ!vars
<1>1. TypeOK
  BY DEF RingInv
<1>2. pc'[t] = point /\ t \in DOMAIN pc
  BY <1>1 DEF TypeOK
<1>3. Published' = Published
  BY PublishedKept
<1>4. Won' = Won
  <2>1. ASSUME NEW u \in Threads, pc[u] \in EnqueueOwner
        PROVE  pc'[u] \in EnqueueOwner /\ producer'[u] = producer[u] /\ data'[u] = data[u]
    <3>1. CASE u = t
      BY <1>2, <2>1, <3>1 DEF EnqueueOwner, EnqueueSearch, DequeuePoints
    <3>2. CASE u # t
      BY <2>1, <3>2
    <3>. QED BY <3>1, <3>2
  <2>. QED BY <2>1, WonKept
<1>5. /\ Operation' = [Operation EXCEPT ![t] = OperationAt(point)]
      /\ Argument' = [Argument EXCEPT ![t] =
                        IF point \in EnqueueSearch \cup EnqueueOwner THEN data'[t] ELSE NoValue]
  BY <1>1, CallMoves
<1>6. OperationAt(point) = Operation[t]
  BY Operations DEF Operation
<1>7. (IF point \in EnqueueSearch \cup EnqueueOwner THEN data'[t] ELSE NoValue) = Argument[t]
  BY DEF Argument, EnqueueSearch, EnqueueOwner, DequeuePoints
<1>8. Operation' = Operation /\ Argument' = Argument
  BY <1>5, <1>6, <1>7 DEF Operation, Argument
<1>. QED BY <1>3, <1>4, <1>8 DEF RQ!vars

\* Entering _ck_ring_enqueue_mp or _ck_ring_dequeue_mc begins the abstract call.
LEMMA CallMaps ==
  ASSUME RingInv, RingInv', NEW t \in Threads, Call(t)
  PROVE  RQ!Next
<1>. USE DEF At, Goto, ring
<1>1. TypeOK
  BY DEF RingInv
<1>2. pc[t] = "idle" /\ Operation[t] = "idle"
  BY Operations DEF Call, DequeueCall, EnqueueCall, Enter, Operation
<1>3. /\ UNCHANGED <<c_head, p_tail, p_head, slot>>
      /\ \A u \in Threads \ {t} :
           pc'[u] = pc[u] /\ producer'[u] = producer[u] /\ data'[u] = data[u]
  BY <1>1 DEF Call, DequeueCall, EnqueueCall, Enter, TypeOK
<1>4. Published' = Published
  BY <1>3, PublishedKept
<1>5. Won' = Won
  BY <1>2, <1>3, WonKept DEF EnqueueOwner
<1>6. CASE DequeueCall(t)
  <2>1. pc' = [pc EXCEPT ![t] = "deq_load_p_tail"] /\ "deq_load_p_tail" \in DequeuePoints
    BY <1>6 DEF DequeueCall, Enter, DequeuePoints
  <2>2. /\ Operation' = [Operation EXCEPT ![t] = "dequeue"]
        /\ Argument' = [Argument EXCEPT ![t] = NoValue]
    <3>1. "deq_load_p_tail" \notin EnqueueSearch \cup EnqueueOwner
      BY DEF EnqueueSearch, EnqueueOwner
    <3>2. /\ Operation' = [Operation EXCEPT ![t] = OperationAt("deq_load_p_tail")]
          /\ Argument' = [Argument EXCEPT ![t] =
               IF "deq_load_p_tail" \in EnqueueSearch \cup EnqueueOwner THEN data'[t] ELSE NoValue]
      BY <1>1, <1>3, <2>1, CallMoves
    <3>. QED BY <2>1, <3>1, <3>2, Operations
  <2>3. Argument[t] = NoValue
    BY <1>2 DEF Argument, EnqueueSearch, EnqueueOwner
  <2>4. Argument' = Argument
    BY <2>2, <2>3 DEF Argument
  <2>5. /\ mayFail' = [mayFail EXCEPT ![t] = Empty(c_head, p_tail)]
        /\ ret' = [ret EXCEPT ![t] = NoReturn]
    BY <1>6 DEF DequeueCall, Enter
  <2>6. mayFail' = [mayFail EXCEPT ![t] = RQ!RingEmpty(AbstractRing)]
    BY <1>1, <2>5, FullAndEmpty DEF Empty, RQ!RingEmpty, TypeOK
  <2>7. RQ!BeginDequeue(t)
    BY <1>2, <1>4, <1>5, <2>2, <2>4, <2>5, <2>6
       DEF RQ!BeginDequeue, RQ!Idle, RQ!Dequeuing, RQ!NoReturn, NoReturn, AbstractRing
  <2>. QED BY <2>7 DEF RQ!Next
<1>7. CASE \E v \in Values : EnqueueCall(t, v)
  <2>. PICK v \in Values : EnqueueCall(t, v)
    BY <1>7
  <2>1. pc' = [pc EXCEPT ![t] = "enq_load_c_head"] /\ "enq_load_c_head" \in EnqueueSearch
    BY DEF EnqueueCall, Enter, EnqueueSearch
  <2>2. data'[t] = v
    BY <1>1 DEF EnqueueCall, TypeOK
  <2>3. /\ Operation' = [Operation EXCEPT ![t] = "enqueue"]
        /\ Argument' = [Argument EXCEPT ![t] = v]
    BY <1>1, <1>3, <2>1, <2>2, CallMoves, Operations
  <2>5. /\ mayFail' = [mayFail EXCEPT ![t] = Full(c_head, p_head)]
        /\ ret' = [ret EXCEPT ![t] = NoReturn]
    BY DEF EnqueueCall, Enter
  <2>6. mayFail' = [mayFail EXCEPT ![t] = RQ!RingFull(AbstractRing, mask)]
    <3>1. RQ!RingFull(AbstractRing, mask) \in BOOLEAN /\ Full(c_head, p_head) \in BOOLEAN
      BY DEF RQ!RingFull, Full
    <3>2. RQ!RingFull(AbstractRing, mask) = Full(c_head, p_head)
      BY <3>1, FullAndEmpty
    <3>. QED BY <2>5, <3>2
  <2>7. RQ!BeginEnqueue(t, v)
    BY <1>2, <1>4, <1>5, <2>3, <2>5, <2>6
       DEF RQ!BeginEnqueue, RQ!Idle, RQ!Enqueuing, RQ!NoReturn, NoReturn, AbstractRing
  <2>. QED BY <2>7 DEF RQ!Next
<1>. QED BY <1>6, <1>7 DEF Call

\* The CAS of p_head that wins a ticket reserves a place.
LEMMA ReserveMaps ==
  ASSUME RingInv, RingInv', NEW t \in Threads, EnqueueCasWins(t)
  PROVE  RQ!Next
<1>. USE DEF At, Goto, ring
<1>1. TypeOK /\ CountersInv /\ TypeOK'
  BY DEF RingInv
<1>2. /\ pc[t] = "enq_cas_p_head" /\ pc' = [pc EXCEPT ![t] = "enq_write_slot"]
      /\ p_head' = p_head + 1 /\ UNCHANGED <<c_head, p_tail, slot, data, ret>>
      /\ pc'[t] = "enq_write_slot" /\ producer'[t] = p_head
      /\ \A u \in Threads \ {t} : pc'[u] = pc[u] /\ producer'[u] = producer[u]
      /\ mayFail' = [u \in Threads |->
           u # t /\ (mayFail[u] \/ (pc[u] \in EnqueueSearch /\ Full(c_head, p_head')))]
  BY <1>1 DEF EnqueueCasWins, TypeOK
<1>3. /\ c_head \in Nat /\ p_tail \in Nat /\ p_head \in Nat
      /\ c_head <= p_tail /\ p_tail <= p_head
  BY <1>1 DEF TypeOK, CountersInv, RingValid
<1>4. p_head - c_head < mask
  <2>1. p_head' - c_head' <= mask
    BY DEF RingInv, CountersInv, RingValid
  <2>. QED BY <1>2, <1>3, <2>1, MaskFacts
<1>5. ~ RQ!RingFull(AbstractRing, mask)
  BY <1>3, <1>4, FullAndEmpty, MaskFacts DEF Full
<1>6. Published' = Published
  BY <1>2, PublishedKept
<1>7. data[t] \in Values
  BY <1>2 DEF RingInv, CopiesInv, EntriesReal, EnqueueSearch
<1>8. Won' = Append(Won, [by |-> t, val |-> data[t]])
  <2>. DEFINE m == p_head - p_tail
  <2>1. WonIs
    BY RingHolds
  <2>2. WonIs'
    BY RingHolds, PTL
  <2>3. p_head' - p_tail' = m + 1 /\ m \in Nat
    BY <1>2, <1>3
  <2>4. Won \in [1 .. m -> Ticket] /\ Won' \in [1 .. m + 1 -> Ticket]
    BY <2>1, <2>2, <2>3 DEF WonIs
  <2>5. Won'[m + 1] = [by |-> t, val |-> data[t]]
    <3>1. pc'[t] \in EnqueueOwner /\ producer'[t] - p_tail' + 1 = m + 1 /\ data'[t] = data[t]
      BY <1>2 DEF EnqueueOwner
    <3>2. Won'[producer'[t] - p_tail' + 1] = [by |-> t, val |-> data'[t]]
      BY <2>2, <3>1 DEF WonIs
    <3>. QED BY <3>1, <3>2
  <2>6. ASSUME NEW i \in 1 .. m PROVE Won'[i] = Won[i]
    <3>1. p_tail + i - 1 \in p_tail .. p_head - 1 /\ (p_tail + i - 1) - p_tail + 1 = i
      BY <1>3
    <3>2. PICK u \in Threads : pc[u] \in EnqueueOwner /\ producer[u] = p_tail + i - 1
      BY <1>1, <3>1 DEF CountersInv, TicketsOwned
    <3>3. u # t
      BY <1>2, <3>2 DEF EnqueueOwner
    <3>4. Won[i] = [by |-> u, val |-> data[u]]
      BY <2>1, <3>1, <3>2 DEF WonIs
    <3>5. pc'[u] \in EnqueueOwner /\ data'[u] = data[u] /\ producer'[u] - p_tail' + 1 = i
      BY <1>2, <3>1, <3>2, <3>3
    <3>6. Won'[producer'[u] - p_tail' + 1] = [by |-> u, val |-> data'[u]]
      BY <2>2, <3>5 DEF WonIs
    <3>. QED BY <3>4, <3>5, <3>6
  <2>. HIDE DEF m
  <2>. QED BY <2>3, <2>4, <2>5, <2>6, SpanAppend
<1>9. /\ Operation[t] = "enqueue" /\ Operation' = [Operation EXCEPT ![t] = "reserved"]
      /\ Argument[t] = data[t] /\ Argument' = Argument
  <2>1. "enq_cas_p_head" \in EnqueueSearch /\ "enq_write_slot" \in EnqueueOwner
    BY DEF EnqueueSearch, EnqueueOwner
  <2>2. Operation[t] = "enqueue" /\ Argument[t] = data[t]
    BY <1>2, <2>1, Operations DEF Operation, Argument
  <2>3. /\ Operation' = [Operation EXCEPT ![t] = "reserved"]
        /\ Argument' = [Argument EXCEPT ![t] = data[t]]
    BY <1>1, <1>2, <2>1, CallMoves, Operations
  <2>. QED BY <2>2, <2>3 DEF Argument
<1>10. mayFail' = [u \in Threads |->
          /\ u # t
          /\ mayFail[u] \/ (Operation[u] = "enqueue" /\ RQ!RingFull(AbstractRing', mask))]
  <2>1. (RQ!RingFull(AbstractRing, mask) <=> Full(c_head, p_head))'
    BY FullAndEmpty, PTL
  <2>2. RQ!RingFull(AbstractRing', mask) <=> Full(c_head, p_head')
    BY <1>2, <2>1
  <2>3. \A u \in Threads : Operation[u] = "enqueue" <=> pc[u] \in EnqueueSearch
    BY <1>1, Operations DEF TypeOK, ControlPoints, Operation
  <2>. QED BY <1>2, <2>2, <2>3
<1>11. AbstractRing' = RQ!ReserveTicket(AbstractRing, t, Argument[t])
  <2>. DEFINE w == Append(Won, [by |-> t, val |-> Argument[t]])
  <2>1. Won' = w
    BY <1>8, <1>9
  <2>. HIDE DEF w
  <2>2. AbstractRing' = [queue |-> Published, pending |-> w]
    BY <1>6, <2>1 DEF AbstractRing
  <2>3. [AbstractRing EXCEPT !.pending = w] = [queue |-> Published, pending |-> w]
    BY DEF AbstractRing
  <2>4. AbstractRing.pending = Won
    BY DEF AbstractRing
  <2>. QED BY <2>2, <2>3, <2>4 DEF w, RQ!ReserveTicket
<1>12. RQ!Reserve(t)
  BY <1>2, <1>5, <1>9, <1>10, <1>11 DEF RQ!Reserve, RQ!Enqueuing, RQ!Reserved, AbstractRing
<1>. QED BY <1>12 DEF RQ!Next

\* The store of p_tail publishes the oldest ticket, which is the thread's own.
LEMMA PublishMaps ==
  ASSUME RingInv, RingInv', NEW t \in Threads, EnqueueStorePTail(t)
  PROVE  RQ!Next
<1>. USE DEF At, Goto, ring
<1>1. TypeOK /\ CountersInv /\ TypeOK'
  BY DEF RingInv
<1>2. /\ pc[t] = "enq_store_p_tail" /\ pc' = [pc EXCEPT ![t] = "idle"] /\ pc'[t] = "idle"
      /\ p_tail = producer[t] /\ p_tail' = p_tail + 1
      /\ UNCHANGED <<c_head, p_head, slot, mayFail>>
      /\ ret' = [ret EXCEPT ![t] = Returned(NoValue)]
      /\ \A u \in Threads \ {t} :
           pc'[u] = pc[u] /\ producer'[u] = producer[u] /\ data'[u] = data[u]
  BY <1>1 DEF EnqueueStorePTail, Leave, CountersInv, StoreIsMine, TypeOK
<1>3. /\ c_head \in Nat /\ p_tail \in Nat /\ p_head \in Nat
      /\ c_head <= p_tail /\ p_tail < p_head
  <2>1. pc[t] \in EnqueueOwner
    BY <1>2 DEF EnqueueOwner
  <2>2. p_tail \in p_tail .. p_head - 1
    BY <1>1, <1>2, <2>1 DEF CountersInv, TicketsOwned
  <2>. QED BY <1>1, <2>2 DEF TypeOK, CountersInv, RingValid
<1>4. data[t] \in Values /\ slot[Index(p_tail)] = data[t]
  BY <1>2 DEF RingInv, CopiesInv, SlotsWritten, EnqueueOwner
<1>5. PublishedIs /\ WonIs
  BY RingHolds
<1>6. PublishedIs' /\ WonIs'
  BY RingHolds, PTL
<1>7. Published' = Append(Published, data[t])
  <2>. DEFINE m == p_tail - c_head
  <2>1. m \in Nat /\ p_tail' - c_head' = m + 1
    BY <1>2, <1>3
  <2>2. Published \in [1 .. m -> Values] /\ Published' \in [1 .. m + 1 -> Values]
    BY <1>5, <1>6, <2>1 DEF PublishedIs
  <2>3. \A n \in c_head .. p_tail : Published'[n - c_head + 1] = slot[Index(n)]
    <3>1. \A n \in c_head' .. p_tail' - 1 : Published'[n - c_head' + 1] = slot'[Index(n)]
      BY <1>6 DEF PublishedIs
    <3>2. c_head' = c_head /\ p_tail' - 1 = p_tail /\ slot' = slot
      BY <1>2, <1>3
    <3>. QED BY <3>1, <3>2
  <2>4. Published'[m + 1] = data[t]
    BY <1>3, <1>4, <2>3
  <2>5. ASSUME NEW i \in 1 .. m PROVE Published'[i] = Published[i]
    <3>1. c_head + i - 1 \in c_head .. p_tail - 1 /\ (c_head + i - 1) - c_head + 1 = i
      BY <1>3
    <3>2. Published[i] = slot[Index(c_head + i - 1)]
      BY <1>5, <3>1 DEF PublishedIs
    <3>3. Published'[i] = slot[Index(c_head + i - 1)]
      BY <1>3, <2>3, <3>1
    <3>. QED BY <3>2, <3>3
  <2>. HIDE DEF m
  <2>. QED BY <2>1, <2>2, <2>4, <2>5, SpanAppend
<1>8. Won # <<>> /\ Head(Won) = [by |-> t, val |-> data[t]] /\ Won' = Tail(Won)
  <2>. DEFINE m == p_head - p_tail - 1
  <2>1. m \in Nat /\ p_head - p_tail = m + 1 /\ p_head' - p_tail' = m
    BY <1>2, <1>3
  <2>2. Won \in [1 .. m + 1 -> Ticket] /\ Won' \in [1 .. m -> Ticket]
    BY <1>5, <1>6, <2>1 DEF WonIs
  <2>3. Won[1] = [by |-> t, val |-> data[t]]
    <3>1. pc[t] \in EnqueueOwner /\ producer[t] - p_tail + 1 = 1
      BY <1>2, <1>3 DEF EnqueueOwner
    <3>. QED BY <1>5, <3>1 DEF WonIs
  <2>4. ASSUME NEW i \in 1 .. m PROVE Won'[i] = Won[i + 1]
    <3>0. PICK n \in Nat : n = p_tail + i
      BY <1>3
    <3>1. /\ n \in p_tail .. p_head - 1 /\ n - p_tail + 1 = i + 1
          /\ n # p_tail /\ n - p_tail' + 1 = i
      BY <1>2, <1>3, <3>0
    <3>2. PICK u \in Threads : pc[u] \in EnqueueOwner /\ producer[u] = n
      BY <1>1, <3>1 DEF CountersInv, TicketsOwned
    <3>3. u # t
      BY <1>2, <3>1, <3>2
    <3>4. Won[i + 1] = [by |-> u, val |-> data[u]]
      <4>1. Won[producer[u] - p_tail + 1] = [by |-> u, val |-> data[u]]
        BY <1>5, <3>2 DEF WonIs
      <4>. QED BY <3>1, <3>2, <4>1
    <3>5. pc'[u] \in EnqueueOwner /\ data'[u] = data[u] /\ producer'[u] - p_tail' + 1 = i
      <4>1. pc'[u] = pc[u] /\ data'[u] = data[u] /\ producer'[u] = producer[u]
        BY <1>2, <3>3
      <4>. QED BY <3>1, <3>2, <4>1
    <3>6. Won'[producer'[u] - p_tail' + 1] = [by |-> u, val |-> data'[u]]
      BY <1>6, <3>5 DEF WonIs
    <3>. QED BY <3>4, <3>5, <3>6
  <2>. HIDE DEF m
  <2>. QED BY <2>1, <2>2, <2>3, <2>4, SpanTail
<1>9. /\ Operation[t] = "reserved" /\ Operation' = [Operation EXCEPT ![t] = "idle"]
      /\ Argument' = [Argument EXCEPT ![t] = NoValue]
  <2>1. "idle" \notin EnqueueSearch \cup EnqueueOwner /\ pc[t] \in EnqueueOwner
    BY <1>2 DEF EnqueueSearch, EnqueueOwner
  <2>2. Operation[t] = "reserved"
    BY <2>1, Operations DEF Operation
  <2>3. /\ Operation' = [Operation EXCEPT ![t] = OperationAt("idle")]
        /\ Argument' = [Argument EXCEPT ![t] =
             IF "idle" \in EnqueueSearch \cup EnqueueOwner THEN data'[t] ELSE NoValue]
    BY <1>1, <1>2, CallMoves
  <2>. QED BY <2>1, <2>2, <2>3, Operations
<1>10. RQ!MayPublish(AbstractRing, t)
  BY <1>8 DEF RQ!MayPublish, AbstractRing
<1>11. AbstractRing' = RQ!PublishTicket(AbstractRing)
  <2>1. AbstractRing.queue = Published /\ AbstractRing.pending = Won
    BY DEF AbstractRing
  <2>2. Head(AbstractRing.pending).val = data[t]
    BY <1>8, <2>1
  <2>3. AbstractRing' = [queue |-> Append(Published, data[t]), pending |-> Tail(Won)]
    BY <1>7, <1>8 DEF AbstractRing
  <2>. QED BY <2>1, <2>2, <2>3 DEF RQ!PublishTicket
<1>12. RQ!Publish(t)
  BY <1>2, <1>9, <1>10, <1>11
     DEF RQ!Publish, RQ!Reserved, RQ!Idle, RQ!Returned, Returned, AbstractRing
<1>. QED BY <1>12 DEF RQ!Next

\* The CAS of c_head takes the oldest published entry, and the copy is it.
LEMMA TakeMaps ==
  ASSUME RingInv, RingInv', NEW t \in Threads, DequeueCasWins(t)
  PROVE  RQ!Next
<1>. USE DEF At, Goto, ring
<1>1. TypeOK /\ CountersInv /\ TypeOK'
  BY DEF RingInv
<1>2. /\ pc[t] = "deq_cas_c_head" /\ pc' = [pc EXCEPT ![t] = "idle"] /\ pc'[t] = "idle"
      /\ SameUint(c_head, consumer[t]) /\ c_head' = c_head + 1
      /\ UNCHANGED <<p_tail, p_head, slot>>
      /\ ret' = [ret EXCEPT ![t] = Returned(data[t])]
      /\ \A u \in Threads \ {t} :
           pc'[u] = pc[u] /\ producer'[u] = producer[u] /\ data'[u] = data[u]
      /\ mayFail' = [u \in Threads |->
           u # t /\ (mayFail[u] \/ (pc[u] \in DequeuePoints /\ Empty(c_head', p_tail)))]
  BY <1>1 DEF DequeueCasWins, Leave, TypeOK
<1>3. /\ c_head \in Nat /\ p_tail \in Nat /\ p_head \in Nat
      /\ c_head < p_tail /\ p_tail <= p_head
  <2>1. c_head < p_tail
    BY <1>1, <1>2, CasReady
  <2>. QED BY <1>1, <2>1 DEF TypeOK, CountersInv, RingValid
<1>4. data[t] = slot[Index(c_head)]
  BY <1>2 DEF RingInv, CopiesInv, CopyIsHead
<1>5. PublishedIs
  BY RingHolds
<1>6. PublishedIs'
  BY RingHolds, PTL
<1>7. Head(Published) = data[t] /\ Published' = Tail(Published)
  <2>. DEFINE m == p_tail - c_head - 1
  <2>1. m \in Nat /\ p_tail - c_head = m + 1 /\ p_tail' - c_head' = m
    BY <1>2, <1>3
  <2>2. Published \in [1 .. m + 1 -> Values] /\ Published' \in [1 .. m -> Values]
    BY <1>5, <1>6, <2>1 DEF PublishedIs
  <2>3. Published[1] = data[t]
    <3>1. c_head \in c_head .. p_tail - 1 /\ c_head - c_head + 1 = 1
      BY <1>3
    <3>. QED BY <1>4, <1>5, <3>1 DEF PublishedIs
  <2>4. ASSUME NEW i \in 1 .. m PROVE Published'[i] = Published[i + 1]
    <3>0. PICK n \in Nat : n = c_head + i
      BY <1>3
    <3>1. /\ n \in c_head .. p_tail - 1 /\ n - c_head + 1 = i + 1
          /\ n \in c_head' .. p_tail' - 1 /\ n - c_head' + 1 = i
      BY <1>2, <1>3, <3>0
    <3>2. Published[i + 1] = slot[Index(n)]
      <4>1. Published[n - c_head + 1] = slot[Index(n)]
        BY <1>5, <3>1 DEF PublishedIs
      <4>. QED BY <3>1, <4>1
    <3>3. Published'[i] = slot'[Index(n)]
      <4>1. Published'[n - c_head' + 1] = slot'[Index(n)]
        BY <1>6, <3>1 DEF PublishedIs
      <4>. QED BY <3>1, <4>1
    <3>. QED BY <1>2, <3>2, <3>3
  <2>. HIDE DEF m
  <2>. QED BY <2>1, <2>2, <2>3, <2>4, SpanTail
<1>8. Won' = Won
  BY <1>2, WonKept DEF EnqueueOwner
<1>9. /\ Operation[t] = "dequeue" /\ Operation' = [Operation EXCEPT ![t] = "idle"]
      /\ Argument' = Argument
  <2>1. /\ "idle" \notin EnqueueSearch \cup EnqueueOwner /\ pc[t] \in DequeuePoints
        /\ pc[t] \notin EnqueueSearch \cup EnqueueOwner
    BY <1>2 DEF EnqueueSearch, EnqueueOwner, DequeuePoints
  <2>2. Operation[t] = "dequeue" /\ Argument[t] = NoValue
    BY <2>1, Operations DEF Operation, Argument
  <2>3. /\ Operation' = [Operation EXCEPT ![t] = OperationAt("idle")]
        /\ Argument' = [Argument EXCEPT ![t] =
             IF "idle" \in EnqueueSearch \cup EnqueueOwner THEN data'[t] ELSE NoValue]
    BY <1>1, <1>2, CallMoves
  <2>4. Argument' = [Argument EXCEPT ![t] = NoValue]
    BY <2>1, <2>3
  <2>. QED BY <2>2, <2>3, <2>4, Operations DEF Argument
<1>10. ~ RQ!RingEmpty(AbstractRing)
  BY <1>3, FullAndEmpty DEF Empty
<1>11. mayFail' = [u \in Threads |->
          /\ u # t
          /\ mayFail[u] \/ (Operation[u] = "dequeue" /\ RQ!RingEmpty(AbstractRing'))]
  <2>1. (RQ!RingEmpty(AbstractRing) <=> Empty(c_head, p_tail))'
    BY FullAndEmpty, PTL
  <2>2. RQ!RingEmpty(AbstractRing') <=> Empty(c_head', p_tail)
    BY <1>2, <2>1
  <2>3. \A u \in Threads : Operation[u] = "dequeue" <=> pc[u] \in DequeuePoints
    BY <1>1, Operations DEF TypeOK, ControlPoints, Operation
  <2>. QED BY <1>2, <2>2, <2>3
<1>12. AbstractRing' = RQ!TakeHead(AbstractRing)
  <2>. DEFINE q == Tail(Published)
  <2>1. Published' = q
    BY <1>7
  <2>. HIDE DEF q
  <2>2. AbstractRing' = [queue |-> q, pending |-> Won]
    BY <1>8, <2>1 DEF AbstractRing
  <2>3. [AbstractRing EXCEPT !.queue = q] = [queue |-> q, pending |-> Won]
    BY DEF AbstractRing
  <2>4. AbstractRing.queue = Published
    BY DEF AbstractRing
  <2>. QED BY <2>2, <2>3, <2>4 DEF q, RQ!TakeHead
<1>13. ret' = [ret EXCEPT ![t] = Returned(Head(AbstractRing.queue))]
  BY <1>2, <1>7 DEF AbstractRing
<1>14. RQ!Take(t)
  BY <1>9, <1>10, <1>11, <1>12, <1>13
     DEF RQ!Take, RQ!Dequeuing, RQ!Idle, RQ!Returned, Returned, AbstractRing
<1>. QED BY <1>14 DEF RQ!Next

\* A call returns false only where the abstract one may.
LEMMA RejectMaps ==
  ASSUME RingInv, RingInv', FailuresSeen, NEW t \in Threads,
         NothingReturned, EnqueueFails(t) \/ DequeueFails(t)
  PROVE  RQ!Next
<1>. USE DEF At, Goto, ring
<1>1. TypeOK /\ CountersInv /\ TypeOK'
  BY DEF RingInv
<1>2. /\ pc' = [pc EXCEPT ![t] = "idle"]
      /\ UNCHANGED <<c_head, p_tail, p_head, slot>>
      /\ ret' = [ret EXCEPT ![t] = NoReturn]
      /\ mayFail' = [mayFail EXCEPT ![t] = FALSE]
      /\ \A u \in Threads \ {t} :
           pc'[u] = pc[u] /\ producer'[u] = producer[u] /\ data'[u] = data[u]
      /\ pc[t] \in {"enq_reload_p_head", "deq_load_p_tail"}
  BY <1>1 DEF EnqueueFails, DequeueFails, Leave, TypeOK
<1>3. /\ c_head \in Nat /\ p_tail \in Nat /\ p_head \in Nat
      /\ c_head <= p_tail /\ p_tail <= p_head /\ p_head - c_head <= mask
      /\ producer[t] \in Nat /\ consumer[t] \in Nat
  BY <1>1 DEF TypeOK, CountersInv, RingValid
<1>4. Published' = Published
  BY <1>2, PublishedKept
<1>5. Won' = Won
  BY <1>2, WonKept DEF EnqueueOwner
<1>6. /\ Operation' = [Operation EXCEPT ![t] = "idle"]
      /\ Argument' = [Argument EXCEPT ![t] = NoValue]
  <2>1. "idle" \notin EnqueueSearch \cup EnqueueOwner
    BY DEF EnqueueSearch, EnqueueOwner
  <2>2. /\ Operation' = [Operation EXCEPT ![t] = OperationAt("idle")]
        /\ Argument' = [Argument EXCEPT ![t] =
             IF "idle" \in EnqueueSearch \cup EnqueueOwner THEN data'[t] ELSE NoValue]
    BY <1>1, <1>2, CallMoves
  <2>. QED BY <2>1, <2>2, Operations
\* The abstract calls leave ret as BeginEnqueue and BeginDequeue set it.
<1>7. ret' = ret
  BY <1>1, <1>2 DEF TypeOK, NothingReturned
<1>8. CASE EnqueueFails(t)
  <2>1. pc[t] = "enq_reload_p_head" /\ SameUint(p_head, producer[t])
    BY <1>8 DEF EnqueueFails
  <2>2. pc[t] \in EnqueueSearch
    BY <2>1 DEF EnqueueSearch
  <2>3. producer[t] <= p_head /\ p_head - producer[t] <= UMod - mask
    BY <1>1, <2>2 DEF CountersInv, SnapshotsOld
  <2>4. producer[t] = p_head
    <3>1. p_head - producer[t] < UMod
      BY <1>3, <2>3, MaskFacts
    <3>. QED BY <1>3, <2>1, <2>3, <3>1, SameUintExact, SameUintSym
  <2>5. mayFail[t]
    BY <2>1, <2>4 DEF FailuresSeen
  <2>6. Operation[t] = "enqueue"
    BY <2>2, Operations DEF Operation
  <2>7. RQ!RejectFull(t)
    BY <1>2, <1>4, <1>5, <1>6, <1>7, <2>5, <2>6
       DEF RQ!RejectFull, RQ!Enqueuing, RQ!Idle
  <2>. QED BY <2>7 DEF RQ!Next
<1>9. CASE DequeueFails(t)
  <2>1. pc[t] = "deq_load_p_tail" /\ SameUint(consumer[t], p_tail)
    BY <1>9 DEF DequeueFails
  <2>2. pc[t] \in DequeuePoints /\ pc[t] \notin EnqueueSearch \cup EnqueueOwner
    BY <2>1 DEF DequeuePoints, EnqueueSearch, EnqueueOwner
  <2>3. consumer[t] <= c_head /\ p_head - consumer[t] <= UMod - mask
    BY <1>1, <2>2 DEF CountersInv, SnapshotsOld
  <2>4. consumer[t] = p_tail
    <3>1. consumer[t] <= p_tail /\ p_tail - consumer[t] < UMod
      BY <1>3, <2>3, MaskFacts
    <3>. QED BY <1>3, <2>1, <3>1, SameUintExact
  <2>5. mayFail[t]
    <3>1. p_tail = c_head
      BY <1>3, <2>3, <2>4
    <3>. QED BY <2>2, <3>1 DEF FailuresSeen, Empty
  <2>6. Operation[t] = "dequeue" /\ Argument[t] = NoValue
    BY <2>2, Operations DEF Operation, Argument
  <2>7. Argument' = Argument
    BY <1>6, <2>6 DEF Argument
  <2>8. RQ!RejectEmpty(t)
    BY <1>2, <1>4, <1>5, <1>6, <1>7, <2>5, <2>6, <2>7
       DEF RQ!RejectEmpty, RQ!Dequeuing, RQ!Idle
  <2>. QED BY <2>8 DEF RQ!Next
<1>. QED BY <1>8, <1>9

\* Every other access to shared memory is invisible to the users of the ring.
LEMMA StepUnseen ==
  ASSUME RingInv, RingInv', NEW t \in Threads,
         \/ EnqueueLoadCHead(t) \/ EnqueueCasLoses(t) \/ EnqueueRetries(t)
         \/ EnqueueWriteSlot(t) \/ EnqueueMyTurn(t)
         \/ DequeueLoadPTail(t) \/ DequeueReadSlot(t) \/ DequeueCasLoses(t)
  PROVE  UNCHANGED RQ!vars
<1>. USE DEF At, Goto, ring
<1>1. TypeOK /\ CountersInv
  BY DEF RingInv
<1>2. ASSUME NEW from, NEW point, pc[t] = from, pc' = [pc EXCEPT ![t] = point],
             \/ from \in EnqueueSearch /\ point \in EnqueueSearch /\ data' = data
             \/ from \in DequeuePoints /\ point \in DequeuePoints,
             UNCHANGED <<c_head, p_tail, p_head, slot, ret, mayFail>>,
             \A u \in Threads \ {t} : producer'[u] = producer[u] /\ data'[u] = data[u]
      PROVE  UNCHANGED RQ!vars
  <2>1. \A u \in Threads \ {t} : pc'[u] = pc[u]
    BY <1>1, <1>2 DEF TypeOK
  <2>. QED BY <1>2, <2>1, Unseen
<1>3. CASE EnqueueLoadCHead(t)
  <2>1. PICK point \in {"enq_cas_p_head", "enq_reload_p_head"} : pc' = [pc EXCEPT ![t] = point]
    BY <1>3 DEF EnqueueLoadCHead
  <2>. QED BY <1>2, <1>3, <2>1 DEF EnqueueLoadCHead, EnqueueSearch
<1>4. CASE EnqueueCasLoses(t) \/ EnqueueRetries(t)
  <2>1. \A u \in Threads \ {t} : producer'[u] = producer[u]
    BY <1>1, <1>4 DEF EnqueueCasLoses, EnqueueRetries, TypeOK
  <2>2. PICK from \in {"enq_cas_p_head", "enq_reload_p_head"} : pc[t] = from
    BY <1>4 DEF EnqueueCasLoses, EnqueueRetries
  <2>. QED BY <1>2, <1>4, <2>1, <2>2 DEF EnqueueCasLoses, EnqueueRetries, EnqueueSearch
<1>5. CASE EnqueueWriteSlot(t)
  <2>1. /\ pc[t] = "enq_write_slot" /\ pc' = [pc EXCEPT ![t] = "enq_wait_p_tail"]
        /\ slot' = [slot EXCEPT ![Index(producer[t])] = data[t]]
        /\ UNCHANGED <<c_head, p_tail, p_head, producer, data, ret, mayFail>>
    BY <1>5 DEF EnqueueWriteSlot
  <2>2. pc[t] \in EnqueueOwner /\ "enq_wait_p_tail" \in EnqueueOwner
    BY <2>1 DEF EnqueueOwner
  <2>3. ASSUME NEW n \in c_head .. p_tail - 1 PROVE slot'[Index(n)] = slot[Index(n)]
    <3>1. Index(n) # Index(producer[t])
      BY <1>1, <2>2, WritesFreeSlot
    <3>2. n \in Nat
      BY <1>1 DEF TypeOK
    <3>3. Index(n) \in 0 .. mask
      BY <3>2, IndexInRange
    <3>. QED BY <1>1, <2>1, <3>1, <3>3 DEF TypeOK
  <2>4. \A u \in Threads \ {t} : pc'[u] = pc[u]
    BY <1>1, <2>1 DEF TypeOK
  <2>. QED BY <2>1, <2>2, <2>3, <2>4, Unseen
<1>6. CASE EnqueueMyTurn(t)
  <2>1. /\ pc[t] = "enq_wait_p_tail" /\ pc' = [pc EXCEPT ![t] = "enq_store_p_tail"]
        /\ UNCHANGED <<c_head, p_tail, p_head, slot, producer, data, ret, mayFail>>
    BY <1>6 DEF EnqueueMyTurn
  <2>2. pc[t] \in EnqueueOwner /\ "enq_store_p_tail" \in EnqueueOwner
    BY <2>1 DEF EnqueueOwner
  <2>3. \A u \in Threads \ {t} : pc'[u] = pc[u]
    BY <1>1, <2>1 DEF TypeOK
  <2>. QED BY <2>1, <2>2, <2>3, Unseen
<1>7. CASE DequeueLoadPTail(t) \/ DequeueCasLoses(t)
  <2>1. PICK from \in DequeuePoints : pc[t] = from
    BY <1>7 DEF DequeueLoadPTail, DequeueCasLoses, DequeuePoints
  <2>2. PICK point \in DequeuePoints : pc' = [pc EXCEPT ![t] = point]
    BY <1>7 DEF DequeueLoadPTail, DequeueCasLoses, DequeuePoints
  <2>. QED BY <1>2, <1>7, <2>1, <2>2 DEF DequeueLoadPTail, DequeueCasLoses
<1>8. CASE DequeueReadSlot(t)
  <2>1. \A u \in Threads \ {t} : data'[u] = data[u]
    BY <1>1, <1>8 DEF DequeueReadSlot, TypeOK
  <2>. QED BY <1>2, <1>8, <2>1 DEF DequeueReadSlot, DequeuePoints
<1>. QED BY <1>3, <1>4, <1>5, <1>6, <1>7, <1>8

\* A new ring is an empty abstract ring.
LEMMA InitMaps == Init => RQ!Init
<1>. SUFFICES ASSUME Init PROVE RQ!Init
  OBVIOUS
<1>1. c_head = 0 /\ p_tail = 0 /\ p_head = 0 /\ \A t \in Threads : pc[t] = "idle"
  BY DEF Init
<1>2. Published = <<>>
  BY <1>1 DEF Published
<1>3. Won = <<>>
  BY <1>1 DEF Won
<1>4. Operation = [t \in Threads |-> "idle"]
  BY <1>1, Operations DEF Operation
<1>5. Argument = [t \in Threads |-> NoValue]
  BY <1>1 DEF Argument, EnqueueSearch, EnqueueOwner
<1>. QED BY <1>2, <1>3, <1>4, <1>5
         DEF Init, RQ!Init, RQ!EmptyRing, RQ!Idle, RQ!NoReturn, NoReturn

\* Every step of the ring is a step of the abstract ring or invisible to it.
LEMMA StepMaps ==
  RingInv /\ RingInv' /\ FailuresSeen /\ NothingReturned /\ [Next]_vars => [RQ!Next]_RQ!vars
<1>. SUFFICES ASSUME RingInv, RingInv', FailuresSeen, NothingReturned, [Next]_vars
     PROVE  RQ!Next \/ UNCHANGED RQ!vars
  OBVIOUS
<1>1. CASE UNCHANGED vars
  BY <1>1 DEF vars, ring, locals, Published, Won, Owner, Operation, Argument, RQ!vars
<1>2. CASE Next
  <2>. PICK t \in Threads : Call(t) \/ Step(t)
    BY <1>2 DEF Next
  <2>. QED
    BY CallMaps, ReserveMaps, PublishMaps, TakeMaps, RejectMaps, StepUnseen
       DEF Step, EnqueueStep, DequeueStep
<1>. QED BY <1>1, <1>2

\* The ring of ck_ring.h implements the abstract ring, for any number of
\* threads, any size and any width of the counters: entries come out once, in
\* the order in which p_head was advanced, unharmed, and a call returns false
\* only if the ring was full, or had nothing published, while it ran.
THEOREM RingImplementsRingQueue == Spec => ImplementsRingQueue
<1>1. TypeOK /\ CountersInv /\ CopiesInv => RingInv
  BY DEF RingInv
<1>2. Spec => RQ!Spec
  BY <1>1, InitMaps, StepMaps, TypeCorrect, CountersCorrect, CopiesCorrect,
     FailuresCorrect, ReturnsCorrect, PTL DEF Spec, RQ!Spec
<1>. QED BY <1>2 DEF ImplementsRingQueue

----------------------------------------------------------------------------
(* Positions in a stream of bytes and in a buffer of m bytes *)

\* A quotient and a remainder are unique.
LEMMA RemainderUnique ==
  ASSUME NEW m \in Nat, m > 0, NEW a \in Nat, NEW r \in Nat, r < m,
         NEW p \in Int, a = m * p + r
  PROVE  a % m = r
<1>. DEFINE q == p - (a \div m)
<1>1. q \in Int /\ a \div m \in Int /\ a % m \in 0 .. m - 1
  OBVIOUS
<1>2. a = m * (a \div m) + (a % m)
  OBVIOUS
<1>3. (a % m) - r = m * q
  BY <1>1, <1>2
<1>. HIDE DEF q
<1>4. CASE q >= 1
  BY <1>1, <1>3, <1>4, MultipleGrows
<1>5. CASE q <= -1
  <2>1. m * (-q) >= m
    BY <1>1, <1>5, MultipleGrows
  <2>2. m * (-q) = -(m * q)
    BY <1>1
  <2>. QED BY <1>1, <1>3, <2>1, <2>2
<1>6. CASE q = 0
  BY <1>1, <1>3, <1>6
<1>. QED BY <1>1, <1>4, <1>5, <1>6

\* Places up to the end of the buffer follow each other.
LEMMA PlacesFollow ==
  ASSUME NEW m \in Nat, m > 0, NEW a \in Nat, NEW j \in Nat, (a % m) + j < m
  PROVE  (a + j) % m = (a % m) + j
<1>1. a % m \in Nat /\ a \div m \in Int /\ a = m * (a \div m) + (a % m)
  OBVIOUS
<1>2. a + j = m * (a \div m) + ((a % m) + j)
  BY <1>1
<1>. QED BY <1>1, <1>2, RemainderUnique

\* The head that "head += nread" leaves is the place of the next byte.
LEMMA HeadMoves ==
  ASSUME NEW m \in Nat, m > 0, NEW a \in Nat, NEW n \in Nat, (a % m) + n <= m
  PROVE  ((a % m) + n) % m = (a + n) % m
<1>1. a % m \in 0 .. m - 1 /\ a \div m \in Int /\ a = m * (a \div m) + (a % m)
  OBVIOUS
<1>2. CASE (a % m) + n < m
  <2>1. (a + n) % m = (a % m) + n
    BY <1>2, PlacesFollow
  <2>2. (a % m) + n = m * 0 + ((a % m) + n)
    BY <1>1
  <2>3. ((a % m) + n) % m = (a % m) + n
    BY <1>1, <1>2, <2>2, RemainderUnique
  <2>. QED BY <2>1, <2>3
<1>3. CASE (a % m) + n = m
  <2>1. m = m * 1 + 0 /\ m % m = 0
    OBVIOUS
  <2>2. a + n = m * ((a \div m) + 1) + 0
    BY <1>1, <1>3
  <2>3. (a + n) % m = 0
    <3>. DEFINE p == (a \div m) + 1
    <3>1. p \in Int /\ a + n \in Nat /\ a + n = m * p + 0
      BY <1>1, <2>2
    <3>. HIDE DEF p
    <3>. QED BY <3>1, RemainderUnique
  <2>. QED BY <1>3, <2>1, <2>3
<1>. QED BY <1>1, <1>2, <1>3

----------------------------------------------------------------------------
(* The buffers of FlecsUv: the inductive invariant *)

\* What lies between the callbacks: nothing moves tail, a piece that is out
\* runs from head to the end of the buffer, and only a connection that reads
\* has one.
BetweenCallbacks ==
  \A c \in Conns :
    /\ buf[c].tail = 0
    /\ got[c] <= sent[c]
    /\ conn[c] = "none" => got[c] = 0
    /\ offer[c] # NoOffer =>
         /\ conn[c] = "reading"
         /\ offer[c].base = buf[c].head
         /\ offer[c].len = CIRCULAR_BUF_SIZE - buf[c].head

UvInv == UvTypeOK /\ BetweenCallbacks /\ LatestInPlace

\* The piece alloc_buffer offers is what is left behind head.
LEMMA FreeIsRest ==
  ASSUME NEW b, b.head \in Positions, b.tail = 0
  PROVE  circular_buf_freespace(b) = CIRCULAR_BUF_SIZE - b.head
<1>1. b.head = CIRCULAR_BUF_SIZE * 0 + b.head
  BY BufSizeAssumption DEF Positions
<1>2. b.head % CIRCULAR_BUF_SIZE = b.head
  BY <1>1, BufSizeAssumption, RemainderUnique DEF Positions
<1>. QED BY <1>2, BufSizeAssumption DEF circular_buf_freespace, circular_buf_size, Positions

\* The place of the first byte.
LEMMA FirstPlace == 0 % CIRCULAR_BUF_SIZE = 0
<1>1. 0 = CIRCULAR_BUF_SIZE * 0 + 0
  BY BufSizeAssumption
<1>. QED BY <1>1, BufSizeAssumption, RemainderUnique

\* A connection begins with a buffer whose positions are in range.
LEMMA FreshBuffer ==
  /\ circular_buf_init \in [buffer : [Positions -> 0 .. MaxBytes], head : Positions, tail : Positions]
  /\ circular_buf_init.head = 0 /\ circular_buf_init.tail = 0
<1>1. 0 \in Positions /\ 0 \in 0 .. MaxBytes
  BY BufSizeAssumption, MaxBytesAssumption DEF Positions
<1>. QED BY <1>1 DEF circular_buf_init, Unset

\* Without connections the invariant holds.
LEMMA InitUvInv == UvInit => UvInv
<1>. SUFFICES ASSUME UvInit PROVE UvInv
  OBVIOUS
<1>. USE DEF UvInit
<1>0. \A c \in Conns :
        got[c] = 0 /\ sent[c] = 0 /\ buf[c] = circular_buf_init /\ offer[c] = NoOffer
  OBVIOUS
<1>1. UvTypeOK
  <2>1. buf \in [Conns -> [buffer : [Positions -> 0 .. MaxBytes], head : Positions, tail : Positions]]
    BY FreshBuffer
  <2>2. offer \in [Conns -> Offers]
    BY DEF Offers
  <2>. HIDE DEF UvInit
  <2>3. /\ up \in BOOLEAN /\ listens \in BOOLEAN
        /\ conn \in [Conns -> {"none", "reading", "eof", "closed", "lost"}]
        /\ peer \in [Conns -> {"away", "open", "finished", "reset"}]
        /\ sent \in [Conns -> 0 .. MaxBytes] /\ got \in [Conns -> 0 .. MaxBytes]
    <3>1. 0 \in 0 .. MaxBytes
      BY MaxBytesAssumption
    <3>2. up = TRUE /\ listens = FALSE
      BY DEF UvInit
    <3>3. up \in BOOLEAN /\ listens \in BOOLEAN
      BY <3>2
    <3>. QED BY <3>1, <3>3 DEF UvInit
  <2>. QED BY <2>1, <2>2, <2>3 DEF UvTypeOK
<1>. HIDE DEF UvInit
<1>2. LatestInPlace
  <2>. SUFFICES ASSUME NEW c \in Conns
                PROVE  /\ buf[c].head = got[c] % CIRCULAR_BUF_SIZE
                       /\ \A k \in 1 .. got[c] :
                            k > got[c] - CIRCULAR_BUF_SIZE
                              => buf[c].buffer[(k - 1) % CIRCULAR_BUF_SIZE] = k
    BY DEF LatestInPlace
  <2>1. got[c] = 0 /\ buf[c].head = 0
    BY <1>0, FreshBuffer
  <2>2. 1 .. got[c] = {}
    BY <2>1
  <2>. QED BY <2>1, <2>2, FirstPlace
<1>3. BetweenCallbacks
  <2>1. \A c \in Conns : buf[c].tail = 0 /\ got[c] = 0 /\ sent[c] = 0
    BY <1>0, FreshBuffer
  <2>2. \A c \in Conns : got[c] <= sent[c]
    <3>. SUFFICES ASSUME NEW c \in Conns PROVE got[c] <= sent[c]
      OBVIOUS
    <3>1. got[c] = 0 /\ sent[c] = 0
      BY <2>1
    <3>. QED BY <3>1
  <2>. QED BY <1>0, <2>1, <2>2 DEF BetweenCallbacks
<1>. QED BY <1>1, <1>2, <1>3 DEF UvInv

\* The callbacks that end or begin a connection, and the clients.
LEMMA ConnectionStep ==
  ASSUME UvInv, NEW c \in Conns,
         \/ Accept(c) \/ AcceptError(c) \/ AcceptFails(c)
         \/ ReadNothing(c) \/ ReadEof(c) \/ ReadError(c)
         \/ Connect(c) \/ Send(c) \/ Hangup(c)
  PROVE  UvInv'
<1>. USE DEF client
<1>1. CASE Accept(c) \/ AcceptError(c) \/ AcceptFails(c)
  <2>0. /\ conn[c] = "none" /\ conn' \in {[conn EXCEPT ![c] = "reading"], [conn EXCEPT ![c] = "lost"]}
        /\ buf' \in {buf, [buf EXCEPT ![c] = circular_buf_init]} /\ up' \in BOOLEAN
        /\ UNCHANGED <<listens, peer, sent, offer, got>>
    BY <1>1 DEF Accept, AcceptError, AcceptFails, ToAccept, UvInv, UvTypeOK
  <2>1. got[c] = 0 /\ offer[c] = NoOffer
    BY <2>0 DEF UvInv, BetweenCallbacks
  <2>2. \A d \in Conns : d # c => buf'[d] = buf[d]
    BY <2>0 DEF UvInv, UvTypeOK
  <2>3. buf'[c] = buf[c] \/ buf'[c] = circular_buf_init
    BY <2>0 DEF UvInv, UvTypeOK
  <2>4. UvTypeOK'
    <3>1. buf' \in [Conns -> [buffer : [Positions -> 0 .. MaxBytes], head : Positions, tail : Positions]]
      BY <2>0, FreshBuffer DEF UvInv, UvTypeOK
    <3>2. conn' \in [Conns -> {"none", "reading", "eof", "closed", "lost"}]
      BY <2>0 DEF UvInv, UvTypeOK
    <3>. QED BY <2>0, <3>1, <3>2 DEF UvInv, UvTypeOK
  <2>5. BetweenCallbacks'
    BY ZenonT(60), <2>0, <2>1, FreshBuffer DEF UvInv, UvTypeOK, BetweenCallbacks
  <2>6. LatestInPlace'
    <3>1. got[c] % CIRCULAR_BUF_SIZE = buf'[c].head /\ 1 .. got[c] = {}
      BY <2>1, <2>3, FreshBuffer, FirstPlace DEF UvInv, LatestInPlace
    <3>. QED BY <2>0, <2>2, <3>1 DEF UvInv, LatestInPlace
  <2>. QED BY <2>4, <2>5, <2>6 DEF UvInv
<1>2. CASE ReadNothing(c) \/ ReadEof(c) \/ ReadError(c)
  <2>0. /\ conn[c] = "reading"
        /\ conn' \in {conn, [conn EXCEPT ![c] = "eof"], [conn EXCEPT ![c] = "closed"]}
        /\ offer' = [offer EXCEPT ![c] = NoOffer]
        /\ UNCHANGED <<up, listens, peer, sent, buf, got>>
    BY <1>2 DEF ReadNothing, ReadEof, ReadError, Reading
  <2>1. UvTypeOK'
    BY <2>0 DEF UvInv, UvTypeOK, Offers
  <2>. QED BY <2>0, <2>1 DEF UvInv, UvTypeOK, BetweenCallbacks, LatestInPlace
<1>3. CASE Connect(c) \/ Send(c) \/ Hangup(c)
  <2>0. /\ peer' \in [Conns -> {"away", "open", "finished", "reset"}]
        /\ sent' \in {sent, [sent EXCEPT ![c] = @ + 1]}
        /\ sent' # sent => sent[c] < MaxBytes
        /\ UNCHANGED <<up, listens, conn, buf, offer, got>>
    BY <1>3 DEF Connect, Send, Hangup, UvInv, UvTypeOK
  <2>1. sent' \in [Conns -> 0 .. MaxBytes]
    BY <2>0, MaxBytesAssumption DEF UvInv, UvTypeOK
  <2>2. \A d \in Conns : sent'[d] >= sent[d] /\ sent[d] \in Nat /\ sent'[d] \in Nat
    BY <2>0, <2>1 DEF UvInv, UvTypeOK
  <2>3. \A d \in Conns : got[d] <= sent'[d]
    BY <2>2 DEF UvInv, UvTypeOK, BetweenCallbacks
  <2>4. UvTypeOK'
    BY <2>0, <2>1 DEF UvInv, UvTypeOK
  <2>. QED BY <2>0, <2>3, <2>4 DEF UvInv, BetweenCallbacks, LatestInPlace
<1>. QED BY <1>1, <1>2, <1>3

\* alloc_buffer: the offer is in the buffer because head is.
LEMMA AllocStep ==
  ASSUME UvInv, NEW c \in Conns, alloc_buffer(c)
  PROVE  UvInv'
<1>0. /\ conn[c] = "reading"
      /\ offer' = [offer EXCEPT ![c] = [base |-> buf[c].head, len |-> circular_buf_freespace(buf[c])]]
      /\ UNCHANGED <<up, listens, conn, peer, sent, buf, got>>
  BY DEF alloc_buffer, Reading, client
<1>1. buf[c].head \in Positions /\ buf[c].tail = 0
  BY DEF UvInv, UvTypeOK, BetweenCallbacks
<1>2. circular_buf_freespace(buf[c]) = CIRCULAR_BUF_SIZE - buf[c].head
  BY <1>1, FreeIsRest
<1>3. CIRCULAR_BUF_SIZE - buf[c].head \in 0 .. CIRCULAR_BUF_SIZE
  BY <1>1, BufSizeAssumption DEF Positions
<1>4. UvTypeOK'
  BY <1>0, <1>1, <1>2, <1>3 DEF UvInv, UvTypeOK, Offers
<1>. QED BY <1>0, <1>2, <1>4 DEF UvInv, UvTypeOK, BetweenCallbacks, LatestInPlace

\* echo_read: the new bytes take the places behind the old ones, and the only
\* old ones they overwrite are more than a buffer behind.
LEMMA ReadStep ==
  ASSUME UvInv, NEW c \in Conns, echo_read(c)
  PROVE  UvInv'
<1>. DEFINE m == CIRCULAR_BUF_SIZE
            g == got[c]
            h == buf[c].head
<1>1. PICK n \in 1 .. offer[c].len :
        /\ n <= sent[c] - got[c]
        /\ buf' = [buf EXCEPT ![c] = Received([@ EXCEPT !.buffer = Written(c, n)], n)]
        /\ got' = [got EXCEPT ![c] = @ + n]
  BY DEF echo_read
<1>2. /\ offer' = [offer EXCEPT ![c] = NoOffer]
      /\ UNCHANGED <<up, listens, conn, peer, sent>>
      /\ conn[c] = "reading"
  BY DEF echo_read, client, Reading
<1>3. m \in Nat /\ m > 0 /\ g \in Nat /\ sent[c] \in 0 .. MaxBytes /\ h \in 0 .. m - 1
      /\ buf[c] \in [buffer : [Positions -> 0 .. MaxBytes], head : Positions, tail : Positions]
  BY BufSizeAssumption DEF UvInv, UvTypeOK, Positions
<1>4. offer[c] # NoOffer
  BY <1>1 DEF NoOffer
<1>5. n \in Nat /\ h = g % m /\ h + n <= m /\ offer[c].base = h /\ buf[c].tail = 0
      /\ n >= 1 /\ g + n <= sent[c]
  <2>1. offer[c].len = m - h /\ offer[c].base = h /\ buf[c].tail = 0 /\ h = g % m
    BY <1>4 DEF UvInv, BetweenCallbacks, LatestInPlace
  <2>. QED BY <1>1, <1>3, <2>1
<1>6. (h + n) % m = (g + n) % m /\ (h + n) % m \in 0 .. m - 1
  <2>. HIDE DEF g, h, m
  <2>1. (h + n) % m = (g + n) % m
    BY <1>3, <1>5, HeadMoves
  <2>2. (h + n) % m \in 0 .. m - 1
    BY <1>3, <1>5
  <2>. QED BY <2>1, <2>2
<1>. DEFINE new == Received([buf[c] EXCEPT !.buffer = Written(c, n)], n)
<1>7. /\ new.buffer = Written(c, n) /\ new.head = (h + n) % m /\ new.tail = 0
      /\ new = [buffer |-> new.buffer, head |-> new.head, tail |-> new.tail]
  <2>. DEFINE b == [buf[c] EXCEPT !.buffer = Written(c, n)]
  <2>1. b.buffer = Written(c, n) /\ b.head = h /\ b.tail = 0
        /\ b = [buffer |-> b.buffer, head |-> b.head, tail |-> b.tail]
    BY <1>3, <1>5
  <2>2. new = [b EXCEPT !.head = (b.head + n) % m]
    BY DEF Received
  <2>. HIDE DEF b, new
  <2>. QED BY <2>1, <2>2
<1>8. buf' = [buf EXCEPT ![c] = new]
  BY <1>1
<1>. HIDE DEF new
<1>9. \A x \in Positions :
        /\ x - h \in 0 .. n - 1 => Written(c, n)[x] = g + (x - h) + 1
        /\ x - h \notin 0 .. n - 1 => Written(c, n)[x] = buf[c].buffer[x]
  BY <1>5 DEF Written
<1>10. Written(c, n) \in [Positions -> 0 .. MaxBytes]
  <2>1. \A x \in Positions : x - h \in 0 .. n - 1 => g + (x - h) + 1 \in 0 .. MaxBytes
    <3>. SUFFICES ASSUME NEW x \in Positions, x - h \in 0 .. n - 1
                  PROVE  g + (x - h) + 1 \in 0 .. MaxBytes
      OBVIOUS
    <3>1. g + n \in 0 .. MaxBytes
      BY <1>3, <1>5, MaxBytesAssumption
    <3>. HIDE DEF g, h
    <3>. QED BY <1>3, <1>5, <3>1, MaxBytesAssumption
  <2>2. \A x \in Positions : Written(c, n)[x] \in 0 .. MaxBytes
    BY <1>3, <1>9, <2>1
  <2>. QED BY <2>2 DEF Written
<1>11. UvTypeOK'
  <2>1. new \in [buffer : [Positions -> 0 .. MaxBytes], head : Positions, tail : Positions]
    <3>. HIDE DEF g, h, m
    <3>1. (h + n) % m \in Positions /\ 0 \in Positions
      BY <1>3, <1>6 DEF Positions, m
    <3>. QED BY <1>7, <1>10, <3>1
  <2>2. g + n \in 0 .. MaxBytes
    BY <1>3, <1>5, MaxBytesAssumption
  <2>3. got' \in [Conns -> 0 .. MaxBytes]
    BY <1>1, <2>2 DEF UvInv, UvTypeOK
  <2>4. buf' \in [Conns -> [buffer : [Positions -> 0 .. MaxBytes], head : Positions, tail : Positions]]
    BY <1>8, <2>1 DEF UvInv, UvTypeOK
  <2>5. offer' \in [Conns -> Offers]
    BY <1>2 DEF UvInv, UvTypeOK, Offers
  <2>. QED BY <1>2, <2>3, <2>4, <2>5 DEF UvInv, UvTypeOK
<1>12. BetweenCallbacks'
  BY <1>1, <1>2, <1>5, <1>7, <1>8 DEF UvInv, UvTypeOK, BetweenCallbacks
<1>13. \A k \in 1 .. g + n : k > g + n - m => Written(c, n)[(k - 1) % m] = k
  <2>. SUFFICES ASSUME NEW k \in 1 .. g + n, k > g + n - m
                PROVE  Written(c, n)[(k - 1) % m] = k
    OBVIOUS
  <2>1. Positions = 0 .. m - 1
    BY DEF Positions
  <2>2. k \in 1 .. g /\ k > g - m => buf[c].buffer[(k - 1) % m] = k
    BY DEF UvInv, LatestInPlace
  <2>. HIDE DEF g, h, m
  <2>3. k - 1 \in Nat
    BY <1>3, <1>5
  <2>4. (k - 1) % m \in Positions
    BY <1>3, <2>1, <2>3
  <2>5. CASE k > g
    <3>. DEFINE j == k - 1 - g
    <3>1. j \in Nat /\ j < n /\ g + j = k - 1 /\ g + j + 1 = k
      BY <1>3, <1>5, <2>5
    <3>. HIDE DEF j
    <3>2. (g + j) % m = (g % m) + j
      <4>1. (g % m) + j < m
        BY <1>3, <1>5, <3>1
      <4>. QED BY <1>3, <3>1, <4>1, PlacesFollow
    <3>3. (k - 1) % m = h + j
      BY <1>5, <3>1, <3>2
    <3>4. ((k - 1) % m) - h = j /\ j \in 0 .. n - 1
      BY <1>3, <1>5, <3>1, <3>3
    <3>. QED BY <1>9, <2>4, <3>1, <3>4
  <2>6. CASE k <= g
    <3>1. ((k - 1) % m) - h \notin 0 .. n - 1
      <4>. DEFINE j == ((k - 1) % m) - h
      <4>1. SUFFICES ASSUME j \in 0 .. n - 1 PROVE FALSE
        OBVIOUS
      <4>2. (k - 1) % m \in Int
        BY <1>3, <2>1, <2>4
      <4>3. (k - 1) % m = h + j
        BY <1>3, <4>2
      <4>4. j \in Nat /\ j < n
        BY <1>5, <4>1
      <4>. HIDE DEF j
      <4>5. (g % m) + j < m
        BY <1>3, <1>5, <4>4
      <4>6. (g + j) % m = h + j
        BY <1>3, <1>5, <4>4, <4>5, PlacesFollow
      <4>7. k - 1 < g + j /\ (g + j) - (k - 1) < m /\ g + j \in Nat
        BY <1>3, <1>5, <2>3, <2>6, <4>4
      <4>8. (k - 1) % m # (g + j) % m
        BY <1>3, <2>3, <4>7, RemaindersDiffer
      <4>. QED BY <4>3, <4>6, <4>8
    <3>2. k \in 1 .. g /\ k > g - m
      BY <1>3, <1>5, <2>6
    <3>3. buf[c].buffer[(k - 1) % m] = k
      BY <2>2, <3>2
    <3>. QED BY <1>9, <2>4, <3>1, <3>3
  <2>. QED BY <1>3, <1>5, <2>5, <2>6
<1>14. LatestInPlace'
  <2>. SUFFICES ASSUME NEW d \in Conns
                PROVE  /\ buf'[d].head = got'[d] % m
                       /\ \A k \in 1 .. got'[d] :
                            k > got'[d] - m => buf'[d].buffer[(k - 1) % m] = k
    BY DEF LatestInPlace
  <2>1. CASE d = c
    <3>1. got'[c] = g + n /\ buf'[c] = new
      BY <1>1, <1>8 DEF UvInv, UvTypeOK
    <3>2. buf'[c].head = got'[c] % m /\ buf'[c].buffer = Written(c, n)
      BY <1>6, <1>7, <3>1
    <3>. HIDE DEF g, h, m
    <3>3. \A k \in 1 .. got'[c] :
            k > got'[c] - m => buf'[c].buffer[(k - 1) % m] = k
      <4>. DEFINE w == Written(c, n)
      <4>1. \A k \in 1 .. g + n : k > g + n - m => w[(k - 1) % m] = k
        BY <1>13
      <4>. HIDE DEF w
      <4>. QED BY <1>3, <1>5, <3>1, <3>2, <4>1 DEF w
    <3>. QED BY <2>1, <3>2, <3>3
  <2>2. CASE d # c
    <3>1. got'[d] = got[d] /\ buf'[d] = buf[d]
      BY <1>1, <1>8, <2>2 DEF UvInv, UvTypeOK
    <3>. QED BY <3>1 DEF UvInv, LatestInPlace
  <2>. QED BY <2>1, <2>2
<1>. QED BY <1>11, <1>12, <1>14 DEF UvInv

----------------------------------------------------------------------------
(* What holds of the buffers *)

\* The callbacks of all connections keep the inductive invariant.
LEMMA UvInductive == UvSpec => []UvInv
<1>1. UvInv /\ [UvNext]_uvVars => UvInv'
  <2>. SUFFICES ASSUME UvInv, [UvNext]_uvVars PROVE UvInv'
    OBVIOUS
  <2>1. CASE Listen \/ UNCHANGED uvVars
    <3>1. listens' \in BOOLEAN /\ UNCHANGED <<up, conn, peer, sent, buf, offer, got>>
      BY <2>1 DEF Listen, uvVars, client, UvInv, UvTypeOK
    <3>. QED BY <3>1 DEF UvInv, UvTypeOK, BetweenCallbacks, LatestInPlace
  <2>2. ASSUME NEW c \in Conns,
               Loop(c) \/ ReadNothing(c) \/ Connect(c) \/ Send(c) \/ Hangup(c)
        PROVE  UvInv'
    BY <2>2, ConnectionStep, AllocStep, ReadStep DEF Loop
  <2>. QED BY <2>1, <2>2 DEF UvNext
<1>. QED BY <1>1, InitUvInv, PTL DEF UvSpec

\* The head and tail of every circular_buf stay positions in it, and the server
\* is given no more bytes than it was sent.
THEOREM UvTypeCorrect == UvSpec => []UvTypeOK
<1>1. UvInv => UvTypeOK
  BY DEF UvInv
<1>. QED BY <1>1, UvInductive, PTL

\* What alloc_buffer offers to libuv is never empty and never past the end of
\* the buffer, and what echo_read leaves there are the last bytes of the
\* connection's own client, each at its place.
THEOREM LatestHeld == UvSpec => []BufferHoldsLatest
<1>1. UvInv => OfferFits
  <2>. SUFFICES ASSUME UvInv, NEW c \in Conns, offer[c] # NoOffer
                PROVE  offer[c].len > 0 /\ offer[c].base + offer[c].len <= CIRCULAR_BUF_SIZE
    BY DEF OfferFits
  <2>1. buf[c].head \in Positions
    BY DEF UvInv, UvTypeOK
  <2>. QED BY <2>1, BufSizeAssumption DEF UvInv, BetweenCallbacks, Positions
<1>2. UvInv => BufferHoldsLatest
  BY <1>1 DEF UvInv, BufferHoldsLatest
<1>. QED BY <1>2, UvInductive, PTL
===============================================================================
