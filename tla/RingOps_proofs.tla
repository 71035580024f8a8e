---------------------------- MODULE RingOps_proofs ----------------------------
(***************************************************************************)
(* Lemmas about the operators of RingOps and about counting, for the       *)
(* proofs of the modules that are built on rings.                          *)
(***************************************************************************)
EXTENDS RingOps, Integers, FiniteSets, SequenceTheorems, FiniteSetTheorems, TLAPS

\* Rings of values of S that threads of T put there.
Tickets(T, S) == [by : T, val : S]
Rings(T, S) == [queue : Seq(S), pending : Seq(Tickets(T, S))]

----------------------------------------------------------------------------
(* What each ring call does to the record *)

\* ck_ring_init makes a ring.
LEMMA EmptyIsRing ==
  ASSUME NEW T, NEW S
  PROVE  /\ EmptyRing \in Rings(T, S)
         /\ EmptyRing.queue = <<>> /\ EmptyRing.pending = <<>>
<1>. DEFINE Ticket == Tickets(T, S)
<1>1. <<>> \in Seq(S) /\ <<>> \in Seq(Ticket)
  <2>. HIDE DEF Ticket
  <2>. QED BY EmptySeq
<1>. QED BY <1>1 DEF EmptyRing, Rings

\* The fields of a ring.
LEMMA RingFields ==
  ASSUME NEW T, NEW S, NEW r \in Rings(T, S)
  PROVE  /\ r.queue \in Seq(S) /\ Len(r.queue) \in Nat
         /\ r.pending \in Seq(Tickets(T, S)) /\ Len(r.pending) \in Nat
         /\ r.queue # <<>> => Len(r.queue) > 0 /\ Head(r.queue) \in S /\ Head(r.queue) = r.queue[1]
         /\ r.pending # <<>> =>
              /\ Len(r.pending) > 0
              /\ Head(r.pending) \in Tickets(T, S) /\ Head(r.pending) = r.pending[1]
         /\ r = [queue |-> r.queue, pending |-> r.pending]
<1>. DEFINE Ticket == Tickets(T, S)
<1>1. r.queue \in Seq(S) /\ r.pending \in Seq(Ticket)
      /\ r = [queue |-> r.queue, pending |-> r.pending]
  BY DEF Rings
<1>. HIDE DEF Ticket
<1>2. Len(r.queue) \in Nat /\ Len(r.pending) \in Nat
  BY <1>1, LenProperties
<1>3. r.queue # <<>> => Len(r.queue) > 0 /\ Head(r.queue) \in S /\ Head(r.queue) = r.queue[1]
  BY <1>1, EmptySeq, HeadTailProperties
<1>4. r.pending # <<>> =>
        Len(r.pending) > 0 /\ Head(r.pending) \in Ticket /\ Head(r.pending) = r.pending[1]
  BY <1>1, EmptySeq, HeadTailProperties
<1>. QED BY <1>1, <1>2, <1>3, <1>4 DEF Ticket

\* A won ticket is the last of those that are pending.
LEMMA ReserveIsRing ==
  ASSUME NEW T, NEW S, NEW r \in Rings(T, S), NEW t \in T, NEW v \in S
  PROVE  /\ ReserveTicket(r, t, v) \in Rings(T, S)
         /\ ReserveTicket(r, t, v).queue = r.queue
         /\ ReserveTicket(r, t, v).pending = Append(r.pending, [by |-> t, val |-> v])
         /\ Len(ReserveTicket(r, t, v).pending) = Len(r.pending) + 1
<1>. DEFINE Ticket == Tickets(T, S)
            e == [by |-> t, val |-> v]
<1>1. r.pending \in Seq(Ticket) /\ r.queue \in Seq(S) /\ e \in Ticket
      /\ r = [queue |-> r.queue, pending |-> r.pending]
  BY RingFields DEF Tickets
<1>2. ReserveTicket(r, t, v) = [queue |-> r.queue, pending |-> Append(r.pending, e)]
  <2>. DEFINE Q == Seq(S)
              P == Seq(Ticket)
  <2>1. r \in [queue : Q, pending : P]
    BY DEF Rings
  <2>. HIDE DEF Q, P, Ticket, e
  <2>. QED BY <2>1 DEF ReserveTicket, e
<1>. HIDE DEF Ticket, e
<1>3. Append(r.pending, e) \in Seq(Ticket) /\ Len(Append(r.pending, e)) = Len(r.pending) + 1
  BY <1>1, AppendProperties
<1>. QED BY <1>1, <1>2, <1>3 DEF Rings, Ticket, e

\* The same, without the ticket itself.
LEMMA ReserveLengths ==
  ASSUME NEW T, NEW S, NEW r \in Rings(T, S), NEW t \in T, NEW v \in S,
         NEW z, z = ReserveTicket(r, t, v)
  PROVE  /\ z \in Rings(T, S) /\ z.queue = r.queue
         /\ Len(z.pending) = Len(r.pending) + 1
<1>1. /\ ReserveTicket(r, t, v) \in Rings(T, S)
      /\ ReserveTicket(r, t, v).queue = r.queue
      /\ ReserveTicket(r, t, v).pending = Append(r.pending, [by |-> t, val |-> v])
      /\ Len(ReserveTicket(r, t, v).pending) = Len(r.pending) + 1
  BY ReserveIsRing
<1>. QED BY <1>1

\* Publishing moves the oldest pending value to the end of the queue.
LEMMA PublishIsRing ==
  ASSUME NEW T, NEW S, NEW r \in Rings(T, S), r.pending # <<>>
  PROVE  /\ PublishTicket(r) \in Rings(T, S)
         /\ PublishTicket(r).queue = Append(r.queue, Head(r.pending).val)
         /\ PublishTicket(r).pending = Tail(r.pending)
         /\ Len(PublishTicket(r).queue) = Len(r.queue) + 1
         /\ Len(PublishTicket(r).pending) = Len(r.pending) - 1
         /\ Head(r.pending).by \in T /\ Head(r.pending).val \in S
<1>. DEFINE Ticket == Tickets(T, S)
<1>1. r.pending \in Seq(Ticket) /\ r.queue \in Seq(S) /\ Head(r.pending) \in Ticket
  BY RingFields
<1>2. Head(r.pending).by \in T /\ Head(r.pending).val \in S
  BY <1>1 DEF Tickets
<1>3. Append(r.queue, Head(r.pending).val) \in Seq(S)
      /\ Len(Append(r.queue, Head(r.pending).val)) = Len(r.queue) + 1
  BY <1>1, <1>2, AppendProperties
<1>4. Tail(r.pending) \in Seq(Ticket) /\ Len(Tail(r.pending)) = Len(r.pending) - 1
  <2>. HIDE DEF Ticket
  <2>. QED BY <1>1, HeadTailProperties
<1>. QED BY <1>2, <1>3, <1>4 DEF PublishTicket, Rings

\* A dequeue takes the oldest published value.
LEMMA TakeIsRing ==
  ASSUME NEW T, NEW S, NEW r \in Rings(T, S), r.queue # <<>>
  PROVE  /\ TakeHead(r) \in Rings(T, S)
         /\ TakeHead(r).queue = Tail(r.queue) /\ TakeHead(r).pending = r.pending
         /\ Len(TakeHead(r).queue) = Len(r.queue) - 1
<1>1. r.queue \in Seq(S) /\ r.pending \in Seq(Tickets(T, S))
      /\ r = [queue |-> r.queue, pending |-> r.pending]
  BY RingFields
<1>2. Tail(r.queue) \in Seq(S) /\ Len(Tail(r.queue)) = Len(r.queue) - 1
  BY <1>1, HeadTailProperties
<1>3. TakeHead(r) = [queue |-> Tail(r.queue), pending |-> r.pending]
  <2>. DEFINE Q == Seq(S)
              P == Seq(Tickets(T, S))
  <2>1. r \in [queue : Q, pending : P]
    BY DEF Rings
  <2>. HIDE DEF Q, P
  <2>. QED BY <2>1 DEF TakeHead
<1>. QED BY <1>1, <1>2, <1>3 DEF Rings

\* The rings of a family.
LEMMA FamilyTyped ==
  ASSUME NEW G, NEW T, NEW S, NEW R \in [G -> Rings(T, S)]
  PROVE  \A g \in G : R[g].queue \in Seq(S) /\ R[g].pending \in Seq([by : T, val : S])
<1>1. ASSUME NEW g \in G
      PROVE  R[g].queue \in Seq(S) /\ R[g].pending \in Seq(Tickets(T, S))
  BY RingFields
<1>. QED BY <1>1 DEF Tickets

\* A step that changes one ring of a family changes no other.
LEMMA FamilyChanges ==
  ASSUME NEW G, NEW T, NEW S, NEW R \in [G -> Rings(T, S)], NEW g \in G,
         NEW r \in Rings(T, S), NEW Q, Q = [R EXCEPT ![g] = r]
  PROVE  /\ Q \in [G -> Rings(T, S)]
         /\ DOMAIN R = G /\ DOMAIN Q = DOMAIN R /\ Q[g] = r
         /\ \A h \in DOMAIN R : h # g => Q[h] = R[h]
OBVIOUS

----------------------------------------------------------------------------
(* The values in a ring, in order *)

\* The published values are followed by the pending ones.
LEMMA ContentsIsConcat ==
  ASSUME NEW T, NEW S, NEW r \in Rings(T, S),
         NEW vals, vals = [n \in 1 .. Len(r.pending) |-> r.pending[n].val]
  PROVE  /\ Contents(r) = r.queue \o vals /\ r.queue \in Seq(S)
         /\ vals \in Seq(S) /\ Len(vals) = Len(r.pending)
<1>. DEFINE Ticket == Tickets(T, S)
            p == r.pending
<1>1. r.queue \in Seq(S) /\ p \in Seq(Ticket) /\ Len(p) \in Nat
  BY RingFields
<1>2. \A n \in 1 .. Len(p) : p[n] \in Ticket
  <2>. HIDE DEF Ticket, p
  <2>. QED BY <1>1, ElementOfSeq
<1>3. \A n \in 1 .. Len(p) : p[n].val \in S
  BY <1>2 DEF Tickets
<1>4. vals \in Seq(S) /\ Len(vals) = Len(p)
  <2>1. vals = [n \in 1 .. Len(p) |-> p[n].val]
    OBVIOUS
  <2>. HIDE DEF p
  <2>. QED BY <1>1, <1>3, <2>1
<1>5. Contents(r) = r.queue \o vals
  BY DEF Contents
<1>. QED BY <1>1, <1>4, <1>5

\* How many values there are.
LEMMA ContentsIsSeq ==
  ASSUME NEW T, NEW S, NEW r \in Rings(T, S)
  PROVE  Contents(r) \in Seq(S) /\ Len(Contents(r)) = Len(r.queue) + Len(r.pending)
<1>. DEFINE vals == [n \in 1 .. Len(r.pending) |-> r.pending[n].val]
            q == r.queue
<1>1. Contents(r) = q \o vals /\ q \in Seq(S) /\ vals \in Seq(S) /\ Len(vals) = Len(r.pending)
  BY ContentsIsConcat
<1>. HIDE DEF vals, q
<1>2. q \o vals \in Seq(S) /\ Len(q \o vals) = Len(q) + Len(vals)
  BY <1>1, ConcatProperties
<1>. QED BY <1>1, <1>2 DEF q

\* Where they are.
LEMMA ContentsPublished ==
  ASSUME NEW T, NEW S, NEW r \in Rings(T, S), NEW n \in 1 .. Len(r.queue)
  PROVE  Contents(r)[n] = r.queue[n]
<1>. DEFINE vals == [k \in 1 .. Len(r.pending) |-> r.pending[k].val]
            q == r.queue
<1>1. Contents(r) = q \o vals /\ q \in Seq(S) /\ vals \in Seq(S) /\ n \in 1 .. Len(q)
  BY ContentsIsConcat
<1>. HIDE DEF vals, q
<1>2. (q \o vals)[n] = q[n]
  BY <1>1, ConcatProperties, LenProperties
<1>. QED BY <1>1, <1>2 DEF q

\* Behind the entries of the queue come the values of the tickets, in order.
LEMMA ContentsPending ==
  ASSUME NEW T, NEW S, NEW r \in Rings(T, S), NEW n \in 1 .. Len(r.pending)
  PROVE  Contents(r)[Len(r.queue) + n] = r.pending[n].val
<1>. DEFINE vals == [k \in 1 .. Len(r.pending) |-> r.pending[k].val]
            q == r.queue
<1>1. Contents(r) = q \o vals /\ q \in Seq(S) /\ vals \in Seq(S) /\ n \in 1 .. Len(vals)
      /\ vals[n] = r.pending[n].val
  BY ContentsIsConcat
<1>. HIDE DEF vals, q
<1>2. Len(q) \in Nat /\ Len(vals) \in Nat
  BY <1>1, LenProperties
<1>3. Len(q) + n \in 1 .. Len(q) + Len(vals) /\ ~ (Len(q) + n <= Len(q)) /\ (Len(q) + n) - Len(q) = n
  BY <1>1, <1>2
<1>4. (q \o vals)[Len(q) + n] = vals[n]
  BY <1>1, <1>3, ConcatProperties
<1>. QED BY <1>1, <1>4 DEF q

\* Winning a ticket puts the value behind all others.
LEMMA ContentsOfReserve ==
  ASSUME NEW T, NEW S, NEW r \in Rings(T, S), NEW t \in T, NEW v \in S
  PROVE  Contents(ReserveTicket(r, t, v)) = Append(Contents(r), v)
<1>. DEFINE s == ReserveTicket(r, t, v)
            e == [by |-> t, val |-> v]
            a == Len(r.queue)
            b == Len(r.pending)
            c == Contents(r)
            d == Contents(s)
<1>1. s \in Rings(T, S) /\ s.queue = r.queue /\ s.pending = Append(r.pending, e)
      /\ Len(s.pending) = b + 1
  BY ReserveIsRing
<1>2. a \in Nat /\ b \in Nat /\ e.val = v
  BY RingFields
<1>3. /\ \A n \in 1 .. b : s.pending[n] = r.pending[n]
      /\ s.pending[b + 1] = e
  <2>. DEFINE Ticket == Tickets(T, S)
  <2>1. r.pending \in Seq(Ticket) /\ e \in Ticket
    BY RingFields DEF Tickets
  <2>. HIDE DEF Ticket, e, s
  <2>. QED BY <1>1, <2>1, AppendProperties
<1>4. /\ c \in Seq(S) /\ Len(c) = a + b
      /\ \A n \in 1 .. a : c[n] = r.queue[n]
      /\ \A n \in 1 .. b : c[a + n] = r.pending[n].val
  <2>1. c \in Seq(S) /\ Len(c) = a + b
    BY ContentsIsSeq
  <2>2. \A n \in 1 .. a : c[n] = r.queue[n]
    BY ContentsPublished
  <2>3. \A n \in 1 .. b : c[a + n] = r.pending[n].val
    BY ContentsPending
  <2>. QED BY <2>1, <2>2, <2>3
<1>5. /\ d \in Seq(S) /\ Len(d) = a + (b + 1)
      /\ \A n \in 1 .. a : d[n] = r.queue[n]
      /\ \A n \in 1 .. b + 1 : d[a + n] = s.pending[n].val
  <2>. HIDE DEF s
  <2>0. s \in Rings(T, S)
    BY <1>1
  <2>1. d \in Seq(S) /\ Len(d) = Len(s.queue) + Len(s.pending)
    BY <2>0, ContentsIsSeq
  <2>2. ASSUME NEW n \in 1 .. Len(s.queue) PROVE Contents(s)[n] = s.queue[n]
    BY <2>0, ContentsPublished
  <2>3. ASSUME NEW n \in 1 .. Len(s.pending)
        PROVE  Contents(s)[Len(s.queue) + n] = s.pending[n].val
    BY <2>0, ContentsPending
  <2>4. Len(s.queue) = a /\ Len(s.pending) = b + 1 /\ s.queue = r.queue
    BY <1>1
  <2>. HIDE DEF a, b, c
  <2>5. \A n \in 1 .. a : d[n] = r.queue[n]
    BY <2>2, <2>4
  <2>6. \A n \in 1 .. b + 1 : d[(a) + n] = s.pending[n].val
    BY <2>3, <2>4
  <2>. QED BY <2>1, <2>4, <2>5, <2>6
<1>. HIDE DEF s, e, a, b, c, d
<1>6. /\ Append(c, v) \in Seq(S) /\ Len(Append(c, v)) = a + b + 1
      /\ Append(c, v)[a + b + 1] = v
      /\ \A n \in 1 .. a + b : Append(c, v)[n] = c[n]
  BY <1>2, <1>4, AppendProperties
<1>7. \A n \in 1 .. a + b + 1 : d[n] = Append(c, v)[n]
  <2>. SUFFICES ASSUME NEW n \in 1 .. a + b + 1 PROVE d[n] = Append(c, v)[n]
    OBVIOUS
  <2>1. CASE n <= a
    BY <1>2, <1>4, <1>5, <1>6, <2>1
  <2>2. CASE n > a /\ n <= a + b
    <3>1. n - a \in 1 .. b /\ a + (n - a) = n /\ n \in 1 .. a + b
      BY <1>2, <2>2
    <3>2. d[n] = s.pending[n - a].val /\ c[n] = r.pending[n - a].val
      <4>1. n - a \in 1 .. b + 1
        BY <1>2, <3>1
      <4>. QED BY <1>4, <1>5, <3>1, <4>1
    <3>. QED BY <1>3, <1>6, <3>1, <3>2
  <2>3. CASE n = a + b + 1
    <3>1. b + 1 \in 1 .. b + 1 /\ a + (b + 1) = n
      BY <1>2, <2>3
    <3>2. d[n] = s.pending[b + 1].val
      BY <1>5, <3>1
    <3>. QED BY <1>2, <1>3, <1>6, <2>3, <3>2
  <2>4. n <= a \/ (n > a /\ n <= a + b) \/ n = a + b + 1
    BY <1>2
  <2>. QED BY <2>1, <2>2, <2>3, <2>4
<1>8. Len(d) = Len(Append(c, v)) /\ Len(d) = a + b + 1
  BY <1>2, <1>5, <1>6
<1>9. d = Append(c, v)
  BY <1>5, <1>6, <1>7, <1>8, SeqEqual
<1>. QED BY <1>9 DEF c, d, s

\* Publishing a ticket neither moves nor changes a value.
LEMMA ContentsOfPublish ==
  ASSUME NEW T, NEW S, NEW r \in Rings(T, S), r.pending # <<>>
  PROVE  Contents(PublishTicket(r)) = Contents(r)
<1>. DEFINE s == PublishTicket(r)
            v == Head(r.pending).val
            a == Len(r.queue)
            b == Len(r.pending)
            c == Contents(r)
            d == Contents(s)
<1>1. s \in Rings(T, S) /\ s.queue = Append(r.queue, v) /\ s.pending = Tail(r.pending)
      /\ Len(s.queue) = a + 1 /\ Len(s.pending) = b - 1 /\ v \in S
  BY PublishIsRing
<1>2. a \in Nat /\ b \in Nat /\ b > 0 /\ v = r.pending[1].val /\ r.queue \in Seq(S)
  BY RingFields
<1>3. /\ \A n \in 1 .. a : s.queue[n] = r.queue[n]
      /\ s.queue[a + 1] = v
  <2>. HIDE DEF v, s
  <2>. QED BY <1>1, <1>2, AppendProperties
<1>4. \A n \in 1 .. b - 1 : s.pending[n] = r.pending[n + 1]
  <2>. DEFINE Ticket == Tickets(T, S)
  <2>1. r.pending \in Seq(Ticket)
    BY RingFields
  <2>. HIDE DEF Ticket, s
  <2>. QED BY <1>1, <2>1, HeadTailProperties
<1>5. /\ c \in Seq(S) /\ Len(c) = a + b
      /\ \A n \in 1 .. a : c[n] = r.queue[n]
      /\ \A n \in 1 .. b : c[a + n] = r.pending[n].val
  <2>1. c \in Seq(S) /\ Len(c) = a + b
    BY ContentsIsSeq
  <2>2. \A n \in 1 .. a : c[n] = r.queue[n]
    BY ContentsPublished
  <2>3. \A n \in 1 .. b : c[a + n] = r.pending[n].val
    BY ContentsPending
  <2>. QED BY <2>1, <2>2, <2>3
<1>6. /\ d \in Seq(S) /\ Len(d) = (a + 1) + (b - 1)
      /\ \A n \in 1 .. a + 1 : d[n] = s.queue[n]
      /\ \A n \in 1 .. b - 1 : d[(a + 1) + n] = s.pending[n].val
  <2>. HIDE DEF s
  <2>0. s \in Rings(T, S)
    BY <1>1
  <2>1. d \in Seq(S) /\ Len(d) = Len(s.queue) + Len(s.pending)
    BY <2>0, ContentsIsSeq
  <2>2. ASSUME NEW n \in 1 .. Len(s.queue) PROVE Contents(s)[n] = s.queue[n]
    BY <2>0, ContentsPublished
  <2>3. ASSUME NEW n \in 1 .. Len(s.pending)
        PROVE  Contents(s)[Len(s.queue) + n] = s.pending[n].val
    BY <2>0, ContentsPending
  <2>4. Len(s.queue) = a + 1 /\ Len(s.pending) = b - 1
    BY <1>1
  <2>. HIDE DEF a, b, c
  <2>5. \A n \in 1 .. a + 1 : d[n] = s.queue[n]
    BY <2>2, <2>4
  <2>6. \A n \in 1 .. b - 1 : d[(a + 1) + n] = s.pending[n].val
    BY <2>3, <2>4
  <2>. QED BY <2>1, <2>4, <2>5, <2>6
<1>. HIDE DEF s, v, a, b, c, d
<1>7. \A n \in 1 .. a + b : d[n] = c[n]
  <2>. SUFFICES ASSUME NEW n \in 1 .. a + b PROVE d[n] = c[n]
    OBVIOUS
  <2>1. CASE n <= a
    <3>1. n \in 1 .. a /\ n \in 1 .. a + 1
      BY <1>2, <2>1
    <3>. QED BY <1>3, <1>5, <1>6, <3>1
  <2>2. CASE n = a + 1
    <3>1. n \in 1 .. a + 1 /\ 1 \in 1 .. b
      BY <1>2, <2>2
    <3>. QED BY <1>2, <1>3, <1>5, <1>6, <2>2, <3>1
  <2>3. CASE n > a + 1
    <3>. DEFINE k == n - (a + 1)
    <3>1. k \in 1 .. b - 1 /\ (a + 1) + k = n /\ k + 1 \in 1 .. b /\ a + (k + 1) = n
      BY <1>2, <2>3
    <3>. HIDE DEF k
    <3>2. d[n] = s.pending[k].val
      BY <1>6, <3>1
    <3>3. c[n] = r.pending[k + 1].val
      BY <1>5, <3>1
    <3>. QED BY <1>4, <3>1, <3>2, <3>3
  <2>. QED BY <1>2, <2>1, <2>2, <2>3
<1>8. Len(d) = a + b /\ Len(c) = a + b
  BY <1>2, <1>5, <1>6
<1>9. d = c
  BY <1>5, <1>6, <1>7, <1>8, SeqEqual
<1>. QED BY <1>9 DEF c, d, s

\* A dequeue takes the first of all values.
LEMMA ContentsOfTake ==
  ASSUME NEW T, NEW S, NEW r \in Rings(T, S), r.queue # <<>>
  PROVE  /\ Contents(r) # <<>> /\ Head(Contents(r)) = Head(r.queue)
         /\ Contents(TakeHead(r)) = Tail(Contents(r))
<1>. DEFINE s == TakeHead(r)
            a == Len(r.queue)
            b == Len(r.pending)
            c == Contents(r)
            d == Contents(s)
<1>1. s \in Rings(T, S) /\ s.queue = Tail(r.queue) /\ s.pending = r.pending
      /\ Len(s.queue) = a - 1
  BY TakeIsRing
<1>2. r.queue \in Seq(S) /\ a \in Nat /\ a > 0 /\ b \in Nat /\ Head(r.queue) = r.queue[1]
  BY RingFields
<1>3. \A n \in 1 .. a - 1 : s.queue[n] = r.queue[n + 1]
  <2>. HIDE DEF s
  <2>. QED BY <1>1, <1>2, HeadTailProperties
<1>4. /\ c \in Seq(S) /\ Len(c) = a + b
      /\ \A n \in 1 .. a : c[n] = r.queue[n]
      /\ \A n \in 1 .. b : c[a + n] = r.pending[n].val
  <2>1. c \in Seq(S) /\ Len(c) = a + b
    BY ContentsIsSeq
  <2>2. \A n \in 1 .. a : c[n] = r.queue[n]
    BY ContentsPublished
  <2>3. \A n \in 1 .. b : c[a + n] = r.pending[n].val
    BY ContentsPending
  <2>. QED BY <2>1, <2>2, <2>3
<1>5. /\ d \in Seq(S) /\ Len(d) = (a - 1) + b
      /\ \A n \in 1 .. a - 1 : d[n] = s.queue[n]
      /\ \A n \in 1 .. b : d[(a - 1) + n] = r.pending[n].val
  <2>. HIDE DEF s
  <2>0. s \in Rings(T, S)
    BY <1>1
  <2>1. d \in Seq(S) /\ Len(d) = Len(s.queue) + Len(s.pending)
    BY <2>0, ContentsIsSeq
  <2>2. ASSUME NEW n \in 1 .. Len(s.queue) PROVE Contents(s)[n] = s.queue[n]
    BY <2>0, ContentsPublished
  <2>3. ASSUME NEW n \in 1 .. Len(s.pending)
        PROVE  Contents(s)[Len(s.queue) + n] = s.pending[n].val
    BY <2>0, ContentsPending
  <2>4. Len(s.queue) = a - 1 /\ Len(s.pending) = b /\ s.pending = r.pending
    BY <1>1
  <2>. HIDE DEF a, b, c
  <2>5. \A n \in 1 .. a - 1 : d[n] = s.queue[n]
    BY <2>2, <2>4
  <2>6. \A n \in 1 .. b : d[(a - 1) + n] = r.pending[n].val
    BY <2>3, <2>4
  <2>. QED BY <2>1, <2>4, <2>5, <2>6
<1>. HIDE DEF s, a, b, c, d
<1>6. c # <<>>
  BY <1>2, <1>4, EmptySeq
<1>7. /\ Head(c) = c[1]
      /\ Tail(c) \in Seq(S) /\ Len(Tail(c)) = a + b - 1
      /\ \A n \in 1 .. a + b - 1 : Tail(c)[n] = c[n + 1]
  <2>1. Head(c) = c[1]
    BY <1>4, <1>6
  <2>2. Tail(c) \in Seq(S) /\ Len(Tail(c)) = Len(c) - 1
    BY <1>4, <1>6, HeadTailProperties
  <2>3. \A n \in 1 .. Len(Tail(c)) : Tail(c)[n] = c[n + 1]
    BY <1>4, <1>6, HeadTailProperties
  <2>. QED BY <1>2, <1>4, <2>1, <2>2, <2>3
<1>8. \A n \in 1 .. a + b - 1 : d[n] = c[n + 1]
  <2>. SUFFICES ASSUME NEW n \in 1 .. a + b - 1 PROVE d[n] = c[n + 1]
    OBVIOUS
  <2>1. CASE n <= a - 1
    <3>1. n \in 1 .. a - 1 /\ n + 1 \in 1 .. a
      BY <1>2, <2>1
    <3>. QED BY <1>3, <1>4, <1>5, <3>1
  <2>2. CASE n > a - 1
    <3>. DEFINE k == n - (a - 1)
    <3>1. k \in 1 .. b /\ (a - 1) + k = n /\ a + k = n + 1
      BY <1>2, <2>2
    <3>. HIDE DEF k
    <3>. QED BY <1>4, <1>5, <3>1
  <2>. QED BY <1>2, <2>1, <2>2
<1>9. Len(d) = a + b - 1 /\ Len(Tail(c)) = a + b - 1
  BY <1>2, <1>5, <1>7
<1>10. d = Tail(c)
  BY <1>5, <1>7, <1>8, <1>9, SeqEqual
<1>11. Head(c) = Head(r.queue)
  BY <1>2, <1>4, <1>7
<1>. QED BY <1>6, <1>10, <1>11 DEF c, d, s

----------------------------------------------------------------------------
(* The values of a sequence, looked up in a memory *)

Through(f, q) == [n \in DOMAIN q |-> f[q[n]]]

\* As many as the sequence has.
LEMMA ThroughLen ==
  ASSUME NEW S, NEW q \in Seq(S), NEW f
  PROVE  Len(Through(f, q)) = Len(q)
<1>1. Through(f, q) = [n \in 1 .. Len(q) |-> f[q[n]]] /\ Len(q) \in Nat
  BY LenProperties DEF Through
<1>. QED BY <1>1

\* Of what the memory holds.
LEMMA ThroughIsSeq ==
  ASSUME NEW S, NEW M, NEW f \in [S -> M], NEW q \in Seq(S)
  PROVE  Through(f, q) \in Seq(M)
<1>1. Len(q) \in Nat /\ DOMAIN q = 1 .. Len(q) /\ \A n \in 1 .. Len(q) : q[n] \in S
  BY LenProperties, ElementOfSeq
<1>2. Through(f, q) = [n \in 1 .. Len(q) |-> f[q[n]]]
  BY <1>1 DEF Through
<1>3. \A n \in 1 .. Len(q) : f[q[n]] \in M
  BY <1>1
<1>. QED BY <1>1, <1>2, <1>3

\* Each one is looked up by itself.
LEMMA ThroughAt ==
  ASSUME NEW S, NEW q \in Seq(S), NEW f, NEW n \in 1 .. Len(q)
  PROVE  Through(f, q)[n] = f[q[n]]
BY LenProperties DEF Through

\* A memory that changes only where the sequence does not look.
LEMMA ThroughSame ==
  ASSUME NEW q, NEW f, NEW h, \A n \in DOMAIN q : h[q[n]] = f[q[n]]
  PROVE  Through(h, q) = Through(f, q)
BY DEF Through

\* Looking up what was appended
LEMMA ThroughAppend ==
  ASSUME NEW S, NEW M, NEW f \in [S -> M], NEW q \in Seq(S), NEW v \in S
  PROVE  Through(f, Append(q, v)) = Append(Through(f, q), f[v])
<1>. DEFINE a == Append(q, v)
            z == Through(f, a)
            y == Through(f, q)
            w == Append(y, f[v])
<1>1. Len(q) \in Nat /\ a \in Seq(S) /\ Len(a) = Len(q) + 1
      /\ (\A n \in 1 .. Len(q) : a[n] = q[n]) /\ a[Len(q) + 1] = v
  BY AppendProperties, LenProperties
<1>. HIDE DEF a
<1>2. /\ z \in Seq(M) /\ Len(z) = Len(a) /\ \A n \in 1 .. Len(a) : z[n] = f[a[n]]
  <2>1. z \in Seq(M)
    BY <1>1, ThroughIsSeq
  <2>2. Len(z) = Len(a)
    BY <1>1, ThroughLen
  <2>3. \A n \in 1 .. Len(a) : z[n] = f[a[n]]
    BY <1>1, ThroughAt
  <2>. QED BY <2>1, <2>2, <2>3
<1>3. /\ y \in Seq(M) /\ Len(y) = Len(q) /\ \A n \in 1 .. Len(q) : y[n] = f[q[n]]
  <2>1. y \in Seq(M)
    BY ThroughIsSeq
  <2>2. Len(y) = Len(q)
    BY ThroughLen
  <2>3. \A n \in 1 .. Len(q) : y[n] = f[q[n]]
    BY ThroughAt
  <2>. QED BY <2>1, <2>2, <2>3
<1>. HIDE DEF z, y
<1>4. w \in Seq(M) /\ Len(w) = Len(y) + 1
      /\ (\A n \in 1 .. Len(y) : w[n] = y[n]) /\ w[Len(y) + 1] = f[v]
  BY <1>3, AppendProperties
<1>. HIDE DEF w
<1>5. \A n \in 1 .. Len(z) : z[n] = w[n]
  <2>. SUFFICES ASSUME NEW n \in 1 .. Len(q) + 1 PROVE z[n] = w[n]
    BY <1>1, <1>2
  <2>1. CASE n \in 1 .. Len(q)
    BY <1>1, <1>2, <1>3, <1>4, <2>1
  <2>2. CASE n = Len(q) + 1
    BY <1>1, <1>2, <1>3, <1>4, <2>2
  <2>. QED BY <1>1, <2>1, <2>2
<1>6. z = w
  BY <1>1, <1>2, <1>3, <1>4, <1>5, SeqEqual
<1>. QED BY <1>6 DEF z, w, a, y

\* Looking up what is left of the sequence, and its head
LEMMA ThroughTail ==
  ASSUME NEW S, NEW M, NEW f \in [S -> M], NEW q \in Seq(S), q # <<>>
  PROVE  /\ Through(f, Tail(q)) = Tail(Through(f, q))
         /\ Through(f, q) # <<>> /\ Head(Through(f, q)) = f[Head(q)]
<1>. DEFINE a == Tail(q)
            z == Through(f, a)
            y == Through(f, q)
            w == Tail(y)
<1>1. Len(q) \in Nat /\ Len(q) > 0 /\ a \in Seq(S) /\ Len(a) = Len(q) - 1 /\ Head(q) = q[1]
      /\ \A n \in 1 .. Len(q) - 1 : a[n] = q[n + 1]
  BY HeadTailProperties, LenProperties, EmptySeq
<1>. HIDE DEF a
<1>2. /\ z \in Seq(M) /\ Len(z) = Len(a) /\ \A n \in 1 .. Len(a) : z[n] = f[a[n]]
  <2>1. z \in Seq(M)
    BY <1>1, ThroughIsSeq
  <2>2. Len(z) = Len(a)
    BY <1>1, ThroughLen
  <2>3. \A n \in 1 .. Len(a) : z[n] = f[a[n]]
    BY <1>1, ThroughAt
  <2>. QED BY <2>1, <2>2, <2>3
<1>3. /\ y \in Seq(M) /\ Len(y) = Len(q) /\ \A n \in 1 .. Len(q) : y[n] = f[q[n]]
  <2>1. y \in Seq(M)
    BY ThroughIsSeq
  <2>2. Len(y) = Len(q)
    BY ThroughLen
  <2>3. \A n \in 1 .. Len(q) : y[n] = f[q[n]]
    BY ThroughAt
  <2>. QED BY <2>1, <2>2, <2>3
<1>. HIDE DEF z, y
<1>4. y # <<>> /\ Head(y) = y[1]
  BY <1>1, <1>3, EmptySeq
<1>5. w \in Seq(M) /\ Len(w) = Len(y) - 1 /\ \A n \in 1 .. Len(y) - 1 : w[n] = y[n + 1]
  BY <1>3, <1>4, HeadTailProperties
<1>. HIDE DEF w
<1>6. \A n \in 1 .. Len(z) : z[n] = w[n]
  <2>. SUFFICES ASSUME NEW n \in 1 .. Len(q) - 1 PROVE z[n] = w[n]
    BY <1>1, <1>2
  <2>1. n + 1 \in 1 .. Len(q)
    BY <1>1
  <2>. QED BY <1>1, <1>2, <1>3, <1>5, <2>1
<1>7. z = w
  BY <1>1, <1>2, <1>3, <1>5, <1>6, SeqEqual
<1>8. Head(y) = f[Head(q)]
  BY <1>1, <1>3, <1>4
<1>. QED BY <1>4, <1>7, <1>8 DEF z, w, a, y

----------------------------------------------------------------------------
(* Counting *)

\* The places of q that hold a value of K.
Hits(q, K) == {n \in DOMAIN q : q[n] \in K}

\* The places of a sequence that hold one of some values are finitely many.
LEMMA HitsFinite ==
  ASSUME NEW S, NEW q \in Seq(S), NEW K
  PROVE  IsFiniteSet(Hits(q, K)) /\ Cardinality(Hits(q, K)) \in Nat
<1>1. DOMAIN q = 1 .. Len(q) /\ Len(q) \in Nat
  BY LenProperties
<1>2. IsFiniteSet(1 .. Len(q))
  BY <1>1, FS_Interval
<1>3. Hits(q, K) \in SUBSET (1 .. Len(q))
  BY <1>1 DEF Hits
<1>. QED BY <1>2, <1>3, FS_Subset, FS_CardinalityType

\* Nothing is in no sequence.
LEMMA HitsEmpty ==
  ASSUME NEW K
  PROVE  Hits(<<>>, K) = {} /\ Cardinality(Hits(<<>>, K)) = 0
<1>1. DOMAIN <<>> = {}
  OBVIOUS
<1>2. Hits(<<>>, K) = {}
  BY <1>1 DEF Hits
<1>. QED BY <1>2, FS_EmptySet

\* Appending a value of K adds a place.
LEMMA HitsAppend ==
  ASSUME NEW S, NEW q \in Seq(S), NEW v \in S, NEW K
  PROVE  Cardinality(Hits(Append(q, v), K)) = Cardinality(Hits(q, K)) + (IF v \in K THEN 1 ELSE 0)
<1>. DEFINE n == Len(q) + 1
            a == Append(q, v)
<1>1. Len(q) \in Nat /\ DOMAIN q = 1 .. Len(q)
  BY LenProperties
<1>2. /\ a \in Seq(S) /\ Len(a) = n
      /\ \A k \in 1 .. Len(q) : a[k] = q[k]
      /\ a[n] = v
  BY AppendProperties
<1>3. DOMAIN a = 1 .. n
  BY <1>2, LenProperties
<1>. HIDE DEF a
<1>4. n \notin Hits(q, K)
  BY <1>1 DEF Hits
<1>5. IsFiniteSet(Hits(q, K)) /\ Cardinality(Hits(q, K)) \in Nat
  BY HitsFinite
<1>6. CASE v \in K
  <2>1. Hits(a, K) = Hits(q, K) \cup {n}
    BY <1>1, <1>2, <1>3, <1>6 DEF Hits
  <2>2. Cardinality(Hits(q, K) \cup {n}) = Cardinality(Hits(q, K)) + 1
    <3>. HIDE DEF n
    <3>. QED BY <1>4, <1>5, FS_AddElement
  <2>. QED BY <1>6, <2>1, <2>2 DEF a
<1>7. CASE v \notin K
  <2>1. Hits(a, K) = Hits(q, K)
    BY <1>1, <1>2, <1>3, <1>7 DEF Hits
  <2>. QED BY <1>5, <1>7, <2>1 DEF a
<1>. QED BY <1>6, <1>7

\* Taking the head away takes its place away and shifts the others.
LEMMA HitsTail ==
  ASSUME NEW S, NEW q \in Seq(S), q # <<>>, NEW K
  PROVE  Cardinality(Hits(Tail(q), K)) =
           Cardinality(Hits(q, K)) - (IF Head(q) \in K THEN 1 ELSE 0)
<1>. DEFINE a == Tail(q)
            H == Hits(q, K) \ {1}
            f == [n \in H |-> n - 1]
<1>1. Len(q) \in Nat /\ Len(q) > 0 /\ DOMAIN q = 1 .. Len(q) /\ Head(q) = q[1]
  BY LenProperties, EmptySeq
<1>2. /\ a \in Seq(S) /\ Len(a) = Len(q) - 1
      /\ \A k \in 1 .. Len(q) - 1 : a[k] = q[k + 1]
  BY HeadTailProperties
<1>3. DOMAIN a = 1 .. Len(q) - 1
  BY <1>2, LenProperties
<1>. HIDE DEF a
<1>4. \A n \in H : n \in 2 .. Len(q) /\ q[n] \in K
  BY <1>1 DEF Hits
<1>5. \A n \in H : n - 1 \in Hits(a, K)
  <2>. SUFFICES ASSUME NEW n \in H PROVE n - 1 \in Hits(a, K)
    OBVIOUS
  <2>1. n \in 2 .. Len(q) /\ q[n] \in K
    BY <1>4
  <2>. HIDE DEF H
  <2>2. n - 1 \in 1 .. Len(q) - 1 /\ (n - 1) + 1 = n
    BY <1>1, <2>1
  <2>3. a[n - 1] = q[(n - 1) + 1]
    BY <1>2, <2>2
  <2>. QED BY <1>3, <2>1, <2>2, <2>3 DEF Hits
<1>6. \A m \in Hits(a, K) : m + 1 \in H /\ (m + 1) - 1 = m
  <2>. SUFFICES ASSUME NEW m \in Hits(a, K) PROVE m + 1 \in H /\ (m + 1) - 1 = m
    OBVIOUS
  <2>1. m \in 1 .. Len(q) - 1 /\ a[m] \in K
    BY <1>3 DEF Hits
  <2>2. q[m + 1] \in K
    BY <1>2, <2>1
  <2>3. m + 1 \in 1 .. Len(q) /\ m + 1 # 1 /\ (m + 1) - 1 = m
    BY <1>1, <2>1
  <2>. QED BY <1>1, <2>2, <2>3 DEF Hits
<1>7. f \in Bijection(H, Hits(a, K))
  <2>1. f \in [H -> Hits(a, K)]
    BY <1>5
  <2>2. \A x, y \in H : f[x] = f[y] => x = y
    BY <1>4
  <2>3. \A m \in Hits(a, K) : \E x \in H : f[x] = m
    BY <1>6
  <2>. HIDE DEF f, H
  <2>4. DOMAIN f = H
    BY DEF f
  <2>. QED BY <2>1, <2>2, <2>3, <2>4 DEF Bijection, Injection, Surjection, IsInjective
<1>8. IsFiniteSet(Hits(q, K)) /\ Cardinality(Hits(q, K)) \in Nat
  BY HitsFinite
<1>9. IsFiniteSet(H) /\ Cardinality(H) =
        IF 1 \in Hits(q, K) THEN Cardinality(Hits(q, K)) - 1 ELSE Cardinality(Hits(q, K))
  BY <1>8, FS_RemoveElement
<1>10. Cardinality(Hits(a, K)) = Cardinality(H)
  <2>. HIDE DEF f, H
  <2>1. ExistsBijection(H, Hits(a, K))
    BY <1>7 DEF ExistsBijection
  <2>. QED BY <1>9, <2>1, FS_Bijection
<1>11. 1 \in Hits(q, K) <=> Head(q) \in K
  BY <1>1 DEF Hits
<1>. HIDE DEF H
<1>. QED BY <1>8, <1>9, <1>10, <1>11 DEF a

\* What happens to the hits of K when the value of f at t becomes to.
CountShift(f, t, to, K, g) ==
  /\ IsFiniteSet(Hits(g, K))
  /\ Cardinality(Hits(f, K)) \in Nat /\ Cardinality(Hits(g, K)) \in Nat
  /\ Cardinality(Hits(g, K)) =
       Cardinality(Hits(f, K)) - (IF f[t] \in K THEN 1 ELSE 0) + (IF to \in K THEN 1 ELSE 0)

\* When one thread moves, it leaves one set of places and enters another.
LEMMA CountMoves ==
  ASSUME NEW f, NEW t, t \in DOMAIN f, NEW to, NEW K, NEW g,
         DOMAIN g = DOMAIN f, g[t] = to, \A x \in DOMAIN f : x # t => g[x] = f[x],
         IsFiniteSet(Hits(f, K))
  PROVE  CountShift(f, t, to, K, g)
<1>. DEFINE A == Hits(f, K)
            B == Hits(g, K)
<1>2. IsFiniteSet(A) /\ (t \in A <=> f[t] \in K)
  BY DEF Hits
<1>3. B = IF to \in K THEN (A \ {t}) \cup {t} ELSE A \ {t}
  <2>1. CASE to \in K
    BY <2>1 DEF Hits
  <2>2. CASE to \notin K
    BY <2>2 DEF Hits
  <2>. QED BY <2>1, <2>2
<1>. HIDE DEF A, B
<1>4. Cardinality(A) \in Nat
  BY <1>2, FS_CardinalityType
<1>5. /\ IsFiniteSet(A \ {t})
      /\ Cardinality(A \ {t}) = IF t \in A THEN Cardinality(A) - 1 ELSE Cardinality(A)
  BY <1>2, FS_RemoveElement
<1>6. /\ IsFiniteSet((A \ {t}) \cup {t})
      /\ Cardinality((A \ {t}) \cup {t}) = Cardinality(A \ {t}) + 1
  <2>1. t \notin A \ {t}
    OBVIOUS
  <2>. QED BY <1>5, <2>1, FS_AddElement
<1>7. IsFiniteSet(B)
  BY <1>3, <1>5, <1>6
<1>8. Cardinality(B) \in Nat
  BY <1>7, FS_CardinalityType
<1>9. Cardinality(B) =
        Cardinality(A) - (IF f[t] \in K THEN 1 ELSE 0) + (IF to \in K THEN 1 ELSE 0)
  BY <1>2, <1>3, <1>4, <1>5, <1>6
<1>. QED BY <1>4, <1>7, <1>8, <1>9 DEF A, B, CountShift

\* What holds of all values of a sequence holds after one more is appended,
LEMMA AllAppend ==
  ASSUME NEW S, NEW q \in Seq(S), NEW v \in S, NEW K, v \in K,
         \A n \in DOMAIN q : q[n] \in K
  PROVE  \A n \in DOMAIN Append(q, v) : Append(q, v)[n] \in K
<1>. DEFINE a == Append(q, v)
<1>1. Len(q) \in Nat /\ DOMAIN q = 1 .. Len(q)
  BY LenProperties
<1>2. /\ a \in Seq(S) /\ Len(a) = Len(q) + 1
      /\ \A k \in 1 .. Len(q) : a[k] = q[k]
      /\ a[Len(q) + 1] = v
  BY AppendProperties
<1>3. DOMAIN a = 1 .. Len(q) + 1
  BY <1>2, LenProperties
<1>. HIDE DEF a
<1>4. \A n \in DOMAIN a : a[n] \in K
  BY <1>1, <1>2, <1>3
<1>. QED BY <1>4 DEF a

\* and after the first is taken away.
LEMMA AllTail ==
  ASSUME NEW S, NEW q \in Seq(S), q # <<>>, NEW K, \A n \in DOMAIN q : q[n] \in K
  PROVE  \A n \in DOMAIN Tail(q) : Tail(q)[n] \in K
<1>. DEFINE a == Tail(q)
<1>1. Len(q) \in Nat /\ DOMAIN q = 1 .. Len(q)
  BY LenProperties
<1>2. /\ a \in Seq(S) /\ Len(a) = Len(q) - 1
      /\ \A k \in 1 .. Len(q) - 1 : a[k] = q[k + 1]
  BY HeadTailProperties
<1>3. DOMAIN a = 1 .. Len(q) - 1
  BY <1>2, LenProperties
<1>. HIDE DEF a
<1>4. \A n \in DOMAIN a : n + 1 \in DOMAIN q /\ a[n] = q[n + 1]
  BY <1>1, <1>2, <1>3
<1>5. \A n \in DOMAIN a : a[n] \in K
  BY <1>4
<1>. QED BY <1>5 DEF a

\* A value that is left after the first is taken away was in the next place.
LEMMA TailIndex ==
  ASSUME NEW S, NEW q \in Seq(S), q # <<>>, NEW n \in DOMAIN Tail(q)
  PROVE  n + 1 \in DOMAIN q /\ Tail(q)[n] = q[n + 1] /\ n + 1 # 1
<1>. DEFINE a == Tail(q)
<1>1. Len(q) \in Nat /\ DOMAIN q = 1 .. Len(q)
  BY LenProperties
<1>2. /\ a \in Seq(S) /\ Len(a) = Len(q) - 1
      /\ \A k \in 1 .. Len(q) - 1 : a[k] = q[k + 1]
  BY HeadTailProperties
<1>3. DOMAIN a = 1 .. Len(q) - 1
  BY <1>2, LenProperties
<1>. HIDE DEF a
<1>4. n \in DOMAIN a
  BY DEF a
<1>5. n + 1 \in DOMAIN q /\ a[n] = q[n + 1] /\ n + 1 # 1
  BY <1>1, <1>2, <1>3, <1>4
<1>. QED BY <1>5 DEF a

----------------------------------------------------------------------------
(* The places of a value in a family of rings *)

\* A place is a ring and a place in it.
LEMMA PlaceIs ==
  ASSUME NEW R, NEW v, NEW e
  PROVE  e \in PlacesIn(R, v) <=> \E g \in DOMAIN R : e \in {g} \X Hits(Contents(R[g]), {v})
<1>1. ASSUME NEW g, NEW n PROVE <<g, n>>[1] = g /\ <<g, n>>[2] = n
  OBVIOUS
<1>2. ASSUME e \in PlacesIn(R, v)
      PROVE  \E g \in DOMAIN R : e \in {g} \X Hits(Contents(R[g]), {v})
  <2>1. PICK g \in DOMAIN R : e \in {g} \X DOMAIN Contents(R[g])
    BY <1>2 DEF PlacesIn
  <2>2. PICK n \in DOMAIN Contents(R[g]) : e = <<g, n>>
    BY <2>1
  <2>3. Contents(R[g])[n] = v
    BY <1>1, <1>2, <2>2 DEF PlacesIn
  <2>. QED BY <2>2, <2>3 DEF Hits
<1>3. ASSUME NEW g \in DOMAIN R, e \in {g} \X Hits(Contents(R[g]), {v})
      PROVE  e \in PlacesIn(R, v)
  <2>1. PICK n \in Hits(Contents(R[g]), {v}) : e = <<g, n>>
    BY <1>3
  <2>2. n \in DOMAIN Contents(R[g]) /\ Contents(R[g])[n] = v
    BY DEF Hits
  <2>. QED BY <1>1, <2>1, <2>2 DEF PlacesIn
<1>. QED BY <1>2, <1>3

\* What happens to the places of v when ring g of a family becomes r.
PlacesShift(R, g, r, v, Q) ==
  /\ IsFiniteSet(PlacesIn(Q, v))
  /\ Cardinality(PlacesIn(R, v)) \in Nat /\ Cardinality(PlacesIn(Q, v)) \in Nat
  /\ Cardinality(PlacesIn(Q, v)) =
       Cardinality(PlacesIn(R, v)) - Cardinality(Hits(Contents(R[g]), {v}))
         + Cardinality(Hits(Contents(r), {v}))

\* Changing one ring changes its places only.
LEMMA PlacesChange ==
  ASSUME NEW R, NEW g, g \in DOMAIN R, NEW r, NEW v, NEW Q,
         DOMAIN Q = DOMAIN R, Q[g] = r, \A h \in DOMAIN R : h # g => Q[h] = R[h],
         IsFiniteSet(PlacesIn(R, v)), IsFiniteSet(Hits(Contents(r), {v}))
  PROVE  PlacesShift(R, g, r, v, Q)
<1>. DEFINE old == Hits(Contents(R[g]), {v})
            new == Hits(Contents(r), {v})
            rest == {e \in PlacesIn(R, v) : e \notin {g} \X old}
<1>1. DOMAIN Q = DOMAIN R /\ Q[g] = r /\ \A h \in DOMAIN R : h # g => Q[h] = R[h]
  OBVIOUS
<1>2. \A e \in {g} \X old : e \in PlacesIn(R, v)
  BY PlaceIs
<1>3. PlacesIn(R, v) = rest \cup ({g} \X old) /\ rest \cap ({g} \X old) = {}
  BY <1>2
<1>4. \A e \in rest : \E h \in DOMAIN R : h # g /\ e \in {h} \X Hits(Contents(R[h]), {v})
  BY PlaceIs
<1>5. rest \cap ({g} \X new) = {}
  <2>. SUFFICES ASSUME NEW e \in rest PROVE e \notin {g} \X new
    OBVIOUS
  <2>1. PICK h \in DOMAIN R : h # g /\ e \in {h} \X Hits(Contents(R[h]), {v})
    BY <1>4
  <2>. HIDE DEF new, rest
  <2>. QED BY <2>1
<1>6. PlacesIn(Q, v) = rest \cup ({g} \X new)
  <2>1. ASSUME NEW e \in PlacesIn(Q, v) PROVE e \in rest \cup ({g} \X new)
    <3>1. PICK h \in DOMAIN Q : e \in {h} \X Hits(Contents(Q[h]), {v})
      BY PlaceIs
    <3>2. CASE h = g
      BY <1>1, <3>1, <3>2
    <3>3. CASE h # g
      <4>1. h \in DOMAIN R /\ e \in {h} \X Hits(Contents(R[h]), {v})
        BY <1>1, <3>1, <3>3
      <4>2. e \in PlacesIn(R, v)
        BY <4>1, PlaceIs
      <4>3. e \notin {g} \X old
        <5>. HIDE DEF old
        <5>. QED BY <3>3, <4>1
      <4>. QED BY <4>2, <4>3
    <3>. QED BY <3>2, <3>3
  <2>2. ASSUME NEW e \in {g} \X new PROVE e \in PlacesIn(Q, v)
    BY <1>1, <2>2, PlaceIs
  <2>3. ASSUME NEW e \in rest PROVE e \in PlacesIn(Q, v)
    <3>1. PICK h \in DOMAIN R : h # g /\ e \in {h} \X Hits(Contents(R[h]), {v})
      BY <1>4
    <3>2. h \in DOMAIN Q /\ e \in {h} \X Hits(Contents(Q[h]), {v})
      BY <1>1, <3>1
    <3>. QED BY <3>2, PlaceIs
  <2>. HIDE DEF rest, new
  <2>. QED BY <2>1, <2>2, <2>3
<1>7. IsFiniteSet(old)
  <2>. DEFINE A == {g} \X old
              f == [n \in old |-> <<g, n>>]
              p == [e \in A |-> e[2]]
  <2>1. IsFiniteSet(A)
    BY <1>2, FS_Subset
  <2>2. ExistsBijection(A, old)
    <3>1. \A e \in A : e[2] \in old /\ e = <<g, e[2]>>
      OBVIOUS
    <3>2. \A n \in old : <<g, n>> \in A /\ <<g, n>>[2] = n
      OBVIOUS
    <3>. HIDE DEF A, old
    <3>3. p \in [A -> old] /\ DOMAIN p = A
      BY <3>1
    <3>4. \A a, b \in A : p[a] = p[b] => a = b
      BY <3>1
    <3>5. \A n \in old : \E a \in A : p[a] = n
      BY <3>2
    <3>. HIDE DEF p
    <3>6. p \in Bijection(A, old)
      BY <3>3, <3>4, <3>5 DEF Bijection, Injection, Surjection, IsInjective
    <3>. QED BY <3>6 DEF ExistsBijection
  <2>. HIDE DEF A, old
  <2>. QED BY <2>1, <2>2, FS_Bijection
<1>. HIDE DEF old, new, rest
<1>8. IsFiniteSet(rest)
  <2>1. rest \in SUBSET PlacesIn(R, v)
    BY <1>3
  <2>. QED BY <2>1, FS_Subset
<1>9. ASSUME NEW H, IsFiniteSet(H), rest \cap ({g} \X H) = {}
      PROVE  /\ IsFiniteSet(rest \cup ({g} \X H))
             /\ Cardinality(rest) \in Nat /\ Cardinality(H) \in Nat
             /\ Cardinality(rest \cup ({g} \X H)) = Cardinality(rest) + Cardinality(H)
  <2>1. IsFiniteSet({g}) /\ Cardinality({g}) = 1
    BY FS_Singleton
  <2>2. IsFiniteSet({g} \X H) /\ Cardinality({g} \X H) = 1 * Cardinality(H)
    BY <1>9, <2>1, FS_Product
  <2>3. Cardinality(rest) \in Nat /\ Cardinality(H) \in Nat /\ Cardinality({}) = 0
    BY <1>8, <1>9, FS_CardinalityType, FS_EmptySet
  <2>. DEFINE B == {g} \X H
  <2>. HIDE DEF B
  <2>4. IsFiniteSet(rest \cup B) /\ Cardinality(rest \cup B) =
               Cardinality(rest) + Cardinality(B) - Cardinality(rest \cap B)
    BY <1>8, <2>2, FS_Union DEF B
  <2>5. Cardinality(rest \cap B) = 0 /\ Cardinality(B) = Cardinality(H)
    <3>1. rest \cap B = {}
      BY <1>9 DEF B
    <3>2. Cardinality(B) = Cardinality(H)
      BY <2>2, <2>3 DEF B
    <3>. QED BY <2>3, <3>1, <3>2
  <2>6. Cardinality(rest \cup B) = Cardinality(rest) + Cardinality(H)
    BY <2>3, <2>4, <2>5
  <2>. QED BY <2>3, <2>4, <2>6 DEF B
<1>10. IsFiniteSet(new)
  BY DEF new
<1>11. Cardinality(PlacesIn(R, v)) = Cardinality(rest) + Cardinality(old)
  BY <1>3, <1>7, <1>9
<1>12. Cardinality(PlacesIn(Q, v)) = Cardinality(rest) + Cardinality(new)
       /\ IsFiniteSet(PlacesIn(Q, v))
  BY <1>5, <1>6, <1>9, <1>10
<1>13. /\ Cardinality(rest) \in Nat /\ Cardinality(old) \in Nat /\ Cardinality(new) \in Nat
  BY <1>7, <1>8, <1>10, FS_CardinalityType
<1>14. Cardinality(PlacesIn(R, v)) \in Nat /\ Cardinality(PlacesIn(Q, v)) \in Nat
  BY <1>11, <1>12, <1>13
<1>15. Cardinality(PlacesIn(Q, v)) =
          Cardinality(PlacesIn(R, v)) - Cardinality(old) + Cardinality(new)
  BY <1>11, <1>12, <1>13
<1>. QED BY <1>12, <1>14, <1>15 DEF old, new, PlacesShift

\* Nothing is in empty rings.
LEMMA PlacesInEmpty ==
  ASSUME NEW R, \A g \in DOMAIN R : R[g] = EmptyRing, NEW v
  PROVE  IsFiniteSet(PlacesIn(R, v)) /\ Cardinality(PlacesIn(R, v)) = 0
<1>1. \A g \in DOMAIN R : Contents(R[g]) = Contents(EmptyRing)
  OBVIOUS
<1>2. DOMAIN Contents(EmptyRing) = {}
  <2>1. EmptyRing \in Rings({}, {}) /\ EmptyRing.queue = <<>> /\ EmptyRing.pending = <<>>
    BY EmptyIsRing
  <2>2. Contents(EmptyRing) \in Seq({})
    BY <2>1, ContentsIsSeq
  <2>3. Len(Contents(EmptyRing)) = Len(<<>>) + Len(<<>>)
    BY <2>1, ContentsIsSeq
  <2>. QED BY <2>2, <2>3
<1>3. PlacesIn(R, v) = {}
  <2>. SUFFICES ASSUME NEW e \in PlacesIn(R, v) PROVE FALSE
    OBVIOUS
  <2>1. PICK g \in DOMAIN R : e \in {g} \X DOMAIN Contents(R[g])
    BY DEF PlacesIn
  <2>2. DOMAIN Contents(R[g]) = {}
    BY <1>1, <1>2
  <2>. QED BY <2>1, <2>2
<1>. QED BY <1>3, FS_EmptySet

\* Rings change from R to Q such that v is in d more places.
PlacesMoved(R, v, Q, d) ==
  /\ IsFiniteSet(PlacesIn(Q, v))
  /\ Cardinality(PlacesIn(R, v)) \in Nat /\ Cardinality(PlacesIn(Q, v)) \in Nat
  /\ Cardinality(PlacesIn(Q, v)) = Cardinality(PlacesIn(R, v)) + d

\* A successful enqueue adds a place of its value,
LEMMA PlacesReserve ==
  ASSUME NEW T, NEW S, NEW R, NEW g, g \in DOMAIN R, R[g] \in Rings(T, S),
         NEW t \in T, NEW x \in S, NEW v, NEW Q,
         DOMAIN Q = DOMAIN R, Q[g] = ReserveTicket(R[g], t, x),
         \A h \in DOMAIN R : h # g => Q[h] = R[h],
         IsFiniteSet(PlacesIn(R, v))
  PROVE  PlacesMoved(R, v, Q, IF x = v THEN 1 ELSE 0)
<1>. DEFINE c == Contents(R[g])
            K == {v}
            r == ReserveTicket(R[g], t, x)
<1>1. c \in Seq(S)
  BY ContentsIsSeq
<1>2. Contents(r) = Append(c, x)
  BY ContentsOfReserve
<1>. HIDE DEF c
<1>3. IsFiniteSet(Hits(Append(c, x), K))
  <2>1. Append(c, x) \in Seq(S)
    BY <1>1, AppendProperties
  <2>. QED BY <2>1, HitsFinite
<1>4. /\ Cardinality(Hits(c, K)) \in Nat
      /\ Cardinality(Hits(Append(c, x), K)) = Cardinality(Hits(c, K)) + (IF x \in K THEN 1 ELSE 0)
  <2>. HIDE DEF K
  <2>. QED BY <1>1, HitsAppend, HitsFinite
<1>5. /\ DOMAIN Q = DOMAIN R /\ Q[g] = r /\ IsFiniteSet(Hits(Contents(r), {v}))
      /\ g \in DOMAIN R /\ IsFiniteSet(PlacesIn(R, v))
      /\ \A h \in DOMAIN R : h # g => Q[h] = R[h]
  BY <1>2, <1>3
<1>. HIDE DEF r
<1>6. PlacesShift(R, g, r, v, Q)
  BY <1>5, PlacesChange
<1>7. Cardinality(PlacesIn(Q, v)) =
           Cardinality(PlacesIn(R, v)) - Cardinality(Hits(c, K)) + Cardinality(Hits(Append(c, x), K))
  BY <1>2, <1>6 DEF c, r, PlacesShift
<1>. QED BY <1>4, <1>6, <1>7 DEF PlacesShift, PlacesMoved

\* publishing it moves nothing,
LEMMA PlacesPublish ==
  ASSUME NEW T, NEW S, NEW R, NEW g, g \in DOMAIN R, R[g] \in Rings(T, S), R[g].pending # <<>>,
         NEW v, NEW Q, DOMAIN Q = DOMAIN R, Q[g] = PublishTicket(R[g]),
         \A h \in DOMAIN R : h # g => Q[h] = R[h]
  PROVE  PlacesIn(Q, v) = PlacesIn(R, v)
<1>1. Contents(PublishTicket(R[g])) = Contents(R[g])
  BY ContentsOfPublish
<1>2. DOMAIN Q = DOMAIN R /\ \A h \in DOMAIN R : Contents(Q[h]) = Contents(R[h])
  BY <1>1
<1>3. \A e : e \in PlacesIn(Q, v) <=> e \in PlacesIn(R, v)
  BY ZenonT(60), <1>2, PlaceIs
<1>. QED BY <1>3

\* and a dequeue takes one place of the value at the head away.
LEMMA PlacesTake ==
  ASSUME NEW T, NEW S, NEW R, NEW g, g \in DOMAIN R, R[g] \in Rings(T, S), R[g].queue # <<>>,
         NEW v, NEW Q, DOMAIN Q = DOMAIN R, Q[g] = TakeHead(R[g]),
         \A h \in DOMAIN R : h # g => Q[h] = R[h],
         IsFiniteSet(PlacesIn(R, v))
  PROVE  PlacesMoved(R, v, Q, IF Head(R[g].queue) = v THEN -1 ELSE 0)
<1>. DEFINE c == Contents(R[g])
            K == {v}
            r == TakeHead(R[g])
            x == Head(R[g].queue)
<1>1. c \in Seq(S)
  BY ContentsIsSeq
<1>2. c # <<>> /\ Head(c) = x /\ Contents(r) = Tail(c)
  BY ContentsOfTake
<1>. HIDE DEF c, x
<1>3. IsFiniteSet(Hits(Tail(c), K))
  <2>1. Tail(c) \in Seq(S)
    BY <1>1, <1>2, HeadTailProperties
  <2>. QED BY <2>1, HitsFinite
<1>4. /\ Cardinality(Hits(c, K)) \in Nat
      /\ Cardinality(Hits(Tail(c), K)) = Cardinality(Hits(c, K)) - (IF Head(c) \in K THEN 1 ELSE 0)
  <2>. HIDE DEF K
  <2>. QED BY <1>1, <1>2, HitsTail, HitsFinite
<1>5. /\ DOMAIN Q = DOMAIN R /\ Q[g] = r /\ IsFiniteSet(Hits(Contents(r), {v}))
      /\ g \in DOMAIN R /\ IsFiniteSet(PlacesIn(R, v))
      /\ \A h \in DOMAIN R : h # g => Q[h] = R[h]
  BY <1>2, <1>3
<1>. HIDE DEF r
<1>6. PlacesShift(R, g, r, v, Q)
  BY <1>5, PlacesChange
<1>7. Cardinality(PlacesIn(Q, v)) =
           Cardinality(PlacesIn(R, v)) - Cardinality(Hits(c, K)) + Cardinality(Hits(Tail(c), K))
  BY <1>2, <1>6 DEF c, r, PlacesShift
<1>. QED BY <1>2, <1>4, <1>6, <1>7 DEF x, PlacesShift, PlacesMoved

\* A value at the head, or anywhere, has a place.
LEMMA HasPlace ==
  ASSUME NEW R, NEW g \in DOMAIN R, NEW n \in DOMAIN Contents(R[g]), NEW v,
         Contents(R[g])[n] = v, IsFiniteSet(PlacesIn(R, v))
  PROVE  Cardinality(PlacesIn(R, v)) \in Nat \ {0}
<1>1. <<g, n>> \in PlacesIn(R, v)
  BY PlaceIs DEF Hits
<1>. QED BY <1>1, FS_CardinalityType, FS_EmptySet
===============================================================================
