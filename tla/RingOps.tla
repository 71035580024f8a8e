------------------------------ MODULE RingOps ------------------------------
(***************************************************************************)
(* What one ck_ring promises, as values and operators on them.             *)
(*                                                                         *)
(* A ring is a record: "queue" holds the published values, oldest first    *)
(* (the tickets c_head .. p_tail-1), "pending" the tickets a producer has  *)
(* won by its CAS of p_head but not yet published (p_tail .. p_head-1).    *)
(* A ring made by ck_ring_init(size) holds size-1 tickets, not size.       *)
(*                                                                         *)
(* RingQueue turns these operators into a specification, CkRing implements *)
(* it, EgCkLog and EgMempool use the operators as the step of a ring call. *)
(***************************************************************************)
EXTENDS Sequences, Naturals

\* ck_ring_init: no ticket at all.
EmptyRing == [queue |-> <<>>, pending |-> <<>>]

\* p_head - c_head: tickets that occupy a slot, published or not.
Occupied(r) == Len(r.queue) + Len(r.pending)

\* The bound every producer respects: p_head - c_head never exceeds mask.
RingFull(r, capacity) == Occupied(r) >= capacity

\* What a consumer calls empty: nothing published, whatever is pending.
RingEmpty(r) == r.queue = <<>>

\* The CAS of p_head: producer t owns the next ticket and will store v in it.
ReserveTicket(r, t, v) == [r EXCEPT !.pending = Append(@, [by |-> t, val |-> v])]

\* p_tail = producer: all earlier tickets are published, t's is the next one.
MayPublish(r, t) == r.pending # <<>> /\ Head(r.pending).by = t

\* The store of p_tail.
PublishTicket(r) == [queue   |-> Append(r.queue, Head(r.pending).val),
                     pending |-> Tail(r.pending)]

\* The CAS of c_head.
TakeHead(r) == [r EXCEPT !.queue = Tail(@)]

\* All values in a ring, published or pending, oldest first.
Contents(r) == r.queue \o [i \in 1 .. Len(r.pending) |-> r.pending[i].val]

\* Where value v is in a family of rings: a ring and a place in it, each time.
PlacesIn(rings, v) ==
  {e \in UNION {{g} \X DOMAIN Contents(rings[g]) : g \in DOMAIN rings} :
     Contents(rings[e[1]])[e[2]] = v}
=============================================================================
