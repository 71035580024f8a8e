----------------------------- MODULE EgMempool -----------------------------
(***************************************************************************)
(* test_example1/eg_mempool.c: buffers of memory kept for reuse, in one    *)
(* ring for each power-of-two size class ("grid").                         *)
(*                                                                         *)
(* eg_mempool_get takes a buffer from the ring of the size's grid, or, if  *)
(* it finds none, allocates one; the byte before the pointer it returns    *)
(* records the grid. eg_mempool_reclaim_ex reads that byte and puts the    *)
(* pointer back into its ring; eg_mempool_reclaim is told the size, writes *)
(* the grid into the first byte of the caller's memory and puts the        *)
(* pointer after it into the ring. Ring calls are the steps of RingOps.    *)
(*                                                                         *)
(* A buffer that finds its ring full is passed to free. Its pointer is at  *)
(* least one byte into the block, so that is no pointer malloc returned,   *)
(* and what the program does from there on is undefined (glibc aborts it): *)
(* "up" is FALSE and no step follows.                                      *)
(*                                                                         *)
(* A block is one malloc; its pointer is an offset into it that only       *)
(* grows, so one header is enough: the byte before the current pointer.    *)
(***************************************************************************)
EXTENDS RingOps, Integers, FiniteSets

CONSTANTS Users,          \* who holds a buffer; a thread with n buffers is n users
          Sizes,          \* the sizes they ask for
          Reclaims,       \* how they give back: "reclaim", "reclaim_ex"
          Blocks,         \* bound: the blocks malloc can return
          MaxGets,        \* bound: how many calls of eg_mempool_get are made
          GridsCount,     \* EG_MEMPOOL_GRIDS_COUNT
          NoBlock

\* The size of an empty message has no logarithm, and sizes from 2^21 on have
\* no ring: what the code does with them is undefined.
ASSUME SizesAssumption == Sizes \subseteq 1 .. 2^(GridsCount + 5) - 1
ASSUME ReclaimsAssumption == Reclaims \subseteq {"reclaim", "reclaim_ex"}
ASSUME CountsAssumption == GridsCount \in {2, 4, 8, 16} /\ MaxGets \in Nat
ASSUME NoBlockAssumption == NoBlock \notin Blocks

VARIABLES ring,     \* ring[g]: the pointers of grid g, as blocks
          block,    \* block[b]: its allocated size, pointer and header
          pc,       \* pc[u]: what u is doing
          hand,     \* hand[u]: the block u has got and not given back
          want,     \* want[u]: the size u asked for
          most,     \* history: the most buffers that were in use at once
          up,       \* no pointer was passed to free
          gets      \* how many calls of eg_mempool_get were made

vars == <<ring, block, pc, hand, want, most, up, gets>>

GridSet == 0 .. GridsCount - 1

\* eg_mempool_init gives its rings as many slots as there are grids, although
\* it allocates buffers of EG_MEMPOOL_QUEUE_CAPACITY slots for them.
RingSize == GridsCount

LOG2(x) == CHOOSE k \in 0 .. 31 : 2^k <= x /\ x < 2^(k + 1)

\* Mutant of eg_mempool_size_to_grid: grids start one power of two too late.
StartsTooLate(size) == IF LOG2(size) - 6 < 0 THEN 0 ELSE LOG2(size) - 6

eg_mempool_size_to_grid(size) == IF LOG2(size) - 5 < 0 THEN 0 ELSE LOG2(size) - 5

\* POW2_NEAREST(size + 1): the power of two above size.
AllocatedFor(size) == 2^(LOG2(size) + 1)

Unallocated == [alloc |-> 0, off |-> 0, hdr |-> 0]

Init ==
  /\ ring = [g \in GridSet |-> EmptyRing]
  /\ block = [b \in Blocks |-> Unallocated]
  /\ pc = [u \in Users |-> "idle"]
  /\ hand = [u \in Users |-> NoBlock]
  /\ want = [u \in Users |-> 0]
  /\ most = 0
  /\ up = TRUE
  /\ gets = 0

Fresh == {b \in Blocks : block[b] = Unallocated}

\* Who has buffer b, until the ring call that gives it back has ended.
Holders(b) == {u \in Users : hand[u] = b}

Using(b) == {u \in Holders(b) : pc[u] = "using"}

Taken == {b \in Blocks : Holders(b) # {}}

\* eg_mempool_get returns block b.
Gets(u, size, b) ==
  /\ up
  /\ pc[u] = "idle"
  /\ gets < MaxGets
  /\ gets' = gets + 1
  /\ pc' = [pc EXCEPT ![u] = "using"]
  /\ want' = [want EXCEPT ![u] = size]
  /\ hand' = [hand EXCEPT ![u] = b]
  /\ most' = IF Cardinality(Taken') > most THEN Cardinality(Taken') ELSE most
  /\ UNCHANGED up

\* Mutant of GetPooled: hands out the head of the ring and leaves it there.
PeeksPooled(u, size) ==
  LET g == eg_mempool_size_to_grid(size) IN
  /\ ~ RingEmpty(ring[g])
  /\ Gets(u, size, Head(ring[g].queue))
  /\ UNCHANGED <<ring, block>>

\* eg_mempool_get, a buffer is there
GetPooled(u, size) ==
  LET g == eg_mempool_size_to_grid(size) IN
  /\ ~ RingEmpty(ring[g])
  /\ Gets(u, size, Head(ring[g].queue))
  /\ ring' = [ring EXCEPT ![g] = TakeHead(@)]
  /\ UNCHANGED block

\* eg_mempool_malloc, of a block for grid g
Mallocs(u, size, g) ==
  \E b \in Fresh :
    /\ Gets(u, size, b)
    /\ block' = [block EXCEPT ![b] =
                   [alloc |-> AllocatedFor(size), off |-> 1, hdr |-> g]]

\* Mutant of GetFresh: does not look into the ring.
AllocatesAlways(u, size) ==
  /\ Mallocs(u, size, eg_mempool_size_to_grid(size))
  /\ UNCHANGED ring

\* eg_mempool_get, none is there
GetFresh(u, size) ==
  LET g == eg_mempool_size_to_grid(size) IN
  /\ RingEmpty(ring[g])
  /\ Mallocs(u, size, g)
  /\ UNCHANGED ring

\* eg_mempool_reclaim_grid: the ticket of a successful enqueue, or free, from
\* which the program does not come back.
ReclaimGrid(u, g) ==
  /\ up
  /\ pc[u] = "using"
  /\ \/ /\ ~ RingFull(ring[g], RingSize - 1)
        /\ ring' = [ring EXCEPT ![g] = ReserveTicket(@, u, hand[u])]
        /\ pc' = [pc EXCEPT ![u] = "publish"]
        /\ UNCHANGED up
     \/ /\ RingFull(ring[g], RingSize - 1)
        /\ up' = FALSE
        /\ UNCHANGED <<ring, pc>>
  /\ UNCHANGED <<hand, want, most, gets>>

\* Mutant of Reclaim: puts the next pointer into the ring without a header.
NoHeader(u) ==
  /\ "reclaim" \in Reclaims
  /\ ReclaimGrid(u, eg_mempool_size_to_grid(want[u]))
  /\ block' = [block EXCEPT ![hand[u]].off = @ + 1, ![hand[u]].hdr = GridsCount]

\* eg_mempool_reclaim, with the size that was asked for
Reclaim(u) ==
  LET g == eg_mempool_size_to_grid(want[u]) IN
  /\ "reclaim" \in Reclaims
  /\ ReclaimGrid(u, g)
  /\ block' = [block EXCEPT ![hand[u]].off = @ + 1, ![hand[u]].hdr = g]

\* eg_mempool_reclaim_ex
ReclaimEx(u) ==
  /\ "reclaim_ex" \in Reclaims
  /\ ReclaimGrid(u, block[hand[u]].hdr)
  /\ UNCHANGED block

\* The end of the ring call that gives a buffer back.
PublishReclaimed(u) ==
  /\ up
  /\ pc[u] = "publish"
  /\ \E g \in GridSet :
       /\ MayPublish(ring[g], u)
       /\ ring' = [ring EXCEPT ![g] = PublishTicket(@)]
  /\ pc' = [pc EXCEPT ![u] = "idle"]
  /\ hand' = [hand EXCEPT ![u] = NoBlock]
  /\ want' = [want EXCEPT ![u] = 0]
  /\ UNCHANGED <<block, most, up, gets>>

Next ==
  \E u \in Users :
    \/ \E size \in Sizes : GetPooled(u, size) \/ GetFresh(u, size)
    \/ Reclaim(u) \/ ReclaimEx(u)
    \/ PublishReclaimed(u)

Spec == Init /\ [][Next]_vars

----------------------------------------------------------------------------
(* Invariants *)

TypeOK ==
  /\ \A g \in GridSet :
       /\ ring[g].queue \in Seq(Blocks)
       /\ ring[g].pending \in Seq([by : Users, val : Blocks])
  /\ block \in [Blocks -> [alloc : Nat, off : Nat, hdr : GridSet]]
  /\ pc \in [Users -> {"idle", "using", "publish"}]
  /\ hand \in [Users -> Blocks \cup {NoBlock}]
  /\ want \in [Users -> Sizes \cup {0}]
  /\ most \in 0 .. MaxGets
  /\ up \in BOOLEAN
  /\ gets \in 0 .. MaxGets

\* A buffer is used by one thread or is in one ring: it is never handed out
\* twice, and never pooled twice.
EveryBlockOnce ==
  \A b \in Blocks :
    Cardinality(PlacesIn(ring, b)) + Cardinality(Using(b)) =
      IF block[b] = Unallocated THEN 0 ELSE 1

\* The byte before a pooled buffer names the ring it is in, whichever of the
\* two ways it came back, so the next eg_mempool_reclaim_ex finds its grid.
HeaderIsGrid ==
  \A g \in GridSet :
    \A n \in DOMAIN Contents(ring[g]) : block[Contents(ring[g])[n]].hdr = g

\* A buffer got for 64 bytes or more, although it was allocated for another size
\* of the grid, is too short by no more than the byte that each eg_mempool_reclaim
\* it went through took from it: off - 1 bytes.
ShortByItsMoves ==
  \A u \in Users :
    pc[u] = "using" /\ want[u] >= 64
    => block[hand[u]].alloc - block[hand[u]].off >= want[u] - (block[hand[u]].off - 1)

\* A pooled buffer comes back to its own ring, and from grid 1 on it lacks no more
\* of what is asked for there than eg_mempool_reclaim took.
BuffersFit == HeaderIsGrid /\ ShortByItsMoves

----------------------------------------------------------------------------
(* The pool this implements. *)

HolderCounts == [b \in Blocks |-> Cardinality(Holders(b))]

BP == INSTANCE BufferPool WITH users <- HolderCounts, Capacity <- RingSize - 1

\* Whatever the rings hold and whichever way buffers come back, a thread that
\* gets a buffer is the only one that uses it until it has given it back, and no
\* pointer is passed to free unless more buffers than one ring holds were in use
\* at once.
ImplementsBufferPool == BP!Spec
=============================================================================
