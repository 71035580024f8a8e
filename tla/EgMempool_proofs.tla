--------------------------- MODULE EgMempool_proofs ---------------------------
(***************************************************************************)
(* Proofs about EgMempool, for any sets of threads and blocks, any sizes   *)
(* that have a ring, and any number of calls.                              *)
(***************************************************************************)
EXTENDS EgMempool, RingOps_proofs

----------------------------------------------------------------------------
(* What makes the invariants inductive *)

\* A thread has a block while it uses it or gives it back, and knows the size
\* it asked for while it uses it.
HandsInv ==
  \A u \in Users :
    /\ pc[u] # "idle" => hand[u] \in Blocks
    /\ pc[u] = "idle" => hand[u] = NoBlock
    /\ pc[u] = "using" => want[u] \in Sizes

\* Each block is in finitely many places.
PlacesFinite ==
  \A b \in Blocks : IsFiniteSet(PlacesIn(ring, b)) /\ IsFiniteSet(Using(b))

\* The block has the size of a request of the grid its header names, wherever
\* its pointer is.
SizedForGrid(b) ==
  /\ block[b].off >= 1
  /\ \E size \in Sizes : block[b].alloc = AllocatedFor(size)
                         /\ block[b].hdr = eg_mempool_size_to_grid(size)

AllocatedForGrid == \A b \in Blocks : block[b] = Unallocated \/ SizedForGrid(b)

\* A block in use has the header of the ring it was taken from, or would have been.
HeldHeader ==
  \A u \in Users :
    pc[u] = "using" => block[hand[u]].hdr = eg_mempool_size_to_grid(want[u])

\* Nobody else has a thread's block, also while it is given back. Then its ticket
\* is pending, and it is not in the queue yet.
PublishInv ==
  /\ \A u, v \in Users : hand[u] # NoBlock /\ hand[u] = hand[v] => u = v
  /\ \A u \in Users : pc[u] # "idle" => block[hand[u]] # Unallocated
  /\ \A g \in GridSet : \A n \in DOMAIN ring[g].pending :
       ring[g].pending[n] \in {e \in Tickets(Users, Blocks) :
                                pc[e.by] = "publish" /\ hand[e.by] = e.val}
  /\ \A u \in Users, g \in GridSet :
       pc[u] = "publish" => \A n \in DOMAIN ring[g].queue :
                              ring[g].queue[n] \in {b \in Blocks : b # hand[u]}

\* The blocks of grid g.
Of(g) == {b \in Blocks : block[b] # Unallocated /\ block[b].hdr = g}

\* A block is allocated only when all others of its grid are in use: a grid never
\* has more blocks than were in use at once.
CountInv ==
  /\ IsFiniteSet(Taken) /\ Cardinality(Taken) <= gets
  /\ most \in Nat
  /\ \A g \in GridSet : IsFiniteSet(Of(g)) /\ Cardinality(Of(g)) <= most

IInv ==
  /\ TypeOK
  /\ ring \in [GridSet -> Rings(Users, Blocks)]
  /\ HandsInv
  /\ PlacesFinite
  /\ EveryBlockOnce
  /\ HeaderIsGrid
  /\ AllocatedForGrid
  /\ HeldHeader
  /\ PublishInv
  /\ CountInv

----------------------------------------------------------------------------
(* The size classes *)

\* Powers of two, kept apart from 2^k so that the provers see only this table.
pow(k) == 2^k

\* The powers that a size with a ring can lie between.
LEMMA Powers ==
  /\ pow(0) = 1 /\ pow(1) = 2 /\ pow(2) = 4 /\ pow(3) = 8 /\ pow(4) = 16 /\ pow(5) = 32
  /\ pow(6) = 64 /\ pow(7) = 128 /\ pow(8) = 256 /\ pow(9) = 512 /\ pow(10) = 1024
  /\ pow(11) = 2048 /\ pow(12) = 4096 /\ pow(13) = 8192 /\ pow(14) = 16384
  /\ pow(15) = 32768 /\ pow(16) = 65536 /\ pow(17) = 131072 /\ pow(18) = 262144
  /\ pow(19) = 524288 /\ pow(20) = 1048576 /\ pow(21) = 2097152 /\ pow(22) = 4194304
  /\ pow(23) = 8388608 /\ pow(24) = 16777216 /\ pow(25) = 33554432 /\ pow(26) = 67108864
  /\ pow(27) = 134217728 /\ pow(28) = 268435456 /\ pow(29) = 536870912
  /\ pow(30) = 1073741824 /\ pow(31) = 2147483648 /\ pow(32) = 4294967296
BY SMT DEF pow

\* The last ring that CountsAssumption allows is for sizes below 2^21.
LEMMA SizeBounds ==
  ASSUME NEW size \in Sizes
  PROVE  size \in Nat \ {0} /\ size < pow(GridsCount + 5)
                           /\ GridsCount + 5 \in {7, 9, 13, 21}
<1>1. size \in 1 .. pow(GridsCount + 5) - 1
  BY SizesAssumption DEF pow
<1>2. GridsCount + 5 \in {7, 9, 13, 21}
  BY CountsAssumption
<1>3. pow(GridsCount + 5) \in Nat
  BY <1>2, Powers, SMT
<1>. QED BY <1>1, <1>2, <1>3

\* LOG2 finds the power of two a size starts at.
LEMMA LogIs ==
  ASSUME NEW size \in Sizes
  PROVE  /\ LOG2(size) \in 0 .. GridsCount + 4
         /\ pow(LOG2(size)) <= size /\ size < pow(LOG2(size) + 1)
         /\ pow(LOG2(size)) \in Nat /\ pow(LOG2(size) + 1) \in Nat
<1>. DEFINE k == LOG2(size)
<1>1. size \in Nat \ {0} /\ size < pow(GridsCount + 5) /\ GridsCount + 5 \in {7, 9, 13, 21}
  BY SizeBounds
<1>2. size < 2097152
  BY <1>1, Powers, SMT
<1>3. \E m \in 0 .. 31 : pow(m) <= size /\ size < pow(m + 1)
  BY <1>1, <1>2, Powers, SMT
<1>4. k \in 0 .. 31 /\ pow(k) <= size /\ size < pow(k + 1)
  BY <1>3 DEF LOG2, pow
<1>. HIDE DEF k
<1>5. pow(k) \in Nat /\ pow(k + 1) \in Nat
  BY <1>4, Powers, SMT
<1>6. k <= 20
  BY <1>1, <1>2, <1>4, Powers, SMT
<1>7. k < GridsCount + 5
  <2>5. k \in 0 .. 31
    BY <1>4
  <2>1. CASE GridsCount + 5 = 7
    BY <1>1, <1>4, <1>6, <2>1, Powers, SMT
  <2>2. CASE GridsCount + 5 = 9
    BY <1>1, <1>4, <1>6, <2>2, Powers, SMT
  <2>3. CASE GridsCount + 5 = 13
    BY <1>1, <1>4, <1>6, <2>3, Powers, SMT
  <2>4. CASE GridsCount + 5 = 21
    BY <1>6, <2>4, <2>5, CountsAssumption
  <2>. QED BY <1>1, <2>1, <2>2, <2>3, <2>4, <2>5, CountsAssumption
<1>8. k \in 0 .. GridsCount + 4
  BY <1>4, <1>7, CountsAssumption
<1>. QED BY <1>4, <1>5, <1>8 DEF k

\* Each size has a ring, and eg_mempool_malloc finds a size for it.
LEMMA GridIs ==
  ASSUME NEW size \in Sizes
  PROVE  eg_mempool_size_to_grid(size) \in GridSet /\ AllocatedFor(size) \in Nat
<1>1. LOG2(size) \in 0 .. GridsCount + 4 /\ pow(LOG2(size) + 1) \in Nat
  BY LogIs
<1>2. AllocatedFor(size) \in Nat
  BY <1>1 DEF AllocatedFor, pow
<1>3. eg_mempool_size_to_grid(size) \in GridSet
  BY <1>1, CountsAssumption DEF eg_mempool_size_to_grid, GridSet
<1>. QED BY <1>2, <1>3

\* From grid 1 on a grid is one power of two: a buffer allocated for one size of
\* a grid has room for every size of that grid, and the header.
LEMMA GridIsOnePower ==
  ASSUME NEW size \in Sizes, NEW other \in Sizes, size >= 64,
         eg_mempool_size_to_grid(size) = eg_mempool_size_to_grid(other)
  PROVE  AllocatedFor(other) - 1 >= size
<1>. DEFINE k == LOG2(size)
            m == LOG2(other)
<1>1. k \in 0 .. GridsCount + 4 /\ m \in 0 .. GridsCount + 4
  BY LogIs
<1>2. pow(k) <= size /\ size < pow(k + 1) /\ pow(k + 1) \in Nat /\ size \in Nat
  BY LogIs, SizeBounds
<1>3. (IF k - 5 < 0 THEN 0 ELSE k - 5) = (IF m - 5 < 0 THEN 0 ELSE m - 5)
  BY DEF eg_mempool_size_to_grid
<1>4. AllocatedFor(other) = pow(m + 1)
  BY DEF AllocatedFor, pow
<1>. HIDE DEF k, m
<1>5. k \in Nat /\ k >= 6
  <2>1. \A n \in 0 .. 5 : pow(n + 1) <= 64
    BY Powers, SMT
  <2>. QED BY <1>1, <1>2, <2>1, CountsAssumption
<1>6. m = k
  BY <1>1, <1>3, <1>5, CountsAssumption
<1>. QED BY <1>2, <1>4, <1>6

----------------------------------------------------------------------------
(* Where blocks are *)

\* The block each thread uses.
InUse == [u \in Users |-> IF pc[u] = "using" THEN hand[u] ELSE NoBlock]

\* A buffer is in places that can be counted: in rings, with threads.
LEMMA Places ==
  ASSUME PlacesFinite, NEW b \in Blocks
  PROVE  Cardinality(PlacesIn(ring, b)) \in Nat /\ Cardinality(Using(b)) \in Nat
BY FS_CardinalityType DEF PlacesFinite

\* A buffer in use is allocated, and nowhere else.
LEMMA UsedOnce ==
  ASSUME IInv, NEW u \in Users, pc[u] = "using", NEW b, b = hand[u]
  PROVE  /\ b \in Blocks /\ block[b] # Unallocated
         /\ Cardinality(PlacesIn(ring, b)) = 0 /\ Cardinality(Using(b)) = 1
<1>1. b \in Blocks /\ PlacesFinite
  BY DEF IInv, HandsInv
<1>2. Cardinality(PlacesIn(ring, b)) \in Nat /\ Cardinality(Using(b)) \in Nat
  BY <1>1, Places
<1>3. Cardinality(Using(b)) # 0
  <2>1. u \in Using(b) /\ IsFiniteSet(Using(b))
    BY <1>1 DEF Using, Holders, PlacesFinite
  <2>. QED BY <2>1, FS_EmptySet
<1>4. Cardinality(PlacesIn(ring, b)) + Cardinality(Using(b)) =
        IF block[b] = Unallocated THEN 0 ELSE 1
  BY <1>1 DEF IInv, EveryBlockOnce
<1>. QED BY <1>1, <1>2, <1>3, <1>4

\* A pooled buffer is allocated, and nowhere else.
LEMMA PooledOnce ==
  ASSUME IInv, NEW g \in GridSet, NEW n \in DOMAIN Contents(ring[g]), NEW b,
         b = Contents(ring[g])[n]
  PROVE  /\ b \in Blocks /\ block[b] # Unallocated /\ block[b].hdr = g
         /\ Cardinality(PlacesIn(ring, b)) = 1 /\ Cardinality(Using(b)) = 0
<1>1. PlacesFinite /\ DOMAIN ring = GridSet /\ ring[g] \in Rings(Users, Blocks)
  BY DEF IInv
<1>2. b \in Blocks
  <2>1. Contents(ring[g]) \in Seq(Blocks)
    BY <1>1, ContentsIsSeq
  <2>. QED BY <2>1, LenProperties, ElementOfSeq
<1>3. Cardinality(PlacesIn(ring, b)) \in Nat /\ Cardinality(Using(b)) \in Nat
  BY <1>1, <1>2, Places
<1>4. Cardinality(PlacesIn(ring, b)) # 0
  <2>1. IsFiniteSet(PlacesIn(ring, b)) /\ g \in DOMAIN ring
    BY <1>1, <1>2 DEF PlacesFinite
  <2>2. Cardinality(PlacesIn(ring, b)) \in Nat \ {0}
    BY <2>1, HasPlace
  <2>. QED BY <2>2
<1>5. Cardinality(PlacesIn(ring, b)) + Cardinality(Using(b)) =
        IF block[b] = Unallocated THEN 0 ELSE 1
  BY <1>2 DEF IInv, EveryBlockOnce
<1>6. block[b].hdr = g
  BY DEF IInv, HeaderIsGrid
<1>. QED BY <1>2, <1>3, <1>4, <1>5, <1>6

\* A pooled buffer has one place only.
LEMMA OnlyPlace ==
  ASSUME IInv, NEW g \in GridSet, NEW n \in DOMAIN Contents(ring[g]),
         NEW h \in GridSet, NEW m \in DOMAIN Contents(ring[h]),
         Contents(ring[g])[n] = Contents(ring[h])[m]
  PROVE  g = h /\ n = m
<1>. DEFINE b == Contents(ring[g])[n]
<1>1. b \in Blocks /\ Cardinality(PlacesIn(ring, b)) = 1
  BY PooledOnce
<1>2. IsFiniteSet(PlacesIn(ring, b)) /\ DOMAIN ring = GridSet
  BY <1>1 DEF IInv, PlacesFinite
<1>3. <<g, n>> \in PlacesIn(ring, b) /\ <<h, m>> \in PlacesIn(ring, b)
  BY <1>2, PlaceIs DEF Hits
<1>. HIDE DEF b
<1>4. PICK x : PlacesIn(ring, b) = {x}
  BY <1>1, <1>2, FS_Singleton
<1>5. <<g, n>> = <<h, m>>
  BY <1>3, <1>4
<1>. QED BY <1>5

\* The place of a pending ticket, and of a published buffer, among all of a ring.
LEMMA PlaceInContents ==
  ASSUME IInv, NEW g \in GridSet
  PROVE  /\ \A n \in DOMAIN ring[g].queue :
              n \in DOMAIN Contents(ring[g]) /\ Contents(ring[g])[n] = ring[g].queue[n]
         /\ \A n \in DOMAIN ring[g].pending :
              /\ Len(ring[g].queue) + n \in DOMAIN Contents(ring[g])
              /\ Contents(ring[g])[Len(ring[g].queue) + n] = ring[g].pending[n].val
         /\ \A k \in DOMAIN Contents(ring[g]) :
              \/ k \in DOMAIN ring[g].queue
              \/ k - Len(ring[g].queue) \in DOMAIN ring[g].pending
<1>. DEFINE c == Contents(ring[g])
            p == ring[g].pending
            q == ring[g].queue
<1>1. ring[g] \in Rings(Users, Blocks)
  BY DEF IInv
<1>2. /\ q \in Seq(Blocks) /\ Len(q) \in Nat /\ p \in Seq(Tickets(Users, Blocks)) /\ Len(p) \in Nat
      /\ c \in Seq(Blocks) /\ Len(c) = Len(q) + Len(p)
  BY <1>1, RingFields, ContentsIsSeq
<1>3. /\ \A n \in 1 .. Len(q) : c[n] = q[n]
      /\ \A n \in 1 .. Len(p) : c[Len(q) + n] = p[n].val
  BY <1>1, ContentsPublished, ContentsPending
<1>. HIDE DEF c, p, q
<1>4. DOMAIN c = 1 .. Len(q) + Len(p) /\ DOMAIN q = 1 .. Len(q) /\ DOMAIN p = 1 .. Len(p)
  BY <1>2, LenProperties
<1>5. /\ \A n \in DOMAIN q : n \in DOMAIN c /\ c[n] = q[n]
      /\ \A n \in DOMAIN p : Len(q) + n \in DOMAIN c /\ c[Len(q) + n] = p[n].val
      /\ \A k \in DOMAIN c : k \in DOMAIN q \/ k - Len(q) \in DOMAIN p
  BY <1>2, <1>3, <1>4
<1>. QED BY <1>5 DEF c, p, q

\* The head of a ring is pooled, and in nobody's hands.
LEMMA HeadPooled ==
  ASSUME IInv, NEW g \in GridSet, ring[g].queue # <<>>, NEW b, b = Head(ring[g].queue)
  PROVE  /\ b \in Blocks /\ block[b] # Unallocated /\ block[b].hdr = g
         /\ Cardinality(PlacesIn(ring, b)) = 1 /\ Cardinality(Using(b)) = 0 /\ Holders(b) = {}
<1>1. ring[g] \in Rings(Users, Blocks)
  BY DEF IInv
<1>2. 1 \in DOMAIN ring[g].queue /\ ring[g].queue[1] = b
  <2>1. ring[g].queue \in Seq(Blocks) /\ Len(ring[g].queue) \in Nat /\ Len(ring[g].queue) > 0
        /\ b = ring[g].queue[1]
    BY <1>1, RingFields
  <2>. QED BY <2>1, LenProperties
<1>3. 1 \in DOMAIN Contents(ring[g]) /\ Contents(ring[g])[1] = b
  BY <1>2, PlaceInContents
<1>4. /\ b \in Blocks /\ block[b] # Unallocated /\ block[b].hdr = g
      /\ Cardinality(PlacesIn(ring, b)) = 1 /\ Cardinality(Using(b)) = 0
  BY <1>3, PooledOnce
<1>5. ASSUME NEW u \in Holders(b) PROVE FALSE
  <2>1. u \in Users /\ hand[u] = b
    BY DEF Holders
  <2>2. pc[u] # "idle"
    BY <1>4, <2>1, NoBlockAssumption DEF IInv, HandsInv
  <2>3. pc[u] # "publish"
    BY <1>2, <2>1 DEF IInv, PublishInv
  <2>4. pc[u] = "using"
    BY <2>1, <2>2, <2>3 DEF IInv, TypeOK
  <2>5. Cardinality(PlacesIn(ring, b)) = 0
    BY <2>1, <2>4, UsedOnce
  <2>. QED BY <1>4, <2>5
<1>. QED BY <1>4, <1>5

\* A block that malloc returns is in nobody's hands either.
LEMMA FreshUnheld ==
  ASSUME IInv, NEW b \in Fresh
  PROVE  /\ b \in Blocks /\ block[b] = Unallocated /\ Holders(b) = {}
         /\ Cardinality(PlacesIn(ring, b)) = 0 /\ Cardinality(Using(b)) = 0
<1>1. b \in Blocks /\ block[b] = Unallocated
  BY DEF Fresh
<1>2. Holders(b) = {}
  BY <1>1, NoBlockAssumption DEF IInv, HandsInv, PublishInv, Holders
<1>3. Cardinality(PlacesIn(ring, b)) \in Nat /\ Cardinality(Using(b)) \in Nat
  BY <1>1, Places DEF IInv
<1>4. Cardinality(PlacesIn(ring, b)) + Cardinality(Using(b)) = 0
  BY <1>1 DEF IInv, EveryBlockOnce
<1>. QED BY <1>1, <1>2, <1>3, <1>4

\* What happens to the users of b when one thread turns from one block to another.
UsingShift(b, from, to) ==
  /\ IsFiniteSet(Using(b)') /\ Cardinality(Using(b)') \in Nat
  /\ Cardinality(Using(b)') =
       Cardinality(Using(b)) - (IF from = b THEN 1 ELSE 0) + (IF to = b THEN 1 ELSE 0)

\* When one thread takes or gives a block, who uses which block changes so.
LEMMA UsingMoves ==
  ASSUME IInv, NEW u \in Users, NEW from, NEW to, InUse[u] = from, InUse'[u] = to,
         \A x \in Users : x # u => InUse'[x] = InUse[x], NEW b \in Blocks
  PROVE  UsingShift(b, from, to)
<1>. DEFINE K == {b}
<1>1. Using(b) = Hits(InUse, K) /\ Using(b)' = Hits(InUse', K)
  BY NoBlockAssumption DEF Using, Holders, InUse, Hits
<1>2. u \in DOMAIN InUse /\ DOMAIN InUse' = DOMAIN InUse
      /\ InUse'[u] = to /\ \A x \in DOMAIN InUse : x # u => InUse'[x] = InUse[x]
  <2>1. DOMAIN InUse = Users /\ DOMAIN InUse' = Users
    BY DEF InUse
  <2>. QED BY <2>1
<1>3. IsFiniteSet(Hits(InUse, K))
  BY <1>1 DEF IInv, PlacesFinite
<1>4. (InUse[u] \in K <=> from = b) /\ (to \in K <=> to = b)
  OBVIOUS
<1>. HIDE DEF K
<1>5. CountShift(InUse, u, to, K, InUse')
  BY <1>2, <1>3, CountMoves
<1>. QED BY <1>1, <1>4, <1>5 DEF CountShift, UsingShift

----------------------------------------------------------------------------
(* Giving a buffer back *)

BlockType == [alloc : Nat, off : Nat, hdr : GridSet]

\* A thread that uses a buffer knows the grid of its header.
LEMMA HeldGrid ==
  ASSUME IInv, NEW u \in Users, pc[u] = "using"
  PROVE  /\ hand[u] \in Blocks /\ want[u] \in Sizes /\ block[hand[u]] \in BlockType
         /\ block[hand[u]].hdr = eg_mempool_size_to_grid(want[u])
         /\ block[hand[u]].hdr \in GridSet /\ SizedForGrid(hand[u])
<1>1. hand[u] \in Blocks /\ block[hand[u]] # Unallocated /\ want[u] \in Sizes
  BY UsedOnce DEF IInv, HandsInv
<1>2. block[hand[u]] \in BlockType
  BY <1>1 DEF IInv, TypeOK, BlockType
<1>. QED BY <1>1, <1>2 DEF IInv, HeldHeader, AllocatedForGrid, BlockType

\* What eg_mempool_reclaim and eg_mempool_reclaim_ex do to the block: no more than
\* moving its pointer.
Moved(b) ==
  /\ block' \in [Blocks -> BlockType]
  /\ \A c \in Blocks : c # b => block'[c] = block[c]
  /\ block'[b].alloc = block[b].alloc /\ block'[b].hdr = block[b].hdr
  /\ block'[b].off >= 1

\* Both put the buffer into the ring its header names.
LEMMA ReclaimsMove ==
  ASSUME IInv, NEW u \in Users, Reclaim(u) \/ ReclaimEx(u)
  PROVE  pc[u] = "using" /\ ReclaimGrid(u, block[hand[u]].hdr) /\ Moved(hand[u])
<1>. DEFINE b == hand[u]
            g == eg_mempool_size_to_grid(want[u])
<1>1. pc[u] = "using"
  BY DEF Reclaim, ReclaimEx, ReclaimGrid
<1>2. /\ b \in Blocks /\ block[b] \in BlockType /\ block[b].hdr = g /\ g \in GridSet
      /\ block[b].off >= 1 /\ block \in [Blocks -> BlockType]
  BY <1>1, HeldGrid DEF IInv, TypeOK, BlockType, SizedForGrid
<1>3. CASE ReclaimEx(u)
  <2>1. ReclaimGrid(u, block[b].hdr) /\ block' = block
    BY <1>3 DEF ReclaimEx
  <2>. QED BY <1>1, <1>2, <2>1 DEF Moved
<1>4. CASE Reclaim(u)
  <2>1. ReclaimGrid(u, g) /\ block' = [block EXCEPT ![b].off = @ + 1, ![b].hdr = g]
    BY <1>4 DEF Reclaim
  <2>. HIDE DEF b, g
  <2>. DEFINE v == block[b]
              w == [v EXCEPT !.off = @ + 1]
              z == [w EXCEPT !.hdr = g]
  <2>2. v \in [alloc : Nat, off : Nat, hdr : GridSet]
    BY <1>2 DEF BlockType
  <2>3. /\ w \in [alloc : Nat, off : Nat, hdr : GridSet]
        /\ w.off = v.off + 1 /\ w.alloc = v.alloc
    BY <2>2
  <2>. HIDE DEF w
  <2>4. z \in BlockType /\ z.hdr = g /\ z.off = v.off + 1 /\ z.alloc = v.alloc
    BY <1>2, <2>3 DEF BlockType
  <2>5. block' = [block EXCEPT ![b] = z]
    BY <1>2, <2>1 DEF w
  <2>. HIDE DEF z
  <2>6. /\ block' \in [Blocks -> BlockType] /\ block'[b] = z
        /\ \A c \in Blocks : c # b => block'[c] = block[c]
    BY <1>2, <2>4, <2>5
  <2>7. z.off >= 1
    BY <1>2, <2>2, <2>4
  <2>. QED BY <1>1, <1>2, <2>1, <2>4, <2>6, <2>7 DEF Moved, b, v
<1>. QED BY <1>3, <1>4

\* Moving the pointer of a block in use leaves what is said of blocks true.
LEMMA MovedKeeps ==
  ASSUME IInv, NEW b \in Blocks, block[b] # Unallocated, Moved(b)
  PROVE  /\ \A c \in Blocks : /\ block'[c].hdr = block[c].hdr
                              /\ (block'[c] = Unallocated <=> block[c] = Unallocated)
         /\ AllocatedForGrid'
         /\ \A g \in GridSet : Of(g)' = Of(g)
<1>1. ASSUME NEW c \in Blocks
      PROVE  /\ block'[c].hdr = block[c].hdr /\ block'[c].alloc = block[c].alloc
             /\ (block'[c] = Unallocated <=> block[c] = Unallocated)
             /\ block'[c] = block[c] \/ block'[c].off >= 1
  BY <1>1 DEF Moved, Unallocated
<1>2. AllocatedForGrid'
  <2>. SUFFICES ASSUME NEW c \in Blocks, block'[c] # Unallocated
                PROVE  /\ block'[c].off >= 1
                       /\ \E size \in Sizes : block'[c].alloc = AllocatedFor(size)
                              /\ block'[c].hdr = eg_mempool_size_to_grid(size)
    BY DEF AllocatedForGrid, SizedForGrid, Unallocated, AllocatedFor, eg_mempool_size_to_grid, LOG2
  <2>1. SizedForGrid(c)
    BY <1>1 DEF IInv, AllocatedForGrid
  <2>. QED BY <1>1, <2>1 DEF SizedForGrid
<1>3. \A g \in GridSet : Of(g)' = Of(g)
  BY <1>1 DEF Of, Unallocated
<1>. QED BY <1>1, <1>2, <1>3

\* A ring that is full has a grid's worth of buffers, and one more is in the hand
\* that gives it back: more than RingSize - 1 were in use at once.
LEMMA FullRing ==
  ASSUME IInv, NEW u \in Users, pc[u] = "using", NEW g \in GridSet, g = block[hand[u]].hdr,
         RingFull(ring[g], RingSize - 1)
  PROVE  most > RingSize - 1
<1>. DEFINE b == hand[u]
            c == Contents(ring[g])
            f == [n \in 1 .. Len(c) + 1 |-> IF n <= Len(c) THEN c[n] ELSE b]
<1>1. /\ b \in Blocks /\ block[b] # Unallocated /\ Cardinality(PlacesIn(ring, b)) = 0
      /\ b \in Of(g)
  BY UsedOnce DEF Of
<1>2. ring[g] \in Rings(Users, Blocks)
  BY DEF IInv
<1>3. c \in Seq(Blocks) /\ Len(c) = Occupied(ring[g])
  BY <1>2, ContentsIsSeq DEF Occupied
<1>4. Len(c) \in Nat /\ DOMAIN c = 1 .. Len(c)
  <2>. HIDE DEF c
  <2>. QED BY <1>3, LenProperties
<1>5. \A n \in DOMAIN c : c[n] \in Of(g) /\ c[n] # b
  BY <1>1, PooledOnce DEF Of
<1>6. \A n, m \in DOMAIN c : c[n] = c[m] => n = m
  BY OnlyPlace
<1>7. Len(c) >= RingSize - 1
  BY <1>3 DEF RingFull
<1>. HIDE DEF b, c
<1>8. f \in Injection(1 .. Len(c) + 1, Of(g))
  <2>1. f \in [1 .. Len(c) + 1 -> Of(g)]
    BY <1>1, <1>4, <1>5
  <2>2. \A n, m \in 1 .. Len(c) + 1 : f[n] = f[m] => n = m
    BY <1>4, <1>5, <1>6
  <2>. QED BY <2>1, <2>2 DEF Injection, IsInjective
<1>. HIDE DEF f
<1>9. IsFiniteSet(Of(g)) /\ Cardinality(Of(g)) <= most /\ most \in Nat
  BY DEF IInv, CountInv
<1>10. Cardinality(1 .. Len(c) + 1) <= Cardinality(Of(g))
  BY <1>8, <1>9, FS_Injection
<1>11. Cardinality(1 .. Len(c) + 1) = Len(c) + 1
  <2>1. Len(c) + 1 \in Int /\ 1 \in Int /\ ~ (1 > Len(c) + 1) /\ (Len(c) + 1) - 1 + 1 = Len(c) + 1
    BY <1>4
  <2>. QED BY <2>1, FS_Interval
<1>12. Cardinality(Of(g)) \in Nat
  BY <1>9, FS_CardinalityType
<1>13. RingSize \in Nat
  BY CountsAssumption DEF RingSize
<1>. QED BY <1>4, <1>7, <1>9, <1>10, <1>11, <1>12, <1>13

\* The ring of the grid has no room: the program ends.
LEMMA OverflowInv ==
  ASSUME IInv, NEW u \in Users, pc[u] = "using", Moved(hand[u]),
         up' = FALSE, UNCHANGED <<ring, pc, hand, want, most, gets>>
  PROVE  IInv'
<1>. DEFINE b == hand[u]
<1>1. b \in Blocks /\ block[b] # Unallocated
  BY UsedOnce
<1>2. /\ \A c \in Blocks : /\ block'[c].hdr = block[c].hdr
                           /\ (block'[c] = Unallocated <=> block[c] = Unallocated)
      /\ AllocatedForGrid'
      /\ \A g \in GridSet : Of(g)' = Of(g)
  BY <1>1, MovedKeeps
<1>3. \A c \in Blocks : PlacesIn(ring, c)' = PlacesIn(ring, c) /\ Using(c)' = Using(c)
  BY DEF Using, Holders
<1>4. TypeOK' /\ HandsInv' /\ (ring \in [GridSet -> Rings(Users, Blocks)])'
  BY DEF IInv, TypeOK, HandsInv, Moved, BlockType, GridSet
<1>5. PlacesFinite'
  BY <1>3 DEF IInv, PlacesFinite
<1>6. EveryBlockOnce'
  BY <1>2, <1>3 DEF IInv, EveryBlockOnce, Unallocated
<1>7. HeaderIsGrid'
  <2>. SUFFICES ASSUME NEW h \in GridSet, NEW n \in DOMAIN Contents(ring[h])
                PROVE  block'[Contents(ring[h])[n]].hdr = h
    BY DEF HeaderIsGrid, GridSet
  <2>. QED BY <1>2, PooledOnce
<1>8. HeldHeader'
  <2>. SUFFICES ASSUME NEW v \in Users, pc[v] = "using"
                PROVE  block'[hand[v]].hdr = eg_mempool_size_to_grid(want[v])
    BY DEF HeldHeader, eg_mempool_size_to_grid, LOG2
  <2>. QED BY <1>2, HeldGrid
<1>9. PublishInv'
  <2>1. \A v \in Users : pc[v] # "idle" => block'[hand[v]] # Unallocated
    BY <1>2 DEF IInv, PublishInv, HandsInv
  <2>. QED BY <2>1 DEF IInv, PublishInv, Unallocated, GridSet
<1>10. CountInv'
  <2>1. Taken' = Taken
    BY DEF Taken, Holders
  <2>. QED BY <1>2, <2>1 DEF IInv, CountInv, GridSet
<1>. QED BY <1>2, <1>4, <1>5, <1>6, <1>7, <1>8, <1>9, <1>10 DEF IInv

\* The ticket of a buffer that is given back, in the ring its header names.
Reserved(u, g) ==
  /\ block[hand[u]].hdr = g
  /\ ring' = [ring EXCEPT ![g] = ReserveTicket(@, u, hand[u])]
  /\ pc' = [pc EXCEPT ![u] = "publish"]
  /\ UNCHANGED <<up, hand, want, most, gets>>

\* What the ring of that ticket is.
LEMMA TicketEntered ==
  ASSUME NEW x \in Rings(Users, Blocks), NEW t \in Users, NEW v \in Blocks,
         NEW y, y = [by |-> t, val |-> v], NEW z, z = ReserveTicket(x, t, v)
  PROVE  /\ z \in Rings(Users, Blocks)
         /\ z.queue = x.queue /\ z.pending = Append(x.pending, y)
         /\ Contents(z) = Append(Contents(x), v)
<1>1. /\ ReserveTicket(x, t, v) \in Rings(Users, Blocks)
      /\ ReserveTicket(x, t, v).queue = x.queue
      /\ ReserveTicket(x, t, v).pending = Append(x.pending, [by |-> t, val |-> v])
      /\ Len(ReserveTicket(x, t, v).pending) = Len(x.pending) + 1
  BY ReserveIsRing
<1>2. Contents(ReserveTicket(x, t, v)) = Append(Contents(x), v)
  BY ContentsOfReserve
<1>. QED BY <1>1, <1>2

\* The ring has room: the buffer is in its contents from the ticket on.
LEMMA GivenBack ==
  ASSUME IInv, NEW u \in Users, pc[u] = "using", NEW b, b = hand[u],
         NEW g \in GridSet, Moved(b), Reserved(u, g)
  PROVE  IInv'
<1>1. /\ b \in Blocks /\ block[b] # Unallocated
      /\ Cardinality(PlacesIn(ring, b)) = 0 /\ Cardinality(Using(b)) = 1
      /\ g \in GridSet
  BY UsedOnce, HeldGrid
<1>2. /\ \A c \in Blocks : /\ block'[c].hdr = block[c].hdr
                           /\ (block'[c] = Unallocated <=> block[c] = Unallocated)
      /\ AllocatedForGrid'
      /\ \A h \in GridSet : Of(h)' = Of(h)
  BY <1>1, MovedKeeps
<1>7. PICK r, e : r = ReserveTicket(ring[g], u, b) /\ e = [by |-> u, val |-> b]
  OBVIOUS
<1>3. /\ PlacesFinite /\ ring \in [GridSet -> Rings(Users, Blocks)]
      /\ pc \in [Users -> {"idle", "using", "publish"}] /\ ring' = [ring EXCEPT ![g] = r]
  BY <1>7 DEF IInv, TypeOK, Reserved
<1>4. /\ pc' \in [Users -> {"idle", "using", "publish"}] /\ pc'[u] = "publish"
      /\ \A v \in Users : v # u => pc'[v] = pc[v]
      /\ hand' = hand /\ want' = want /\ most' = most /\ gets' = gets /\ up' = up
  BY <1>3 DEF Reserved
<1>19. ring[g] \in Rings(Users, Blocks)
  BY <1>1, <1>3
<1>6. \A h \in GridSet : \A n \in DOMAIN Contents(ring[h]) :
        Contents(ring[h])[n] \in {c \in Blocks : block'[c].hdr = h /\ c # b}
  <2>. SUFFICES ASSUME NEW h \in GridSet, NEW n \in DOMAIN Contents(ring[h]), NEW c,
                       c = Contents(ring[h])[n]
                PROVE  c \in Blocks /\ block'[c].hdr = h /\ c # b
    OBVIOUS
  <2>1. c \in Blocks /\ block[c].hdr = h /\ Cardinality(PlacesIn(ring, c)) = 1
    BY PooledOnce
  <2>. QED BY <1>1, <1>2, <2>1
<1>20. /\ r \in Rings(Users, Blocks)
       /\ r.queue = ring[g].queue /\ r.pending = Append(ring[g].pending, e)
       /\ Contents(r) = Append(Contents(ring[g]), b)
  BY SMTT(60), <1>1, <1>7, <1>19, TicketEntered
<1>5. r.queue = ring[g].queue /\ r.pending = Append(ring[g].pending, e)
  BY <1>20
<1>21. Contents(ring[g]) \in Seq(Blocks)
  BY <1>19, ContentsIsSeq
<1>8. /\ ring' \in [GridSet -> Rings(Users, Blocks)]
      /\ DOMAIN ring = GridSet /\ DOMAIN ring' = DOMAIN ring /\ ring'[g] = r
      /\ \A h \in DOMAIN ring : h # g => ring'[h] = ring[h]
  BY <1>1, <1>3, <1>20, FamilyChanges
<1>9. TypeOK'
  <2>1. \A h \in GridSet :
          /\ ring'[h].queue \in Seq(Blocks)
          /\ ring'[h].pending \in Seq([by : Users, val : Blocks])
    BY <1>8, FamilyTyped
  <2>. QED BY <1>4, <2>1 DEF IInv, TypeOK, Moved, BlockType, GridSet
<1>10. HandsInv'
  BY <1>4 DEF IInv, HandsInv
<1>11. ASSUME NEW c \in Blocks
       PROVE  /\ IsFiniteSet(Using(c)') /\ Cardinality(Using(c)') \in Nat
              /\ Cardinality(Using(c)') = Cardinality(Using(c)) - (IF b = c THEN 1 ELSE 0)
  <2>1. /\ InUse[u] = b /\ InUse'[u] = NoBlock
        /\ \A v \in Users : v # u => InUse'[v] = InUse[v]
    BY <1>4 DEF InUse
  <2>2. UsingShift(c, b, NoBlock)
    BY <2>1, UsingMoves
  <2>3. Cardinality(Using(c)) \in Nat
    BY <1>3, Places
  <2>. QED BY <2>2, <2>3, NoBlockAssumption DEF UsingShift
<1>12. ASSUME NEW c \in Blocks
       PROVE  /\ IsFiniteSet(PlacesIn(ring, c)')
              /\ Cardinality(PlacesIn(ring, c)) \in Nat
              /\ Cardinality(PlacesIn(ring, c)') =
                   Cardinality(PlacesIn(ring, c)) + (IF b = c THEN 1 ELSE 0)
  <2>1. IsFiniteSet(PlacesIn(ring, c)) /\ ring'[g] = ReserveTicket(ring[g], u, b)
    BY <1>3, <1>7, <1>8 DEF PlacesFinite
  <2>2. PlacesMoved(ring, c, ring', IF b = c THEN 1 ELSE 0)
    BY <1>1, <1>8, <1>19, <2>1, PlacesReserve
  <2>. QED BY <2>2 DEF PlacesMoved
<1>13. PlacesFinite'
  BY <1>11, <1>12 DEF PlacesFinite
<1>14. EveryBlockOnce'
  <2>. SUFFICES ASSUME NEW c \in Blocks
                PROVE  Cardinality(PlacesIn(ring, c)') + Cardinality(Using(c)') =
                       IF block'[c] = Unallocated THEN 0 ELSE 1
    BY DEF EveryBlockOnce, Unallocated
  <2>1. Cardinality(PlacesIn(ring, c)) + Cardinality(Using(c)) =
          IF block[c] = Unallocated THEN 0 ELSE 1
    BY DEF IInv, EveryBlockOnce
  <2>2. Cardinality(PlacesIn(ring, c)) \in Nat /\ Cardinality(Using(c)) \in Nat
    BY <1>3, Places
  <2>3. Cardinality(PlacesIn(ring, c)') + Cardinality(Using(c)') =
          Cardinality(PlacesIn(ring, c)) + Cardinality(Using(c))
    BY <1>11, <1>12, <2>2
  <2>4. block'[c] = Unallocated <=> block[c] = Unallocated
    BY <1>2
  <2>. QED BY <2>1, <2>3, <2>4
<1>15. HeaderIsGrid'
  <2>. DEFINE K == {c \in Blocks : block'[c].hdr = g}
  <2>. SUFFICES ASSUME NEW h \in GridSet, NEW n \in DOMAIN Contents(ring'[h])
                PROVE  block'[Contents(ring'[h])[n]].hdr = h
    BY DEF HeaderIsGrid, GridSet
  <2>1. CASE h = g
    <3>1. \A m \in DOMAIN Contents(ring[g]) : Contents(ring[g])[m] \in K
      BY <1>1, <1>6
    <3>2. b \in K
      BY <1>1, <1>2 DEF Reserved
    <3>. HIDE DEF K
    <3>3. \A m \in DOMAIN Append(Contents(ring[g]), b) : Append(Contents(ring[g]), b)[m] \in K
      BY <1>1, <1>21, <3>1, <3>2, AllAppend
    <3>4. Contents(ring'[h])[n] \in K
      BY <1>8, <1>20, <2>1, <3>3
    <3>. QED BY <2>1, <3>4 DEF K
  <2>2. CASE h # g
    BY <1>6, <1>8, <2>2
  <2>. QED BY <2>1, <2>2
<1>16. HeldHeader'
  <2>. SUFFICES ASSUME NEW v \in Users, pc'[v] = "using"
                PROVE  block'[hand[v]].hdr = eg_mempool_size_to_grid(want[v])
    BY <1>4 DEF HeldHeader, eg_mempool_size_to_grid, LOG2
  <2>. QED BY <1>2, <1>4, HeldGrid
<1>17. PublishInv'
  <2>1. \A v \in Users : pc'[v] # "idle" => block'[hand[v]] # Unallocated
    BY <1>1, <1>2, <1>4 DEF IInv, PublishInv, HandsInv
  <2>2. ASSUME NEW h \in GridSet, NEW n \in DOMAIN ring'[h].pending
        PROVE  ring'[h].pending[n] \in {x \in Tickets(Users, Blocks) :
                                           pc'[x.by] = "publish" /\ hand[x.by] = x.val}
    <3>. DEFINE K == {x \in Tickets(Users, Blocks) : pc'[x.by] = "publish" /\ hand[x.by] = x.val}
                TS == Tickets(Users, Blocks)
    <3>1. \A k \in GridSet : \A m \in DOMAIN ring[k].pending : ring[k].pending[m] \in K
      <4>. SUFFICES ASSUME NEW k \in GridSet, NEW m \in DOMAIN ring[k].pending
                    PROVE  ring[k].pending[m] \in K
        OBVIOUS
      <4>. DEFINE x == ring[k].pending[m]
      <4>1. x \in Tickets(Users, Blocks) /\ pc[x.by] = "publish" /\ hand[x.by] = x.val
        BY DEF IInv, PublishInv
      <4>2. x.by \in Users /\ x.by # u
        BY <4>1 DEF Tickets
      <4>. QED BY <1>4, <4>1, <4>2
    <3>2. e \in K /\ e \in TS
      BY <1>1, <1>4, <1>7 DEF Tickets
    <3>3. ring[g].pending \in Seq(TS)
      BY <1>19, RingFields
    <3>. HIDE DEF K, TS
    <3>4. CASE h = g
      <4>1. \A m \in DOMAIN Append(ring[g].pending, e) : Append(ring[g].pending, e)[m] \in K
        BY <1>1, <3>1, <3>2, <3>3, AllAppend
      <4>. QED BY <1>5, <1>8, <2>2, <3>4, <4>1 DEF K
    <3>5. CASE h # g
      BY <1>8, <2>2, <3>1, <3>5 DEF K
    <3>. QED BY <3>4, <3>5
  <2>3. ASSUME NEW v \in Users, NEW h \in GridSet, pc'[v] = "publish",
               NEW n \in DOMAIN ring'[h].queue
        PROVE  ring'[h].queue[n] \in {c \in Blocks : c # hand[v]}
    <3>1. ring'[h].queue = ring[h].queue
      BY <1>5, <1>8
    <3>2. CASE v = u
      <4>1. n \in DOMAIN Contents(ring[h]) /\ Contents(ring[h])[n] = ring[h].queue[n]
        BY <2>3, <3>1, PlaceInContents
      <4>2. Contents(ring[h])[n] \in {c \in Blocks : c # b}
        BY <1>6, <4>1
      <4>. QED BY <3>1, <3>2, <4>1, <4>2
    <3>3. CASE v # u
      BY <1>4, <2>3, <3>1, <3>3 DEF IInv, PublishInv
    <3>. QED BY <3>2, <3>3
  <2>4. \A v, w \in Users : hand[v] # NoBlock /\ hand[v] = hand[w] => v = w
    BY DEF IInv, PublishInv
  <2>5. (\A v \in Users : pc[v] # "idle" => block[hand[v]] # Unallocated)'
    BY <1>4, <2>1 DEF Unallocated
  <2>6. (\A h \in GridSet : \A n \in DOMAIN ring[h].pending :
           ring[h].pending[n] \in {x \in Tickets(Users, Blocks) :
                                    pc[x.by] = "publish" /\ hand[x.by] = x.val})'
    BY <1>4, <2>2 DEF GridSet, Tickets
  <2>7. (\A v \in Users, h \in GridSet :
           pc[v] = "publish" => \A n \in DOMAIN ring[h].queue :
                                  ring[h].queue[n] \in {c \in Blocks : c # hand[v]})'
    BY <1>4, <2>3 DEF GridSet
  <2>. QED BY <1>4, <2>4, <2>5, <2>6, <2>7 DEF PublishInv
<1>18. CountInv'
  <2>1. Taken' = Taken
    BY <1>4 DEF Taken, Holders
  <2>. QED BY <1>2, <1>4, <2>1 DEF IInv, CountInv, GridSet
<1>. QED BY <1>2, <1>8, <1>9, <1>10, <1>13, <1>14, <1>15, <1>16, <1>17, <1>18 DEF IInv, GridSet

\* eg_mempool_reclaim and eg_mempool_reclaim_ex.
LEMMA ReclaimStep ==
  ASSUME IInv, NEW u \in Users, Reclaim(u) \/ ReclaimEx(u)
  PROVE  IInv'
<1>1. pc[u] = "using" /\ ReclaimGrid(u, block[hand[u]].hdr) /\ Moved(hand[u])
  BY ReclaimsMove
<1>2. block[hand[u]].hdr \in GridSet
  BY <1>1, HeldGrid
<1>3. CASE Reserved(u, block[hand[u]].hdr)
  BY <1>1, <1>2, <1>3, GivenBack
<1>4. CASE up' = FALSE /\ UNCHANGED <<ring, pc, hand, want, most, gets>>
  BY <1>1, <1>4, OverflowInv
<1>. QED BY <1>1, <1>3, <1>4 DEF ReclaimGrid, Reserved

----------------------------------------------------------------------------
(* Getting a buffer *)

\* What a call of eg_mempool_get that returns b does to the threads.
LEMMA Got ==
  ASSUME IInv, NEW u \in Users, NEW size \in Sizes, NEW b \in Blocks, Gets(u, size, b),
         Holders(b) = {}
  PROVE  /\ pc' \in [Users -> {"idle", "using", "publish"}]
         /\ hand' \in [Users -> Blocks \cup {NoBlock}] /\ want' \in [Users -> Sizes \cup {0}]
         /\ pc'[u] = "using" /\ hand'[u] = b /\ want'[u] = size
         /\ \A v \in Users : v # u => pc'[v] = pc[v] /\ hand'[v] = hand[v] /\ want'[v] = want[v]
         /\ pc[u] = "idle" /\ gets' \in 0 .. MaxGets /\ up \in BOOLEAN /\ up' = up
         /\ HandsInv'
         /\ \A v, w \in Users : hand'[v] # NoBlock /\ hand'[v] = hand'[w] => v = w
         /\ \A c \in Blocks : UsingShift(c, NoBlock, b)
<1>1. /\ pc \in [Users -> {"idle", "using", "publish"}]
      /\ hand \in [Users -> Blocks \cup {NoBlock}] /\ want \in [Users -> Sizes \cup {0}]
      /\ gets \in 0 .. MaxGets /\ MaxGets \in Nat /\ up \in BOOLEAN
  BY CountsAssumption DEF IInv, TypeOK
<1>2. /\ pc' \in [Users -> {"idle", "using", "publish"}]
      /\ hand' \in [Users -> Blocks \cup {NoBlock}] /\ want' \in [Users -> Sizes \cup {0}]
      /\ pc'[u] = "using" /\ hand'[u] = b /\ want'[u] = size /\ pc[u] = "idle"
      /\ \A v \in Users : v # u => pc'[v] = pc[v] /\ hand'[v] = hand[v] /\ want'[v] = want[v]
  BY <1>1 DEF Gets
<1>3. gets' \in 0 .. MaxGets /\ up' = up
  BY <1>1 DEF Gets
<1>4. HandsInv'
  BY <1>2 DEF IInv, HandsInv
<1>5. \A v, w \in Users : hand'[v] # NoBlock /\ hand'[v] = hand'[w] => v = w
  BY <1>2 DEF IInv, PublishInv, Holders
<1>6. /\ InUse[u] = NoBlock /\ InUse'[u] = b
      /\ \A v \in Users : v # u => InUse'[v] = InUse[v]
  BY <1>2 DEF InUse
<1>7. \A c \in Blocks : UsingShift(c, NoBlock, b)
  BY <1>6, UsingMoves
<1>. QED BY <1>1, <1>2, <1>3, <1>4, <1>5, <1>7

\* One more buffer is in use, and counted.
LEMMA OneMoreTaken ==
  ASSUME IInv, NEW u \in Users, NEW size \in Sizes, NEW b \in Blocks, Gets(u, size, b),
         Holders(b) = {}
  PROVE  /\ Taken' = Taken \cup {b} /\ b \notin Taken
         /\ IsFiniteSet(Taken') /\ Cardinality(Taken') <= gets'
         /\ most' \in 0 .. MaxGets /\ most <= most' /\ Cardinality(Taken') <= most'
<1>1. /\ hand'[u] = b /\ hand[u] = NoBlock
      /\ \A v \in Users : v # u => hand'[v] = hand[v]
  BY Got DEF IInv, HandsInv
<1>2. Taken' = Taken \cup {b} /\ b \notin Taken
  BY <1>1, NoBlockAssumption DEF Taken, Holders
<1>3. IsFiniteSet(Taken) /\ Cardinality(Taken) <= gets /\ Cardinality(Taken) \in Nat
  BY FS_CardinalityType DEF IInv, CountInv
<1>4. IsFiniteSet(Taken') /\ Cardinality(Taken') = Cardinality(Taken) + 1
  BY <1>2, <1>3, FS_AddElement
<1>5. /\ gets \in 0 .. MaxGets /\ gets' = gets + 1 /\ gets < MaxGets /\ MaxGets \in Nat
      /\ most \in 0 .. MaxGets
      /\ most' = IF Cardinality(Taken') > most THEN Cardinality(Taken') ELSE most
  BY CountsAssumption DEF IInv, TypeOK, Gets
<1>6. Cardinality(Taken') \in 0 .. MaxGets /\ Cardinality(Taken') <= gets'
  BY <1>3, <1>4, <1>5
<1>7. most' \in 0 .. MaxGets /\ most <= most' /\ Cardinality(Taken') <= most'
  BY <1>5, <1>6
<1>. QED BY <1>2, <1>4, <1>6, <1>7

\* eg_mempool_get finds a buffer in the ring of the size's grid.
LEMMA PooledStep ==
  ASSUME IInv, NEW u \in Users, NEW size \in Sizes, GetPooled(u, size)
  PROVE  IInv'
<1>. DEFINE g == eg_mempool_size_to_grid(size)
            b == Head(ring[g].queue)
            r == TakeHead(ring[g])
<1>1. g \in GridSet
  BY GridIs
<1>2. /\ Gets(u, size, b) /\ ring[g].queue # <<>>
      /\ ring' = [ring EXCEPT ![g] = r] /\ block' = block
  BY DEF GetPooled, RingEmpty
<1>3. /\ TypeOK /\ PlacesFinite /\ ring \in [GridSet -> Rings(Users, Blocks)]
      /\ block \in [Blocks -> BlockType]
  BY DEF IInv, TypeOK, BlockType
<1>4. /\ b \in Blocks /\ block[b] # Unallocated /\ block[b].hdr = g
      /\ Cardinality(PlacesIn(ring, b)) = 1 /\ Cardinality(Using(b)) = 0 /\ Holders(b) = {}
  BY <1>1, <1>2, HeadPooled
<1>5. /\ ring[g] \in Rings(Users, Blocks) /\ r \in Rings(Users, Blocks)
      /\ r.queue = Tail(ring[g].queue) /\ r.pending = ring[g].pending
      /\ ring[g].queue \in Seq(Blocks)
  <2>1. ring[g] \in Rings(Users, Blocks)
    BY <1>1, <1>3
  <2>2. r \in Rings(Users, Blocks) /\ r.queue = Tail(ring[g].queue) /\ r.pending = ring[g].pending
    BY <1>2, <2>1, TakeIsRing
  <2>3. ring[g].queue \in Seq(Blocks)
    BY <2>1, RingFields
  <2>. HIDE DEF r
  <2>. QED BY <2>1, <2>2, <2>3
<1>6. /\ Contents(ring[g]) \in Seq(Blocks) /\ Contents(ring[g]) # <<>>
      /\ Contents(r) = Tail(Contents(ring[g]))
  BY <1>2, <1>5, ContentsIsSeq, ContentsOfTake
<1>7. r = TakeHead(ring[g]) /\ b = Head(ring[g].queue)
  OBVIOUS
<1>. HIDE DEF b, r
<1>8. /\ ring' \in [GridSet -> Rings(Users, Blocks)]
      /\ DOMAIN ring = GridSet /\ DOMAIN ring' = DOMAIN ring /\ ring'[g] = r
      /\ \A h \in DOMAIN ring : h # g => ring'[h] = ring[h]
  BY <1>1, <1>2, <1>3, <1>5, FamilyChanges
<1>9. /\ pc' \in [Users -> {"idle", "using", "publish"}]
      /\ hand' \in [Users -> Blocks \cup {NoBlock}] /\ want' \in [Users -> Sizes \cup {0}]
      /\ pc'[u] = "using" /\ hand'[u] = b /\ want'[u] = size
      /\ \A v \in Users : v # u => pc'[v] = pc[v] /\ hand'[v] = hand[v] /\ want'[v] = want[v]
      /\ pc[u] = "idle" /\ gets' \in 0 .. MaxGets /\ up \in BOOLEAN /\ up' = up
      /\ HandsInv'
      /\ \A v, w \in Users : hand'[v] # NoBlock /\ hand'[v] = hand'[w] => v = w
      /\ \A c \in Blocks : UsingShift(c, NoBlock, b)
  BY <1>2, <1>4, Got
<1>18. /\ IsFiniteSet(Taken') /\ Cardinality(Taken') <= gets'
       /\ most' \in 0 .. MaxGets /\ most <= most'
  BY <1>2, <1>4, OneMoreTaken
<1>10. TypeOK'
  <2>1. \A h \in GridSet :
          /\ ring'[h].queue \in Seq(Blocks)
          /\ ring'[h].pending \in Seq([by : Users, val : Blocks])
    BY <1>8, FamilyTyped
  <2>. QED BY <1>2, <1>3, <1>9, <1>18, <2>1 DEF TypeOK, BlockType, GridSet
<1>11. ASSUME NEW c \in Blocks
       PROVE  /\ IsFiniteSet(PlacesIn(ring, c)')
              /\ Cardinality(PlacesIn(ring, c)) \in Nat /\ Cardinality(PlacesIn(ring, c)') \in Nat
              /\ Cardinality(PlacesIn(ring, c)') =
                   Cardinality(PlacesIn(ring, c)) - (IF b = c THEN 1 ELSE 0)
  <2>1. IsFiniteSet(PlacesIn(ring, c)) /\ ring'[g] = TakeHead(ring[g])
    BY <1>3, <1>7, <1>8 DEF PlacesFinite
  <2>2. PlacesMoved(ring, c, ring', IF Head(ring[g].queue) = c THEN -1 ELSE 0)
    BY <1>1, <1>2, <1>5, <1>8, <2>1, PlacesTake
  <2>. QED BY <1>7, <2>2 DEF PlacesMoved
<1>12. PlacesFinite'
  BY <1>9, <1>11 DEF PlacesFinite, UsingShift
<1>13. EveryBlockOnce'
  <2>. SUFFICES ASSUME NEW c \in Blocks
                PROVE  Cardinality(PlacesIn(ring, c)') + Cardinality(Using(c)') =
                       IF block'[c] = Unallocated THEN 0 ELSE 1
    BY DEF EveryBlockOnce, Unallocated
  <2>1. Cardinality(PlacesIn(ring, c)) + Cardinality(Using(c)) =
          IF block[c] = Unallocated THEN 0 ELSE 1
    BY DEF IInv, EveryBlockOnce
  <2>2. Cardinality(PlacesIn(ring, c)) \in Nat /\ Cardinality(Using(c)) \in Nat
    BY <1>3, Places
  <2>3. /\ Cardinality(Using(c)') \in Nat
        /\ Cardinality(Using(c)') = Cardinality(Using(c)) + (IF b = c THEN 1 ELSE 0)
    BY <1>9, <2>2, NoBlockAssumption DEF UsingShift
  <2>4. Cardinality(PlacesIn(ring, c)') + Cardinality(Using(c)') =
          Cardinality(PlacesIn(ring, c)) + Cardinality(Using(c))
    BY <1>11, <2>2, <2>3
  <2>. QED BY <1>2, <2>1, <2>4
<1>14. HeaderIsGrid'
  <2>. DEFINE K == {c \in Blocks : block[c].hdr = g}
  <2>. SUFFICES ASSUME NEW h \in GridSet, NEW n \in DOMAIN Contents(ring'[h])
                PROVE  block[Contents(ring'[h])[n]].hdr = h
    BY <1>2 DEF HeaderIsGrid, GridSet
  <2>1. CASE h = g
    <3>1. \A m \in DOMAIN Contents(ring[g]) : Contents(ring[g])[m] \in K
      BY <1>1, PooledOnce
    <3>. HIDE DEF K
    <3>2. \A m \in DOMAIN Tail(Contents(ring[g])) : Tail(Contents(ring[g]))[m] \in K
      BY <1>6, <3>1, AllTail
    <3>3. Contents(ring'[h])[n] \in K
      BY <1>6, <1>8, <2>1, <3>2
    <3>. QED BY <2>1, <3>3 DEF K
  <2>2. CASE h # g
    BY <1>8, <2>2 DEF IInv, HeaderIsGrid
  <2>. QED BY <2>1, <2>2
<1>15. AllocatedForGrid'
  BY <1>2 DEF IInv, AllocatedForGrid, SizedForGrid, AllocatedFor, eg_mempool_size_to_grid, LOG2,
              Unallocated
<1>16. HeldHeader'
  <2>. SUFFICES ASSUME NEW v \in Users, pc'[v] = "using"
                PROVE  block[hand'[v]].hdr = eg_mempool_size_to_grid(want'[v])
    BY <1>2 DEF HeldHeader, eg_mempool_size_to_grid, LOG2
  <2>1. CASE v = u
    BY <1>4, <1>9, <2>1
  <2>2. CASE v # u
    BY <1>9, <2>2 DEF IInv, HeldHeader
  <2>. QED BY <2>1, <2>2
<1>17. PublishInv'
  <2>1. (\A v \in Users : pc[v] # "idle" => block[hand[v]] # Unallocated)'
    BY <1>2, <1>4, <1>9 DEF IInv, PublishInv, Unallocated
  <2>2. (\A h \in GridSet : \A n \in DOMAIN ring[h].pending :
           ring[h].pending[n] \in {x \in Tickets(Users, Blocks) :
                                    pc[x.by] = "publish" /\ hand[x.by] = x.val})'
    <3>. SUFFICES ASSUME NEW h \in GridSet, NEW n \in DOMAIN ring'[h].pending, NEW x,
                         x = ring'[h].pending[n]
                  PROVE  /\ x \in Tickets(Users, Blocks)
                         /\ pc'[x.by] = "publish" /\ hand'[x.by] = x.val
      BY DEF GridSet, Tickets
    <3>1. ring'[h].pending = ring[h].pending
      BY <1>5, <1>8
    <3>2. x \in Tickets(Users, Blocks) /\ pc[x.by] = "publish" /\ hand[x.by] = x.val
      BY <3>1 DEF IInv, PublishInv
    <3>3. x.by \in Users /\ x.by # u
      BY <1>9, <3>2 DEF Tickets
    <3>. QED BY <1>9, <3>2, <3>3
  <2>3. (\A v \in Users, h \in GridSet :
           pc[v] = "publish" => \A n \in DOMAIN ring[h].queue :
                                  ring[h].queue[n] \in {c \in Blocks : c # hand[v]})'
    <3>. SUFFICES ASSUME NEW v \in Users, NEW h \in GridSet, pc'[v] = "publish"
                  PROVE  \A n \in DOMAIN ring'[h].queue :
                           ring'[h].queue[n] \in {c \in Blocks : c # hand'[v]}
      BY DEF GridSet
    <3>. DEFINE K == {c \in Blocks : c # hand'[v]}
    <3>1. pc[v] = "publish" /\ hand'[v] = hand[v]
      BY <1>9
    <3>2. \A n \in DOMAIN ring[h].queue : ring[h].queue[n] \in K
      BY <3>1 DEF IInv, PublishInv
    <3>. HIDE DEF K
    <3>3. CASE h = g
      <4>1. \A n \in DOMAIN Tail(ring[g].queue) : Tail(ring[g].queue)[n] \in K
        BY <1>2, <1>5, <3>2, <3>3, AllTail
      <4>. QED BY <1>5, <1>8, <3>3, <4>1 DEF K
    <3>4. CASE h # g
      BY <1>8, <3>2, <3>4 DEF K
    <3>. QED BY <3>3, <3>4
  <2>. QED BY <1>9, <2>1, <2>2, <2>3 DEF PublishInv
<1>19. CountInv'
  <2>1. \A h \in GridSet : Of(h)' = Of(h)
    BY <1>2 DEF Of, Unallocated
  <2>2. ASSUME NEW h \in GridSet PROVE IsFiniteSet(Of(h)) /\ Cardinality(Of(h)) <= most'
    <3>1. IsFiniteSet(Of(h)) /\ Cardinality(Of(h)) <= most /\ most \in Nat
      BY DEF IInv, CountInv
    <3>2. Cardinality(Of(h)) \in Nat
      BY <3>1, FS_CardinalityType
    <3>. QED BY <1>18, <3>1, <3>2
  <2>. QED BY <1>18, <2>1, <2>2 DEF CountInv, GridSet
<1>. QED BY <1>8, <1>9, <1>10, <1>12, <1>13, <1>14, <1>15, <1>16, <1>17, <1>19 DEF IInv, GridSet

\* When the ring of a grid is empty, all blocks of the grid are in use.
LEMMA NonePooled ==
  ASSUME IInv, NEW g \in GridSet, ring[g].queue = <<>>
  PROVE  Of(g) \subseteq Taken
<1>. SUFFICES ASSUME NEW b \in Blocks, block[b] # Unallocated, block[b].hdr = g
              PROVE  Holders(b) # {}
  BY DEF Of, Taken
<1>1. Cardinality(PlacesIn(ring, b)) + Cardinality(Using(b)) = 1 /\ PlacesFinite
  BY DEF IInv, EveryBlockOnce
<1>2. Cardinality(PlacesIn(ring, b)) \in Nat /\ Cardinality(Using(b)) \in Nat
  BY <1>1, Places
<1>3. CASE Cardinality(Using(b)) # 0
  <2>1. Using(b) # {}
    BY <1>3, FS_EmptySet
  <2>. QED BY <2>1 DEF Using
<1>4. CASE Cardinality(PlacesIn(ring, b)) # 0
  <2>1. PlacesIn(ring, b) # {}
    BY <1>4, FS_EmptySet
  <2>2. PICK p : p \in PlacesIn(ring, b)
    BY <2>1
  <2>3. PICK h \in GridSet : p \in {h} \X Hits(Contents(ring[h]), {b})
    BY <2>2, PlaceIs DEF IInv
  <2>4. PICK k \in DOMAIN Contents(ring[h]) : Contents(ring[h])[k] = b
    BY <2>3 DEF Hits
  <2>5. h = g
    BY <2>4, PooledOnce
  <2>6. Len(ring[g].queue) = 0 /\ DOMAIN ring[g].queue = {}
    BY EmptySeq
  <2>. DEFINE m == k - Len(ring[g].queue)
  <2>7. m \in DOMAIN ring[g].pending
    BY <2>4, <2>5, <2>6, PlaceInContents
  <2>8. Contents(ring[g])[Len(ring[g].queue) + m] = ring[g].pending[m].val
    BY <2>7, PlaceInContents
  <2>9. Len(ring[g].queue) + m = k
    <3>1. Contents(ring[g]) \in Seq(Blocks) /\ k \in DOMAIN Contents(ring[g])
      BY <2>4, <2>5, ContentsIsSeq DEF IInv
    <3>2. k \in Int
      BY <3>1, LenProperties
    <3>. QED BY <2>6, <3>2
  <2>10. ring[g].pending[m] \in Tickets(Users, Blocks)
         /\ hand[ring[g].pending[m].by] = ring[g].pending[m].val
    BY <2>7 DEF IInv, PublishInv
  <2>. HIDE DEF m
  <2>11. ring[g].pending[m].by \in Users /\ hand[ring[g].pending[m].by] = b
    BY <2>4, <2>5, <2>8, <2>9, <2>10 DEF Tickets
  <2>. QED BY <2>11 DEF Holders
<1>. QED BY <1>1, <1>2, <1>3, <1>4

\* eg_mempool_get finds none: eg_mempool_malloc returns a block that is nowhere.
LEMMA FreshStep ==
  ASSUME IInv, NEW u \in Users, NEW size \in Sizes, GetFresh(u, size)
  PROVE  IInv'
<1>. DEFINE g == eg_mempool_size_to_grid(size)
            new == [alloc |-> AllocatedFor(size), off |-> 1, hdr |-> g]
<1>1. PICK b \in Fresh : Gets(u, size, b) /\ block' = [block EXCEPT ![b] = new]
  BY DEF GetFresh, Mallocs
<1>2. ring' = ring /\ ring[g].queue = <<>>
  BY DEF GetFresh, RingEmpty
<1>3. /\ TypeOK /\ PlacesFinite /\ ring \in [GridSet -> Rings(Users, Blocks)]
      /\ block \in [Blocks -> BlockType]
  BY DEF IInv, TypeOK, BlockType
<1>4. new \in BlockType /\ new.off = 1 /\ new.hdr = g /\ new.alloc = AllocatedFor(size)
      /\ g \in GridSet
  BY GridIs DEF BlockType
<1>5. /\ new # Unallocated
      /\ b \in Blocks /\ block[b] = Unallocated /\ Holders(b) = {}
      /\ Cardinality(PlacesIn(ring, b)) = 0 /\ Cardinality(Using(b)) = 0
  BY FreshUnheld DEF Unallocated
<1>14. Of(g) \subseteq Taken
  BY <1>2, <1>4, NonePooled
<1>. HIDE DEF new, g
<1>6. /\ block' \in [Blocks -> BlockType] /\ block'[b] = new
      /\ \A c \in Blocks : c # b => block'[c] = block[c]
  BY <1>1, <1>3, <1>4, <1>5
<1>7. /\ pc' \in [Users -> {"idle", "using", "publish"}]
      /\ hand' \in [Users -> Blocks \cup {NoBlock}] /\ want' \in [Users -> Sizes \cup {0}]
      /\ pc'[u] = "using" /\ hand'[u] = b /\ want'[u] = size
      /\ \A v \in Users : v # u => pc'[v] = pc[v] /\ hand'[v] = hand[v] /\ want'[v] = want[v]
      /\ pc[u] = "idle" /\ gets' \in 0 .. MaxGets /\ up \in BOOLEAN /\ up' = up
      /\ HandsInv'
      /\ \A v, w \in Users : hand'[v] # NoBlock /\ hand'[v] = hand'[w] => v = w
      /\ \A c \in Blocks : UsingShift(c, NoBlock, b)
  BY <1>1, <1>5, Got
<1>15. /\ Taken' = Taken \cup {b}
       /\ IsFiniteSet(Taken') /\ Cardinality(Taken') <= gets'
       /\ most' \in 0 .. MaxGets /\ most <= most' /\ Cardinality(Taken') <= most'
  BY <1>1, <1>5, OneMoreTaken
<1>8. TypeOK'
  <2>1. \A h \in GridSet :
          /\ ring'[h].queue \in Seq(Blocks)
          /\ ring'[h].pending \in Seq([by : Users, val : Blocks])
    BY <1>2, <1>3, FamilyTyped
  <2>. QED BY <1>2, <1>3, <1>6, <1>7, <1>15, <2>1 DEF TypeOK, BlockType, GridSet
<1>9. ASSUME NEW c \in Blocks PROVE PlacesIn(ring, c)' = PlacesIn(ring, c)
  <2>1. PlacesIn(ring', c) = PlacesIn(ring, c)
    BY <1>2
  <2>. QED BY <2>1
<1>10. PlacesFinite'
  BY <1>3, <1>7, <1>9 DEF PlacesFinite, UsingShift
<1>11. EveryBlockOnce'
  <2>. SUFFICES ASSUME NEW c \in Blocks
                PROVE  Cardinality(PlacesIn(ring, c)) + Cardinality(Using(c)') =
                       IF block'[c] = Unallocated THEN 0 ELSE 1
    BY <1>9 DEF EveryBlockOnce, Unallocated
  <2>1. Cardinality(PlacesIn(ring, c)) + Cardinality(Using(c)) =
          IF block[c] = Unallocated THEN 0 ELSE 1
    BY DEF IInv, EveryBlockOnce
  <2>2. Cardinality(PlacesIn(ring, c)) \in Nat /\ Cardinality(Using(c)) \in Nat
    BY <1>3, Places
  <2>3. /\ Cardinality(Using(c)') \in Nat
        /\ Cardinality(Using(c)') = Cardinality(Using(c)) + (IF b = c THEN 1 ELSE 0)
    BY <1>7, <2>2, NoBlockAssumption DEF UsingShift
  <2>4. CASE c = b
    <3>1. Cardinality(PlacesIn(ring, c)) = 0 /\ Cardinality(Using(c)) = 0 /\ block'[c] # Unallocated
      BY <1>5, <1>6, <2>4
    <3>2. Cardinality(Using(c)') = Cardinality(Using(c)) + 1
      BY <2>3, <2>4
    <3>3. Cardinality(PlacesIn(ring, c)) + Cardinality(Using(c)') = 1
      BY <3>1, <3>2
    <3>. QED BY <3>1, <3>3
  <2>5. CASE c # b
    <3>1. block'[c] = block[c]
      BY <1>6, <2>5
    <3>2. Cardinality(Using(c)') = Cardinality(Using(c))
      BY <2>2, <2>3, <2>5
    <3>. QED BY <2>1, <3>1, <3>2
  <2>. QED BY <2>4, <2>5
<1>12. HeaderIsGrid'
  <2>. SUFFICES ASSUME NEW h \in GridSet, NEW n \in DOMAIN Contents(ring'[h])
                PROVE  block'[Contents(ring'[h])[n]].hdr = h
    BY DEF HeaderIsGrid, GridSet
  <2>. DEFINE c == Contents(ring[h])[n]
  <2>1. ring'[h] = ring[h] /\ n \in DOMAIN Contents(ring[h])
    BY <1>2
  <2>2. c \in Blocks /\ block[c] # Unallocated /\ block[c].hdr = h
    BY <2>1, PooledOnce
  <2>3. block'[c] = block[c]
    BY <1>5, <1>6, <2>2
  <2>. QED BY <2>1, <2>2, <2>3
<1>13. AllocatedForGrid'
  <2>. SUFFICES ASSUME NEW c \in Blocks, block'[c] # Unallocated
                PROVE  /\ block'[c].off >= 1
                       /\ \E s \in Sizes : block'[c].alloc = AllocatedFor(s)
                              /\ block'[c].hdr = eg_mempool_size_to_grid(s)
    BY DEF AllocatedForGrid, SizedForGrid, AllocatedFor, eg_mempool_size_to_grid, LOG2, Unallocated
  <2>1. CASE c = b
    BY <1>4, <1>6, <2>1 DEF g
  <2>2. CASE c # b
    BY <1>6, <2>2 DEF IInv, AllocatedForGrid, SizedForGrid
  <2>. QED BY <2>1, <2>2
<1>16. HeldHeader'
  <2>. SUFFICES ASSUME NEW v \in Users, pc'[v] = "using"
                PROVE  block'[hand'[v]].hdr = eg_mempool_size_to_grid(want'[v])
    BY DEF HeldHeader, eg_mempool_size_to_grid, LOG2
  <2>1. CASE v = u
    BY <1>4, <1>6, <1>7, <2>1 DEF g
  <2>2. CASE v # u
    <3>1. pc[v] = "using" /\ hand'[v] = hand[v] /\ want'[v] = want[v]
      BY <1>7, <2>2
    <3>2. hand[v] \in Blocks /\ block[hand[v]] # Unallocated
      BY <3>1, UsedOnce
    <3>3. block'[hand[v]] = block[hand[v]]
      BY <1>5, <1>6, <3>2
    <3>. QED BY <3>1, <3>3 DEF IInv, HeldHeader
  <2>. QED BY <2>1, <2>2
<1>17. PublishInv'
  <2>1. (\A v \in Users : pc[v] # "idle" => block[hand[v]] # Unallocated)'
    <3>. SUFFICES ASSUME NEW v \in Users, pc'[v] # "idle" PROVE block'[hand'[v]] # Unallocated
      BY DEF Unallocated
    <3>1. CASE v = u
      BY <1>5, <1>6, <1>7, <3>1
    <3>2. CASE v # u
      <4>1. pc[v] # "idle" /\ hand'[v] = hand[v] /\ hand[v] \in Blocks
        BY <1>7, <3>2 DEF IInv, HandsInv
      <4>2. block[hand[v]] # Unallocated
        BY <4>1 DEF IInv, PublishInv
      <4>. QED BY <1>5, <1>6, <4>1, <4>2
    <3>. QED BY <3>1, <3>2
  <2>2. (\A h \in GridSet : \A n \in DOMAIN ring[h].pending :
           ring[h].pending[n] \in {x \in Tickets(Users, Blocks) :
                                    pc[x.by] = "publish" /\ hand[x.by] = x.val})'
    <3>. SUFFICES ASSUME NEW h \in GridSet, NEW n \in DOMAIN ring[h].pending, NEW x,
                         x = ring[h].pending[n]
                  PROVE  /\ x \in Tickets(Users, Blocks)
                         /\ pc'[x.by] = "publish" /\ hand'[x.by] = x.val
      BY <1>2 DEF GridSet, Tickets
    <3>1. x \in Tickets(Users, Blocks) /\ pc[x.by] = "publish" /\ hand[x.by] = x.val
      BY DEF IInv, PublishInv
    <3>2. x.by \in Users /\ x.by # u
      BY <1>7, <3>1 DEF Tickets
    <3>. QED BY <1>7, <3>1, <3>2
  <2>3. (\A v \in Users, h \in GridSet :
           pc[v] = "publish" => \A n \in DOMAIN ring[h].queue :
                                  ring[h].queue[n] \in {c \in Blocks : c # hand[v]})'
    <3>. SUFFICES ASSUME NEW v \in Users, NEW h \in GridSet, pc'[v] = "publish",
                         NEW n \in DOMAIN ring[h].queue
                  PROVE  ring[h].queue[n] \in {c \in Blocks : c # hand'[v]}
      BY <1>2 DEF GridSet
    <3>1. pc[v] = "publish" /\ hand'[v] = hand[v]
      BY <1>7
    <3>. QED BY <3>1 DEF IInv, PublishInv
  <2>. QED BY <1>7, <2>1, <2>2, <2>3 DEF PublishInv
<1>18. CountInv'
  <2>1. ASSUME NEW h \in GridSet PROVE IsFiniteSet(Of(h)') /\ Cardinality(Of(h)') <= most'
    <3>1. IsFiniteSet(Of(h)) /\ Cardinality(Of(h)) <= most /\ most \in Nat
      BY DEF IInv, CountInv
    <3>2. Cardinality(Of(h)) \in Nat
      BY <3>1, FS_CardinalityType
    <3>3. CASE h = g
      <4>1. Of(h)' \in SUBSET (Taken')
        <5>1. Of(h)' \subseteq Of(h) \cup {b}
          BY <1>6 DEF Of, Unallocated
        <5>. QED BY <1>14, <1>15, <3>3, <5>1
      <4>2. IsFiniteSet(Of(h)') /\ Cardinality(Of(h)') <= Cardinality(Taken')
        BY <1>15, <4>1, FS_Subset
      <4>3. Cardinality(Of(h)') \in Nat /\ Cardinality(Taken') \in Nat
        BY <1>15, <4>2, FS_CardinalityType
      <4>. QED BY <1>15, <4>2, <4>3
    <3>4. CASE h # g
      <4>1. Of(h)' = Of(h)
        BY <1>4, <1>5, <1>6, <3>4 DEF Of, Unallocated
      <4>. QED BY <1>15, <3>1, <3>2, <4>1
    <3>. QED BY <3>3, <3>4
  <2>. QED BY <1>15, <2>1 DEF CountInv, GridSet
<1>19. ring' \in [GridSet -> Rings(Users, Blocks)]
  BY <1>2, <1>3
<1>. QED BY <1>7, <1>8, <1>10, <1>11, <1>12, <1>13, <1>16, <1>17, <1>18, <1>19 DEF IInv, GridSet

\* The end of an enqueue moves no buffer; it is the end of the use of one.
LEMMA PublishStep ==
  ASSUME IInv, NEW u \in Users, PublishReclaimed(u)
  PROVE  IInv'
<1>1. PICK g \in GridSet : MayPublish(ring[g], u) /\ ring' = [ring EXCEPT ![g] = PublishTicket(@)]
  BY DEF PublishReclaimed
<1>. DEFINE r == PublishTicket(ring[g])
            e == Head(ring[g].pending)
<1>2. /\ TypeOK /\ PlacesFinite /\ ring \in [GridSet -> Rings(Users, Blocks)]
      /\ block \in [Blocks -> BlockType] /\ ring[g].pending # <<>> /\ e.by = u
      /\ block' = block /\ most' = most /\ up' = up /\ gets' = gets
  BY <1>1 DEF IInv, TypeOK, BlockType, PublishReclaimed, MayPublish
<1>3. /\ ring[g] \in Rings(Users, Blocks) /\ r \in Rings(Users, Blocks)
      /\ r.queue = Append(ring[g].queue, e.val) /\ r.pending = Tail(ring[g].pending)
      /\ Contents(r) = Contents(ring[g])
  BY <1>2, PublishIsRing, ContentsOfPublish
<1>4. /\ ring[g].queue \in Seq(Blocks) /\ ring[g].pending \in Seq(Tickets(Users, Blocks))
      /\ Len(ring[g].queue) \in Nat /\ e = ring[g].pending[1] /\ 1 \in DOMAIN ring[g].pending
  <2>1. /\ ring[g].queue \in Seq(Blocks) /\ ring[g].pending \in Seq(Tickets(Users, Blocks))
        /\ Len(ring[g].queue) \in Nat /\ e = ring[g].pending[1]
        /\ Len(ring[g].pending) \in Nat /\ Len(ring[g].pending) > 0
    BY <1>2, <1>3, RingFields
  <2>2. DOMAIN ring[g].pending = 1 .. Len(ring[g].pending)
    BY <2>1, LenProperties
  <2>3. 1 \in DOMAIN ring[g].pending
    BY <2>1, <2>2
  <2>. QED BY <2>1, <2>3
<1>5. ring' = [ring EXCEPT ![g] = r] /\ r = PublishTicket(ring[g])
  BY <1>1
<1>6. pc[u] = "publish" /\ e.val = hand[u] /\ hand[u] \in Blocks
  BY <1>2, <1>4 DEF IInv, PublishInv, HandsInv
<1>. HIDE DEF r, e
<1>7. /\ ring' \in [GridSet -> Rings(Users, Blocks)]
      /\ DOMAIN ring = GridSet /\ DOMAIN ring' = DOMAIN ring /\ ring'[g] = r
      /\ \A h \in DOMAIN ring : h # g => ring'[h] = ring[h]
  BY <1>2, <1>3, <1>5, FamilyChanges
<1>8. /\ pc' \in [Users -> {"idle", "using", "publish"}]
      /\ hand' \in [Users -> Blocks \cup {NoBlock}] /\ want' \in [Users -> Sizes \cup {0}]
      /\ pc'[u] = "idle" /\ hand'[u] = NoBlock
      /\ \A v \in Users : v # u => pc'[v] = pc[v] /\ hand'[v] = hand[v] /\ want'[v] = want[v]
  BY DEF IInv, TypeOK, PublishReclaimed
<1>9. TypeOK'
  <2>1. \A h \in GridSet :
          /\ ring'[h].queue \in Seq(Blocks)
          /\ ring'[h].pending \in Seq([by : Users, val : Blocks])
    BY <1>7, FamilyTyped
  <2>. QED BY <1>2, <1>8, <2>1 DEF TypeOK, BlockType, GridSet
<1>10. HandsInv'
  BY <1>8 DEF IInv, HandsInv
<1>11. ASSUME NEW c \in Blocks
       PROVE  PlacesIn(ring, c)' = PlacesIn(ring, c) /\ Using(c)' = Using(c)
  <2>1. PlacesIn(ring', c) = PlacesIn(ring, c)
    <3>1. ring'[g] = PublishTicket(ring[g]) /\ g \in DOMAIN ring
      BY <1>5, <1>7
    <3>. QED BY <1>2, <1>3, <1>7, <3>1, PlacesPublish
  <2>2. Using(c)' = Using(c)
    BY <1>6, <1>8 DEF Using, Holders
  <2>. QED BY <2>1, <2>2
<1>12. PlacesFinite'
  BY <1>11 DEF IInv, PlacesFinite
<1>13. EveryBlockOnce'
  <2>. SUFFICES ASSUME NEW c \in Blocks
                PROVE  Cardinality(PlacesIn(ring, c)') + Cardinality(Using(c)') =
                       IF block'[c] = Unallocated THEN 0 ELSE 1
    BY DEF EveryBlockOnce, Unallocated
  <2>1. Cardinality(PlacesIn(ring, c)) + Cardinality(Using(c)) =
          IF block[c] = Unallocated THEN 0 ELSE 1
    BY DEF IInv, EveryBlockOnce
  <2>. QED BY <1>2, <1>11, <2>1
<1>14. HeaderIsGrid'
  <2>. SUFFICES ASSUME NEW h \in GridSet, NEW n \in DOMAIN Contents(ring'[h])
                PROVE  block[Contents(ring'[h])[n]].hdr = h
    BY <1>2 DEF HeaderIsGrid, GridSet
  <2>1. Contents(ring'[h]) = Contents(ring[h])
    BY <1>3, <1>7
  <2>. QED BY <2>1 DEF IInv, HeaderIsGrid
<1>15. AllocatedForGrid'
  BY <1>2 DEF IInv, AllocatedForGrid, SizedForGrid, AllocatedFor, eg_mempool_size_to_grid, LOG2,
              Unallocated
<1>16. HeldHeader'
  <2>. SUFFICES ASSUME NEW v \in Users, pc'[v] = "using"
                PROVE  block[hand'[v]].hdr = eg_mempool_size_to_grid(want'[v])
    BY <1>2 DEF HeldHeader, eg_mempool_size_to_grid, LOG2
  <2>. QED BY <1>8 DEF IInv, HeldHeader
<1>17. PublishInv'
  <2>1. \A v, w \in Users : hand'[v] # NoBlock /\ hand'[v] = hand'[w] => v = w
    BY <1>8 DEF IInv, PublishInv
  <2>2. (\A v \in Users : pc[v] # "idle" => block[hand[v]] # Unallocated)'
    BY <1>2, <1>8 DEF IInv, PublishInv, Unallocated
  <2>3. (\A h \in GridSet : \A n \in DOMAIN ring[h].pending :
           ring[h].pending[n] \in {x \in Tickets(Users, Blocks) :
                                    pc[x.by] = "publish" /\ hand[x.by] = x.val})'
    <3>. SUFFICES ASSUME NEW h \in GridSet, NEW n \in DOMAIN ring'[h].pending, NEW x,
                         x = ring'[h].pending[n]
                  PROVE  /\ x \in Tickets(Users, Blocks)
                         /\ pc'[x.by] = "publish" /\ hand'[x.by] = x.val
      BY DEF GridSet, Tickets
    <3>1. PICK m \in DOMAIN ring[h].pending : x = ring[h].pending[m] /\ (h = g => m # 1)
      <4>1. CASE h = g
        <5>1. /\ ring[g].pending # <<>> /\ ring'[h].pending = Tail(ring[g].pending)
              /\ ring[g].pending \in Seq(Tickets(Users, Blocks))
          BY <1>2, <1>3, <1>4, <1>7, <4>1
        <5>2. n + 1 \in DOMAIN ring[g].pending /\ Tail(ring[g].pending)[n] = ring[g].pending[n + 1]
              /\ n + 1 # 1
          BY <5>1, TailIndex
        <5>. QED BY <4>1, <5>1, <5>2
      <4>2. CASE h # g
        BY <1>7, <4>2
      <4>. QED BY <4>1, <4>2
    <3>2. x \in Tickets(Users, Blocks) /\ pc[x.by] = "publish" /\ hand[x.by] = x.val
      BY <3>1 DEF IInv, PublishInv
    <3>3. x.by \in Users /\ x.by # u
      <4>1. x.by \in Users
        BY <3>2 DEF Tickets
      <4>2. ASSUME x.by = u PROVE FALSE
        <5>1. /\ Len(ring[h].queue) + m \in DOMAIN Contents(ring[h])
              /\ Contents(ring[h])[Len(ring[h].queue) + m] = hand[u]
          BY <3>1, <3>2, <4>2, PlaceInContents
        <5>2. /\ Len(ring[g].queue) + 1 \in DOMAIN Contents(ring[g])
              /\ Contents(ring[g])[Len(ring[g].queue) + 1] = hand[u]
          BY <1>4, <1>6, PlaceInContents
        <5>3. h = g /\ Len(ring[h].queue) + m = Len(ring[g].queue) + 1
          <6>1. PICK i, j : i = Len(ring[h].queue) + m /\ j = Len(ring[g].queue) + 1
            OBVIOUS
          <6>2. /\ i \in DOMAIN Contents(ring[h]) /\ j \in DOMAIN Contents(ring[g])
                /\ Contents(ring[h])[i] = Contents(ring[g])[j]
            BY <5>1, <5>2, <6>1
          <6>3. h = g /\ i = j
            BY <6>2, OnlyPlace
          <6>. QED BY <6>1, <6>3
        <5>4. m \in Nat
          <6>1. DOMAIN ring[g].pending = 1 .. Len(ring[g].pending) /\ Len(ring[g].pending) \in Nat
            BY <1>4, LenProperties
          <6>. QED BY <5>3, <6>1
        <5>. QED BY <1>4, <3>1, <5>3, <5>4
      <4>. QED BY <4>1, <4>2
    <3>. QED BY <1>8, <3>2, <3>3
  <2>4. (\A v \in Users, h \in GridSet :
           pc[v] = "publish" => \A n \in DOMAIN ring[h].queue :
                                  ring[h].queue[n] \in {c \in Blocks : c # hand[v]})'
    <3>. SUFFICES ASSUME NEW v \in Users, NEW h \in GridSet, pc'[v] = "publish"
                  PROVE  \A n \in DOMAIN ring'[h].queue :
                           ring'[h].queue[n] \in {c \in Blocks : c # hand'[v]}
      BY DEF GridSet
    <3>. DEFINE K == {c \in Blocks : c # hand'[v]}
    <3>1. pc[v] = "publish" /\ hand'[v] = hand[v] /\ v # u
      BY <1>8
    <3>2. \A n \in DOMAIN ring[h].queue : ring[h].queue[n] \in K
      BY <3>1 DEF IInv, PublishInv
    <3>3. e.val \in K
      BY <1>6, <3>1, NoBlockAssumption DEF IInv, PublishInv
    <3>. HIDE DEF K
    <3>4. CASE h = g
      <4>1. \A n \in DOMAIN Append(ring[g].queue, e.val) : Append(ring[g].queue, e.val)[n] \in K
        BY <1>4, <1>6, <3>2, <3>3, <3>4, AllAppend
      <4>. QED BY <1>3, <1>7, <3>4, <4>1 DEF K
    <3>5. CASE h # g
      BY <1>7, <3>2, <3>5 DEF K
    <3>. QED BY <3>4, <3>5
  <2>. QED BY <2>1, <2>2, <2>3, <2>4 DEF PublishInv
<1>18. CountInv'
  <2>1. \A h \in GridSet : Of(h)' = Of(h)
    BY <1>2 DEF Of, Unallocated
  <2>2. Taken' \subseteq Taken
    BY <1>8, NoBlockAssumption DEF Taken, Holders
  <2>3. /\ IsFiniteSet(Taken) /\ Cardinality(Taken) <= gets
        /\ gets \in Nat
    BY <1>2, CountsAssumption DEF IInv, CountInv, TypeOK
  <2>4. IsFiniteSet(Taken') /\ Cardinality(Taken') <= Cardinality(Taken)
    BY <2>2, <2>3, FS_Subset
  <2>5. Cardinality(Taken) \in Nat /\ Cardinality(Taken') \in Nat
    BY <2>3, <2>4, FS_CardinalityType
  <2>6. Cardinality(Taken') <= gets'
    BY <1>2, <2>3, <2>4, <2>5
  <2>. QED BY <1>2, <2>1, <2>4, <2>6 DEF IInv, CountInv, GridSet
<1>. QED BY <1>7, <1>9, <1>10, <1>12, <1>13, <1>14, <1>15, <1>16, <1>17, <1>18 DEF IInv, GridSet

\* eg_mempool_init makes empty rings; no block is allocated, none is held.
LEMMA InitInv == Init => IInv
<1>. SUFFICES ASSUME Init PROVE IInv
  OBVIOUS
<1>1. /\ ring \in [GridSet -> Rings(Users, Blocks)] /\ DOMAIN ring = GridSet
      /\ \A g \in DOMAIN ring : ring[g] = EmptyRing
  <2>1. EmptyRing \in Rings(Users, Blocks)
    BY EmptyIsRing
  <2>. QED BY <2>1 DEF Init
<1>2. 0 \in GridSet
  BY CountsAssumption DEF GridSet
<1>3. TypeOK
  <2>1. \A h \in GridSet :
          /\ ring[h].queue \in Seq(Blocks)
          /\ ring[h].pending \in Seq([by : Users, val : Blocks])
    BY <1>1, FamilyTyped
  <2>2. block \in [Blocks -> [alloc : Nat, off : Nat, hdr : GridSet]]
    BY <1>2 DEF Init, Unallocated
  <2>3. gets \in 0 .. MaxGets /\ most \in 0 .. MaxGets
    BY CountsAssumption DEF Init
  <2>. QED BY <2>1, <2>2, <2>3 DEF TypeOK, Init
<1>4. HandsInv /\ HeldHeader
  BY DEF HandsInv, HeldHeader, Init
<1>5. AllocatedForGrid
  BY DEF AllocatedForGrid, Init
<1>6. ASSUME NEW c \in Blocks
      PROVE  /\ IsFiniteSet(PlacesIn(ring, c)) /\ Cardinality(PlacesIn(ring, c)) = 0
             /\ IsFiniteSet(Using(c)) /\ Cardinality(Using(c)) = 0
             /\ block[c] = Unallocated
  <2>1. IsFiniteSet(PlacesIn(ring, c)) /\ Cardinality(PlacesIn(ring, c)) = 0
    BY <1>1, PlacesInEmpty
  <2>2. Using(c) = {} /\ block[c] = Unallocated
    BY NoBlockAssumption DEF Init, Using, Holders
  <2>. QED BY <2>1, <2>2, FS_EmptySet
<1>7. PlacesFinite /\ EveryBlockOnce
  <2>1. PlacesFinite
    BY <1>6 DEF PlacesFinite
  <2>2. ASSUME NEW c \in Blocks
        PROVE  /\ block[c] = Unallocated
               /\ Cardinality(PlacesIn(ring, c)) + Cardinality(Using(c)) = 0
    BY <1>6
  <2>3. EveryBlockOnce
    BY <2>2 DEF EveryBlockOnce
  <2>. QED BY <2>1, <2>3
<1>8. HeaderIsGrid
  <2>. SUFFICES ASSUME NEW g \in GridSet, NEW n \in DOMAIN Contents(ring[g]) PROVE FALSE
    BY DEF HeaderIsGrid
  <2>. DEFINE c == Contents(ring[g])[n]
  <2>1. Contents(ring[g]) \in Seq(Blocks) /\ c \in Blocks
    BY <1>1, ContentsIsSeq, LenProperties, ElementOfSeq
  <2>2. g \in DOMAIN ring /\ IsFiniteSet(PlacesIn(ring, c)) /\ Cardinality(PlacesIn(ring, c)) = 0
    BY <1>1, <1>6, <2>1
  <2>3. Cardinality(PlacesIn(ring, c)) \in Nat \ {0}
    BY <2>2, HasPlace
  <2>. QED BY <2>2, <2>3
<1>9. PublishInv
  <2>1. \A g \in GridSet : DOMAIN ring[g].pending = {}
    BY <1>1 DEF EmptyRing
  <2>. QED BY <2>1 DEF PublishInv, Init
<1>10. CountInv
  <2>1. Taken = {} /\ \A g \in GridSet : Of(g) = {}
    BY NoBlockAssumption DEF Taken, Holders, Of, Init
  <2>. QED BY <2>1, FS_EmptySet DEF CountInv, Init
<1>. QED BY <1>1, <1>3, <1>4, <1>5, <1>7, <1>8, <1>9, <1>10 DEF IInv

\* Every step keeps the invariant.
LEMMA NextInv == IInv /\ [Next]_vars => IInv'
<1>. SUFFICES ASSUME IInv, [Next]_vars PROVE IInv'
  OBVIOUS
<1>1. CASE Next
  <2>1. PICK u \in Users : \/ \E size \in Sizes : GetPooled(u, size) \/ GetFresh(u, size)
                           \/ Reclaim(u) \/ ReclaimEx(u) \/ PublishReclaimed(u)
    BY <1>1 DEF Next
  <2>. QED BY <2>1, PooledStep, FreshStep, ReclaimStep, PublishStep
<1>2. CASE UNCHANGED vars
  <2>1. /\ ring' = ring /\ block' = block /\ pc' = pc /\ hand' = hand /\ want' = want
        /\ most' = most /\ up' = up /\ gets' = gets
    BY <1>2 DEF vars
  <2>2. /\ \A b \in Blocks : Using(b)' = Using(b)
        /\ Taken' = Taken /\ \A g \in GridSet : Of(g)' = Of(g)
    BY <2>1 DEF Using, Holders, Taken, Of, Unallocated
  <2>3. TypeOK' /\ HandsInv' /\ (ring \in [GridSet -> Rings(Users, Blocks)])'
    BY <2>1 DEF IInv, TypeOK, HandsInv, GridSet
  <2>4. PlacesFinite'
    BY <2>1, <2>2 DEF IInv, PlacesFinite
  <2>5. EveryBlockOnce'
    BY <2>1, <2>2 DEF IInv, EveryBlockOnce, Unallocated
  <2>6. HeaderIsGrid'
    BY <2>1 DEF IInv, HeaderIsGrid, GridSet
  <2>7. AllocatedForGrid'
    BY <2>1 DEF IInv, AllocatedForGrid, SizedForGrid, AllocatedFor, eg_mempool_size_to_grid, LOG2,
                Unallocated
  <2>8. HeldHeader'
    BY <2>1 DEF IInv, HeldHeader, eg_mempool_size_to_grid, LOG2
  <2>9. PublishInv'
    BY <2>1 DEF IInv, PublishInv, Unallocated, GridSet, Tickets
  <2>10. CountInv'
    BY <2>1, <2>2 DEF IInv, CountInv, GridSet
  <2>. QED BY <2>3, <2>4, <2>5, <2>6, <2>7, <2>8, <2>9, <2>10 DEF IInv
<1>. QED BY <1>1, <1>2

----------------------------------------------------------------------------
(* What follows *)

\* Every reachable state of the pool satisfies the inductive invariant.
THEOREM Invariance == Spec => []IInv
<1>1. Init => IInv
  BY InitInv
<1>2. IInv /\ [Next]_vars => IInv'
  BY NextInv
<1>. QED BY <1>1, <1>2, PTL DEF Spec

\* The variables keep their types.
THEOREM TypeCorrect == Spec => []TypeOK
<1>1. IInv => TypeOK
  BY DEF IInv
<1>. QED BY <1>1, Invariance, PTL

\* A buffer is used by one thread or is in one ring, however many threads get and
\* give back: as long as the program is up, eg_mempool never hands a buffer out
\* twice.
THEOREM BlocksOnce == Spec => []EveryBlockOnce
<1>1. IInv => EveryBlockOnce
  BY DEF IInv
<1>. QED BY <1>1, Invariance, PTL

\* A buffer comes back to the ring its header names, and one got for 64 bytes or
\* more is too short by the bytes it lost to eg_mempool_reclaim, and no more.
THEOREM BuffersHaveRoom == Spec => []BuffersFit
<1>1. ASSUME IInv PROVE BuffersFit
  <2>1. HeaderIsGrid
    BY <1>1 DEF IInv
  <2>2. ShortByItsMoves
    <3>. SUFFICES ASSUME NEW u \in Users, pc[u] = "using", want[u] >= 64
                  PROVE  block[hand[u]].alloc - block[hand[u]].off
                           >= want[u] - (block[hand[u]].off - 1)
      BY DEF ShortByItsMoves
    <3>. DEFINE v == block[hand[u]]
    <3>1. want[u] \in Sizes /\ v \in BlockType /\ v.hdr = eg_mempool_size_to_grid(want[u])
          /\ SizedForGrid(hand[u])
      BY <1>1, HeldGrid
    <3>2. PICK size \in Sizes : /\ v.alloc = AllocatedFor(size)
                                /\ v.hdr = eg_mempool_size_to_grid(size)
      BY <3>1 DEF SizedForGrid
    <3>3. v.alloc - 1 >= want[u]
      BY <3>1, <3>2, GridIsOnePower
    <3>4. v.alloc \in Nat /\ v.off \in Nat /\ want[u] \in Nat
      BY <3>1, SizeBounds DEF BlockType
    <3>. HIDE DEF v
    <3>5. v.alloc - v.off >= want[u] - (v.off - 1)
      BY <3>3, <3>4
    <3>. QED BY <3>5 DEF v
  <2>. QED BY <2>1, <2>2 DEF BuffersFit
<1>. QED BY <1>1, Invariance, PTL

----------------------------------------------------------------------------
(* The pool implements BufferPool *)

OneHolder == \A b \in Blocks : HolderCounts[b] = IF b \in Taken THEN 1 ELSE 0

\* A buffer has one holder or none.
LEMMA HolderCount == IInv => OneHolder
<1>. SUFFICES ASSUME IInv, NEW b \in Blocks
              PROVE  HolderCounts[b] = IF b \in Taken THEN 1 ELSE 0
  BY DEF OneHolder
<1>1. HolderCounts[b] = Cardinality(Holders(b))
  BY DEF HolderCounts
<1>2. CASE b \in Taken
  <2>1. PICK u : u \in Users /\ hand[u] = b
    BY <1>2 DEF Taken, Holders
  <2>2. Holders(b) = {u}
    BY <2>1, NoBlockAssumption DEF IInv, PublishInv, Holders
  <2>. QED BY <1>1, <1>2, <2>2, FS_Singleton
<1>3. CASE b \notin Taken
  <2>1. Holders(b) = {}
    BY <1>3 DEF Taken
  <2>. QED BY <1>1, <1>3, <2>1, FS_EmptySet
<1>. QED BY <1>2, <1>3

\* What is in use in BufferPool is what threads have in their hands.
LEMMA BusyIsTaken == IInv => BP!Busy = Taken
<1>. SUFFICES ASSUME IInv PROVE BP!Busy = Taken
  OBVIOUS
<1>1. \A b \in Blocks : HolderCounts[b] # 0 <=> b \in Taken
  BY HolderCount DEF OneHolder
<1>2. Taken \subseteq Blocks
  BY DEF Taken
<1>. QED BY <1>1, <1>2 DEF BP!Busy

\* So it is after a step.
LEMMA HoldersAfter == IInv' => OneHolder' /\ BP!Busy' = Taken'
<1>. DEFINE Same == BP!Busy = Taken
<1>1. IInv => OneHolder /\ Same
  BY HolderCount, BusyIsTaken
<1>2. Same' => BP!Busy' = Taken'
  OBVIOUS
<1>. HIDE DEF Same
<1>. QED BY <1>1, <1>2, PTL

\* No buffer is in use at first.
LEMMA InitMaps == Init => BP!Init
<1>. SUFFICES ASSUME Init PROVE BP!Init
  OBVIOUS
<1>1. \A b \in Blocks : Cardinality(Holders(b)) = 0
  <2>1. \A b \in Blocks : Holders(b) = {}
    BY NoBlockAssumption DEF Init, Holders
  <2>. QED BY <2>1, FS_EmptySet
<1>. QED BY <1>1 DEF BP!Init, HolderCounts, Init

\* eg_mempool_get hands out a buffer nobody uses.
LEMMA GetMaps ==
  ASSUME IInv, IInv', NEW u \in Users, NEW size \in Sizes, NEW b \in Blocks, Gets(u, size, b),
         Holders(b) = {}
  PROVE  BP!Get(b)
<1>1. Taken' = Taken \cup {b} /\ b \notin Taken
  BY OneMoreTaken
<1>2. /\ HolderCounts[b] = 0
      /\ \A c \in Blocks : HolderCounts'[c] = IF c = b THEN 1 ELSE HolderCounts[c]
  <2>1. \A c \in Blocks : HolderCounts'[c] = IF c \in Taken' THEN 1 ELSE 0
    BY HoldersAfter DEF OneHolder
  <2>2. \A c \in Blocks : HolderCounts[c] = IF c \in Taken THEN 1 ELSE 0
    BY HolderCount DEF OneHolder
  <2>. QED BY <1>1, <2>1, <2>2
<1>3. HolderCounts' = [HolderCounts EXCEPT ![b] = 1]
  BY <1>2 DEF HolderCounts
<1>4. most' = IF Cardinality(BP!Busy') > most THEN Cardinality(BP!Busy') ELSE most
  <2>1. BP!Busy' = Taken'
    BY HoldersAfter
  <2>. QED BY <2>1 DEF Gets
<1>5. up /\ up' = up
  BY DEF Gets
<1>. QED BY <1>2, <1>3, <1>4, <1>5 DEF BP!Get, BP!Cardinality, Cardinality

\* The end of the ring call of eg_mempool_reclaim ends the use of a buffer.
LEMMA GiveBackMaps ==
  ASSUME IInv, IInv', NEW u \in Users, PublishReclaimed(u)
  PROVE  hand[u] \in Blocks /\ BP!GiveBack(hand[u])
<1>1. /\ up /\ pc[u] = "publish" /\ hand'[u] = NoBlock
      /\ \A v \in Users : v # u => hand'[v] = hand[v]
      /\ most' = most /\ up' = up
  BY DEF IInv, TypeOK, PublishReclaimed
<1>2. hand[u] \in Blocks
  BY <1>1 DEF IInv, HandsInv
<1>3. hand[u] \in Taken /\ Taken' = Taken \ {hand[u]}
  BY <1>1, <1>2, NoBlockAssumption DEF IInv, PublishInv, Taken, Holders
<1>4. /\ HolderCounts[hand[u]] = 1
      /\ \A c \in Blocks : HolderCounts'[c] = IF c = hand[u] THEN 0 ELSE HolderCounts[c]
  <2>1. \A c \in Blocks : HolderCounts'[c] = IF c \in Taken' THEN 1 ELSE 0
    BY HoldersAfter DEF OneHolder
  <2>2. \A c \in Blocks : HolderCounts[c] = IF c \in Taken THEN 1 ELSE 0
    BY HolderCount DEF OneHolder
  <2>. QED BY <1>2, <1>3, <2>1, <2>2
<1>5. HolderCounts' = [HolderCounts EXCEPT ![hand[u]] = 0]
  BY <1>4 DEF HolderCounts
<1>. QED BY <1>1, <1>2, <1>4, <1>5 DEF BP!GiveBack

\* A buffer in use, and the ring of its grid full: more were in use at once than
\* the ring holds.
LEMMA ReclaimMaps ==
  ASSUME IInv, NEW u \in Users, Reclaim(u) \/ ReclaimEx(u)
  PROVE  BP!Next \/ UNCHANGED <<HolderCounts, most, up>>
<1>. DEFINE g == block[hand[u]].hdr
<1>1. pc[u] = "using" /\ ReclaimGrid(u, g)
  BY ReclaimsMove
<1>2. hand[u] \in Blocks /\ g \in GridSet
  BY <1>1, HeldGrid
<1>3. hand' = hand /\ most' = most /\ up
  BY <1>1 DEF ReclaimGrid
<1>4. HolderCounts' = HolderCounts
  BY <1>3 DEF HolderCounts, Holders
<1>5. CASE up' = up
  BY <1>3, <1>4, <1>5
<1>6. CASE up' = FALSE /\ RingFull(ring[g], RingSize - 1)
  <2>1. most > RingSize - 1
    BY <1>1, <1>2, <1>6, FullRing
  <2>2. HolderCounts[hand[u]] = 1
    BY <1>2, HolderCount DEF OneHolder, Taken, Holders
  <2>3. BP!Overflow(hand[u])
    BY <1>3, <1>4, <1>6, <2>1, <2>2 DEF BP!Overflow
  <2>. QED BY <1>2, <2>3 DEF BP!Next
<1>. QED BY <1>1, <1>5, <1>6 DEF ReclaimGrid

\* Every step of the pool is a step of BufferPool, or none.
LEMMA StepMaps ==
  IInv /\ IInv' /\ [Next]_vars => [BP!Next]_<<HolderCounts, most, up>>
<1>. SUFFICES ASSUME IInv, IInv', [Next]_vars
              PROVE  BP!Next \/ UNCHANGED <<HolderCounts, most, up>>
  OBVIOUS
<1>1. ASSUME NEW u \in Users, NEW size \in Sizes, GetPooled(u, size) PROVE BP!Next
  <2>. DEFINE g == eg_mempool_size_to_grid(size)
              b == Head(ring[g].queue)
  <2>1. g \in GridSet /\ ring[g].queue # <<>> /\ Gets(u, size, b)
    BY <1>1, GridIs DEF GetPooled, RingEmpty
  <2>2. b \in Blocks /\ Holders(b) = {}
    BY <2>1, HeadPooled
  <2>. HIDE DEF b
  <2>. QED BY <2>1, <2>2, GetMaps DEF BP!Next
<1>2. ASSUME NEW u \in Users, NEW size \in Sizes, GetFresh(u, size) PROVE BP!Next
  <2>1. PICK b \in Fresh : Gets(u, size, b)
    BY <1>2 DEF GetFresh, Mallocs
  <2>2. b \in Blocks /\ Holders(b) = {}
    BY FreshUnheld
  <2>. QED BY <2>1, <2>2, GetMaps DEF BP!Next
<1>3. ASSUME NEW u \in Users, PublishReclaimed(u) PROVE BP!Next
  BY <1>3, GiveBackMaps DEF BP!Next
<1>4. CASE UNCHANGED vars
  BY <1>4 DEF vars, HolderCounts, Holders
<1>. QED BY <1>1, <1>2, <1>3, <1>4, ReclaimMaps DEF Next

\* A thread that gets a buffer is the only one that uses it until it has given
\* it back, and no pointer is passed to free unless more buffers than one ring
\* holds were in use at once: the pool implements BufferPool.
THEOREM PoolImplementsBufferPool == Spec => ImplementsBufferPool
<1>1. Init => BP!Init
  BY InitMaps
<1>2. IInv /\ IInv' /\ [Next]_vars => [BP!Next]_<<HolderCounts, most, up>>
  BY StepMaps
<1>. QED BY <1>1, <1>2, Invariance, PTL DEF Spec, ImplementsBufferPool, BP!Spec
===============================================================================
