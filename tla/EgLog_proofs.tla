----------------------------- MODULE EgLog_proofs -----------------------------
(***************************************************************************)
(* Proofs about EgLog, for any sets of logging threads and buffers and any *)
(* number of slots.                                                        *)
(***************************************************************************)
EXTENDS EgLog, RingOps_proofs

----------------------------------------------------------------------------
(* What makes the invariants inductive *)

\* A thread has a buffer from eg_mempool_get to the ring call, thread1 from its
\* ring call to eg_mempool_reclaim_ex.
HandsInv ==
  /\ \A t \in Loggers : buf[t] \in Blocks <=> pc[t] \in {"format", "enqueue"}
  /\ out \in Blocks <=> printer = "print"

\* A thread that logs has a text to log.
CallInv ==
  \A t \in Loggers : IF pc[t] = "idle" THEN arg[t] = NoCall ELSE arg[t].text \in Texts

\* No buffer is lent out twice, and each is in finitely many places.
LentOnce ==
  \A b \in Blocks : /\ users[b] \in {0, 1}
                    /\ IsFiniteSet(PlacesIn(g_ring, b)) /\ IsFiniteSet(Holders(b))

\* The pool counts the buffers it lends.
PoolInv == most \in Nat /\ up \in BOOLEAN /\ IsFiniteSet(Pool!Busy)

\* Whatever is in a ring or printed is the whole text of somebody.
QueuedText ==
  \A q \in Channels : \A n \in DOMAIN Entries(q) : mem[Entries(q)[n]] \in Texts

HeldText ==
  /\ \A t \in Loggers : pc[t] = "enqueue" => mem[buf[t]] = arg[t].text
  /\ printer = "print" => mem[out] \in Texts

IInv ==
  /\ TypeOK
  /\ g_ring \in [Channels -> Rings(Loggers, Blocks)]
  /\ HandsInv
  /\ CallInv
  /\ LentOnce
  /\ PoolInv
  /\ NoBufferLeaks
  /\ QueuedText
  /\ HeldText

----------------------------------------------------------------------------
(* Where buffers are *)

\* The counts of NoBufferLeaks are numbers.
LEMMA Counts ==
  ASSUME IInv, NEW b \in Blocks
  PROVE  /\ Cardinality(PlacesIn(g_ring, b)) \in Nat
         /\ Cardinality(Holders(b)) \in Nat
         /\ Cardinality({out} \cap {b}) = IF out = b THEN 1 ELSE 0
         /\ users[b] \in {0, 1}
         /\ Cardinality(PlacesIn(g_ring, b)) + Cardinality(Holders(b))
              + Cardinality({out} \cap {b}) = users[b]
<1>1. /\ Cardinality(PlacesIn(g_ring, b)) \in Nat /\ Cardinality(Holders(b)) \in Nat
      /\ users[b] \in {0, 1}
  BY FS_CardinalityType DEF IInv, LentOnce
<1>2. Cardinality({out} \cap {b}) = IF out = b THEN 1 ELSE 0
  <2>1. CASE out = b
    <3>1. {out} \cap {b} = {b}
      BY <2>1
    <3>. QED BY <2>1, <3>1, FS_Singleton
  <2>2. CASE out # b
    <3>1. {out} \cap {b} = {}
      BY <2>2
    <3>. QED BY <2>2, <3>1, FS_EmptySet
  <2>. QED BY <2>1, <2>2
<1>3. Cardinality(PlacesIn(g_ring, b)) + Cardinality(Holders(b))
        + Cardinality({out} \cap {b}) = users[b]
  BY DEF IInv, NoBufferLeaks, Places
<1>. QED BY <1>1, <1>2, <1>3

\* A buffer that is nowhere in a ring is not what an entry of a ring names.
LEMMA NotQueued ==
  ASSUME IInv, NEW b \in Blocks, Cardinality(PlacesIn(g_ring, b)) = 0
  PROVE  \A q \in Channels : \A n \in DOMAIN Entries(q) : Entries(q)[n] # b
<1>. SUFFICES ASSUME NEW q \in Channels, NEW n \in DOMAIN Contents(g_ring[q]),
                     Contents(g_ring[q])[n] = b
              PROVE  FALSE
  BY DEF Entries
<1>1. q \in DOMAIN g_ring /\ IsFiniteSet(PlacesIn(g_ring, b))
  BY DEF IInv, LentOnce
<1>2. Cardinality(PlacesIn(g_ring, b)) \in Nat \ {0}
  BY <1>1, HasPlace
<1>. QED BY <1>2

\* A buffer a thread has is nowhere else.
LEMMA HeldOnce ==
  ASSUME IInv, NEW t \in Loggers, NEW b \in Blocks, buf[t] = b
  PROVE  /\ Cardinality(PlacesIn(g_ring, b)) = 0 /\ Cardinality(Holders(b)) = 1
         /\ out # b /\ users[b] = 1
         /\ \A u \in Loggers : buf[u] = b => u = t
<1>1. /\ Cardinality(PlacesIn(g_ring, b)) \in Nat
      /\ Cardinality(Holders(b)) \in Nat
      /\ Cardinality({out} \cap {b}) = IF out = b THEN 1 ELSE 0
      /\ users[b] \in {0, 1}
      /\ Cardinality(PlacesIn(g_ring, b)) + Cardinality(Holders(b))
           + Cardinality({out} \cap {b}) = users[b]
  BY Counts
<1>2. t \in Holders(b) /\ IsFiniteSet(Holders(b))
  BY DEF Holders, IInv, LentOnce
<1>3. Cardinality(Holders(b)) # 0
  BY <1>2, FS_EmptySet
<1>4. Cardinality(PlacesIn(g_ring, b)) = 0 /\ Cardinality(Holders(b)) = 1 /\ out # b /\ users[b] = 1
  BY <1>1, <1>3
<1>5. ASSUME NEW u \in Loggers, buf[u] = b PROVE u = t
  <2>1. PICK x : Holders(b) = {x}
    BY <1>2, <1>4, FS_Singleton
  <2>2. u \in Holders(b)
    BY <1>5 DEF Holders
  <2>. QED BY <1>2, <2>1, <2>2
<1>. QED BY <1>4, <1>5

\* The buffer thread1 prints is nowhere else.
LEMMA PrintedOnce ==
  ASSUME IInv, out \in Blocks
  PROVE  /\ Cardinality(PlacesIn(g_ring, out)) = 0 /\ Cardinality(Holders(out)) = 0
         /\ users[out] = 1
         /\ \A u \in Loggers : buf[u] # out
<1>1. /\ Cardinality(PlacesIn(g_ring, out)) \in Nat
      /\ Cardinality(Holders(out)) \in Nat
      /\ Cardinality({out} \cap {out}) = IF out = out THEN 1 ELSE 0
      /\ users[out] \in {0, 1}
      /\ Cardinality(PlacesIn(g_ring, out)) + Cardinality(Holders(out))
           + Cardinality({out} \cap {out}) = users[out]
  BY Counts
<1>2. Cardinality({out} \cap {out}) = 1
  BY <1>1
<1>3. Cardinality(PlacesIn(g_ring, out)) = 0 /\ Cardinality(Holders(out)) = 0 /\ users[out] = 1
  BY <1>1, <1>2
<1>. QED BY <1>3, HeldOnce

\* A free buffer is nowhere.
LEMMA FreeNowhere ==
  ASSUME IInv, NEW b \in Blocks, users[b] = 0
  PROVE  /\ Cardinality(PlacesIn(g_ring, b)) = 0 /\ Cardinality(Holders(b)) = 0
         /\ out # b
         /\ \A u \in Loggers : buf[u] # b
<1>1. /\ Cardinality(PlacesIn(g_ring, b)) \in Nat
      /\ Cardinality(Holders(b)) \in Nat
      /\ Cardinality({out} \cap {b}) = IF out = b THEN 1 ELSE 0
      /\ users[b] \in {0, 1}
      /\ Cardinality(PlacesIn(g_ring, b)) + Cardinality(Holders(b))
           + Cardinality({out} \cap {b}) = users[b]
  BY Counts
<1>2. Cardinality(PlacesIn(g_ring, b)) = 0 /\ Cardinality(Holders(b)) = 0 /\ out # b
  BY <1>1
<1>. QED BY <1>2, HeldOnce

\* What happens to the holders of b when one thread turns from one buffer to another.
HoldersShift(b, from, to) ==
  /\ IsFiniteSet(Holders(b)')
  /\ Cardinality(Holders(b)') =
       Cardinality(Holders(b)) - (IF from = b THEN 1 ELSE 0) + (IF to = b THEN 1 ELSE 0)

\* One thread's buf changes, nobody else's.
LEMMA HoldersMove ==
  ASSUME IInv, NEW t \in Loggers, NEW to, buf' = [buf EXCEPT ![t] = to]
  PROVE  \A b \in Blocks : HoldersShift(b, buf[t], to)
<1>. TAKE b \in Blocks
<1>. DEFINE K == {b}
<1>1. /\ t \in DOMAIN buf /\ DOMAIN buf' = DOMAIN buf /\ buf'[t] = to
      /\ \A x \in DOMAIN buf : x # t => buf'[x] = buf[x]
  BY DEF IInv, TypeOK
<1>2. Holders(b) = Hits(buf, K) /\ Holders(b)' = Hits(buf', K)
  BY <1>1 DEF Holders, Hits, IInv, TypeOK
<1>3. IsFiniteSet(Hits(buf, K))
  BY <1>2 DEF IInv, LentOnce
<1>4. (buf[t] \in K <=> buf[t] = b) /\ (to \in K <=> to = b)
  OBVIOUS
<1>. HIDE DEF K
<1>5. CountShift(buf, t, to, K, buf')
  BY <1>1, <1>3, CountMoves
<1>. QED BY <1>2, <1>4, <1>5 DEF CountShift, HoldersShift

\* A write to a buffer that is in no ring changes no text in a ring.
LEMMA TextsStay ==
  ASSUME IInv, NEW b \in Blocks, Cardinality(PlacesIn(g_ring, b)) = 0, NEW x,
         mem' = [mem EXCEPT ![b] = x], g_ring' = g_ring, NEW q \in Channels
  PROVE  /\ \A n \in DOMAIN Entries(q) : mem'[Entries(q)[n]] = mem[Entries(q)[n]]
         /\ Entries(q)' = Entries(q)
         /\ Through(mem', Entries(q)) = Through(mem, Entries(q))
<1>1. \A n \in DOMAIN Entries(q) : Entries(q)[n] # b
  BY NotQueued
<1>2. \A n \in DOMAIN Entries(q) : Entries(q)[n] \in Blocks
  <2>1. Contents(g_ring[q]) \in Seq(Blocks)
    BY ContentsIsSeq DEF IInv
  <2>. QED BY <2>1, LenProperties, ElementOfSeq DEF Entries
<1>3. \A n \in DOMAIN Entries(q) : mem'[Entries(q)[n]] = mem[Entries(q)[n]]
  BY <1>1, <1>2 DEF IInv, TypeOK
<1>4. Entries(q)' = Entries(q)
  BY DEF Entries
<1>5. Through(mem', Entries(q)) = Through(mem, Entries(q))
  BY <1>3, ThroughSame
<1>. QED BY <1>3, <1>4, <1>5

----------------------------------------------------------------------------
(* The steps *)

\* Most steps leave the pool alone.
LEMMA PoolKept ==
  ASSUME IInv, UNCHANGED <<users, most, up>>
  PROVE  users' = users /\ PoolInv'
<1>1. Pool!Busy' = Pool!Busy
  BY DEF Pool!Busy
<1>. QED BY <1>1 DEF IInv, PoolInv

\* The types of TypeOK, taken apart.
LEMMA Types ==
  ASSUME IInv
  PROVE  /\ users \in [Blocks -> Nat]
         /\ g_ring \in [Channels -> Rings(Loggers, Blocks)]
         /\ mem \in [Blocks -> Texts \cup {NoText, Torn}]
         /\ pc \in [Loggers -> {"idle", "get", "format", "enqueue", "publish"}]
         /\ arg \in [Loggers -> [on : Channels, text : Texts \cup {NoText}]]
         /\ buf \in [Loggers -> Blocks \cup {NoBlock}]
         /\ printer \in {"look_stderr", "look_stdout", "print"}
         /\ out \in Blocks \cup {NoBlock}
BY DEF IInv, TypeOK

\* and put together again.
LEMMA TypesNext ==
  ASSUME users' \in [Blocks -> Nat], PoolInv',
         g_ring' \in [Channels -> Rings(Loggers, Blocks)],
         mem' \in [Blocks -> Texts \cup {NoText, Torn}],
         pc' \in [Loggers -> {"idle", "get", "format", "enqueue", "publish"}],
         arg' \in [Loggers -> [on : Channels, text : Texts \cup {NoText}]],
         buf' \in [Loggers -> Blocks \cup {NoBlock}],
         printer' \in {"look_stderr", "look_stdout", "print"},
         out' \in Blocks \cup {NoBlock}
  PROVE  TypeOK' /\ (g_ring \in [Channels -> Rings(Loggers, Blocks)])'
<1>1. \A q \in Channels :
        g_ring'[q].queue \in Seq(Blocks) /\ g_ring'[q].pending \in Seq([by : Loggers, val : Blocks])
  BY FamilyTyped
<1>2. TypeOK'
  BY <1>1 DEF TypeOK, PoolInv, Channels, STDOUT, STDERR, Texts
<1>3. (g_ring \in [Channels -> Rings(Loggers, Blocks)])'
  BY DEF Channels, STDOUT, STDERR
<1>. QED BY <1>2, <1>3

\* Steps that move no buffer.
LEMMA Unmoved ==
  ASSUME IInv, users' = users, g_ring' = g_ring, buf' = buf, out' = out
  PROVE  LentOnce' /\ NoBufferLeaks'
<1>1. \A b \in Blocks : Holders(b)' = Holders(b)
  BY DEF Holders
<1>2. \A b \in Blocks : PlacesIn(g_ring, b)' = PlacesIn(g_ring, b)
  <2>. TAKE b \in Blocks
  <2>1. PlacesIn(g_ring', b) = PlacesIn(g_ring, b)
    OBVIOUS
  <2>. QED BY <2>1
<1>3. LentOnce'
  BY <1>1, <1>2 DEF IInv, LentOnce
<1>4. NoBufferLeaks'
  BY <1>1, <1>2 DEF IInv, NoBufferLeaks, Places
<1>. QED BY <1>3, <1>4

\* Steps that change neither a ring nor a text.
LEMMA TextsUnchanged ==
  ASSUME IInv, g_ring' = g_ring, mem' = mem
  PROVE  QueuedText'
BY DEF IInv, QueuedText, Entries, Channels, STDOUT, STDERR, Texts

\* How the counts of NoBufferLeaks move.
LEMMA LeaksNext ==
  ASSUME IInv,
         \A b \in Blocks :
           /\ users'[b] \in {0, 1}
           /\ IsFiniteSet(PlacesIn(g_ring', b)) /\ IsFiniteSet(Holders(b)')
           /\ Cardinality(PlacesIn(g_ring', b)) + Cardinality(Holders(b)')
                + (IF out' = b THEN 1 ELSE 0) = users'[b]
  PROVE  LentOnce' /\ NoBufferLeaks'
<1>1. \A b \in Blocks : PlacesIn(g_ring, b)' = PlacesIn(g_ring', b)
  OBVIOUS
<1>2. LentOnce'
  BY <1>1 DEF LentOnce
<1>3. \A b \in Blocks : Cardinality({out'} \cap {b}) = IF out' = b THEN 1 ELSE 0
  <2>. TAKE b \in Blocks
  <2>1. CASE out' = b
    <3>1. {out'} \cap {b} = {b}
      BY <2>1
    <3>. QED BY <2>1, <3>1, FS_Singleton
  <2>2. CASE out' # b
    <3>1. {out'} \cap {b} = {}
      BY <2>2
    <3>. QED BY <2>2, <3>1, FS_EmptySet
  <2>. QED BY <2>1, <2>2
<1>4. NoBufferLeaks'
  <2>. SUFFICES ASSUME NEW b \in Blocks PROVE Places(b)' = users'[b]
    BY DEF NoBufferLeaks
  <2>1. Places(b)' = Cardinality(PlacesIn(g_ring', b)) + Cardinality(Holders(b)')
                       + Cardinality({out'} \cap {b})
    BY <1>1 DEF Places
  <2>. QED BY <1>3, <2>1
<1>. QED BY <1>2, <1>4

\* A thread starts to log.
LEMMA LogStep ==
  ASSUME IInv, NEW t \in Loggers, NEW q \in Channels, Log(t, q)
  PROVE  IInv'
<1>1. /\ users' = users /\ PoolInv' /\ g_ring' = g_ring /\ mem' = mem /\ buf' = buf
      /\ printer' = printer /\ out' = out
      /\ pc[t] = "idle" /\ pc' = [pc EXCEPT ![t] = "get"]
      /\ arg' = [arg EXCEPT ![t] = [on |-> q, text |-> t]]
  BY PoolKept DEF Log, Goto, pool
<1>. DEFINE c == [on |-> q, text |-> t]
<1>2. c \in [on : Channels, text : Texts \cup {NoText}] /\ c.text \in Texts
  BY DEF Texts
<1>. HIDE DEF c
<1>3. arg' = [arg EXCEPT ![t] = c]
  BY <1>1 DEF c
<1>4. TypeOK' /\ (g_ring \in [Channels -> Rings(Loggers, Blocks)])'
  BY <1>1, <1>2, <1>3, Types, TypesNext
<1>5. HandsInv'
  BY <1>1, Types DEF IInv, HandsInv
<1>6. CallInv'
  BY <1>1, <1>2, <1>3, Types DEF IInv, CallInv, NoCall, Texts, STDERR
<1>7. HeldText'
  BY <1>1, <1>3, Types DEF IInv, HeldText, Texts
<1>. QED BY <1>1, <1>4, <1>5, <1>6, <1>7, Unmoved, TextsUnchanged DEF IInv

\* eg_mempool_get: the buffer is nowhere yet.
LEMMA GetStep ==
  ASSUME IInv, NEW t \in Loggers, GetBuffer(t)
  PROVE  IInv'
<1>1. PICK b \in Blocks : /\ Pool!Get(b)
                          /\ buf' = [buf EXCEPT ![t] = b]
                          /\ mem' = [mem EXCEPT ![b] = Torn]
  BY DEF GetBuffer
<1>2. /\ users[b] = 0 /\ users' = [users EXCEPT ![b] = 1]
      /\ g_ring' = g_ring /\ arg' = arg /\ printer' = printer /\ out' = out
      /\ pc[t] = "get" /\ pc' = [pc EXCEPT ![t] = "format"]
  BY <1>1 DEF GetBuffer, Goto, Pool!Get
<1>3. /\ Cardinality(PlacesIn(g_ring, b)) = 0 /\ Cardinality(Holders(b)) = 0
      /\ out # b
      /\ \A u \in Loggers : buf[u] # b
  BY <1>2, FreeNowhere
<1>10. PoolInv'
  <2>1. IsFiniteSet(Pool!Busy) /\ Pool!Busy' \subseteq Pool!Busy \cup {b}
    BY <1>2, Types DEF IInv, PoolInv, Pool!Busy
  <2>2. IsFiniteSet(Pool!Busy \cup {b})
    BY <2>1, FS_AddElement
  <2>3. IsFiniteSet(Pool!Busy')
    BY <2>1, <2>2, FS_Subset
  <2>4. Cardinality(Pool!Busy') \in Nat
    BY <2>3, FS_CardinalityType
  <2>5. most' \in {Cardinality(Pool!Busy'), most} /\ up' = up
    BY <1>1 DEF Pool!Get, Pool!Cardinality, Cardinality
  <2>. QED BY <2>3, <2>4, <2>5 DEF IInv, PoolInv
<1>4. TypeOK' /\ (g_ring \in [Channels -> Rings(Loggers, Blocks)])'
  BY <1>1, <1>2, <1>10, Types, TypesNext
<1>5. HandsInv'
  BY <1>1, <1>2, Types DEF IInv, HandsInv
<1>6. CallInv'
  BY <1>2, Types DEF IInv, CallInv, NoCall, Texts, STDERR
<1>7. HeldText'
  BY <1>1, <1>2, <1>3, Types DEF IInv, HeldText, HandsInv, Texts
<1>8. QueuedText'
  <2>. SUFFICES ASSUME NEW q \in Channels, NEW n \in DOMAIN Entries(q)'
                PROVE  mem'[Entries(q)'[n]] \in Texts
    BY DEF QueuedText, Channels, STDOUT, STDERR, Texts
  <2>1. /\ \A m \in DOMAIN Entries(q) : mem'[Entries(q)[m]] = mem[Entries(q)[m]]
        /\ Entries(q)' = Entries(q)
    BY <1>1, <1>2, <1>3, TextsStay
  <2>. QED BY <2>1 DEF IInv, QueuedText
<1>9. LentOnce' /\ NoBufferLeaks'
  <2>. SUFFICES ASSUME NEW c \in Blocks
                PROVE  /\ users'[c] \in {0, 1}
                       /\ IsFiniteSet(PlacesIn(g_ring', c)) /\ IsFiniteSet(Holders(c)')
                       /\ Cardinality(PlacesIn(g_ring', c)) + Cardinality(Holders(c)')
                            + (IF out' = c THEN 1 ELSE 0) = users'[c]
    BY LeaksNext
  <2>1. /\ Cardinality(PlacesIn(g_ring, c)) \in Nat /\ Cardinality(Holders(c)) \in Nat
        /\ Cardinality({out} \cap {c}) = IF out = c THEN 1 ELSE 0
        /\ users[c] \in {0, 1}
        /\ Cardinality(PlacesIn(g_ring, c)) + Cardinality(Holders(c))
             + Cardinality({out} \cap {c}) = users[c]
    BY Counts
  <2>2. HoldersShift(c, buf[t], b)
    BY <1>1, HoldersMove
  <2>3. buf[t] \notin Blocks
    BY <1>2 DEF IInv, HandsInv
  <2>4. IsFiniteSet(Holders(c)') /\ Cardinality(Holders(c)') = Cardinality(Holders(c)) + (IF b = c THEN 1 ELSE 0)
    BY <2>1, <2>2, <2>3 DEF HoldersShift
  <2>5. users'[c] = users[c] + (IF b = c THEN 1 ELSE 0) /\ users'[c] \in {0, 1}
    BY <1>2, <2>1, Types
  <2>6. IsFiniteSet(PlacesIn(g_ring', c)) /\ PlacesIn(g_ring', c) = PlacesIn(g_ring, c)
    BY <1>2 DEF IInv, LentOnce
  <2>. QED BY <1>2, <2>1, <2>4, <2>5, <2>6
<1>. QED BY <1>4, <1>5, <1>6, <1>7, <1>8, <1>9, <1>10 DEF IInv

\* sprintf writes the text into a buffer that nobody else has.
LEMMA FormatStep ==
  ASSUME IInv, NEW t \in Loggers, Format(t)
  PROVE  IInv'
<1>. DEFINE b == buf[t]
<1>1. /\ users' = users /\ PoolInv' /\ g_ring' = g_ring /\ buf' = buf /\ arg' = arg
      /\ printer' = printer /\ out' = out
      /\ pc[t] = "format" /\ pc' = [pc EXCEPT ![t] = "enqueue"]
      /\ mem' = [mem EXCEPT ![b] = arg[t].text]
  BY PoolKept DEF Format, Goto, pool
<1>2. b \in Blocks /\ arg[t].text \in Texts
  BY <1>1, Types DEF IInv, HandsInv, CallInv
<1>. HIDE DEF b
<1>3. /\ Cardinality(PlacesIn(g_ring, b)) = 0 /\ out # b
      /\ \A u \in Loggers : buf[u] = b => u = t
  BY <1>2, HeldOnce DEF b
<1>4. TypeOK' /\ (g_ring \in [Channels -> Rings(Loggers, Blocks)])'
  BY <1>1, <1>2, Types, TypesNext
<1>5. HandsInv'
  BY <1>1, Types DEF IInv, HandsInv
<1>6. CallInv'
  BY <1>1, Types DEF IInv, CallInv, NoCall, Texts, STDERR
<1>7. HeldText'
  <2>1. ASSUME NEW u \in Loggers, pc'[u] = "enqueue" PROVE mem'[buf'[u]] = arg'[u].text
    <3>1. CASE u = t
      BY <1>1, <1>2, <3>1, Types DEF b
    <3>2. CASE u # t
      <4>1. pc[u] = "enqueue" /\ buf[u] # b
        BY <1>1, <1>3, <2>1, <3>2, Types
      <4>. QED BY <1>1, <4>1, Types DEF IInv, HeldText, HandsInv
    <3>. QED BY <3>1, <3>2
  <2>2. printer' = "print" => mem'[out'] \in Texts
    BY <1>1, <1>3, Types DEF IInv, HeldText, HandsInv
  <2>. QED BY <2>1, <2>2 DEF HeldText, Texts
<1>8. QueuedText'
  <2>. SUFFICES ASSUME NEW q \in Channels, NEW n \in DOMAIN Entries(q)'
                PROVE  mem'[Entries(q)'[n]] \in Texts
    BY DEF QueuedText, Channels, STDOUT, STDERR, Texts
  <2>1. /\ \A m \in DOMAIN Entries(q) : mem'[Entries(q)[m]] = mem[Entries(q)[m]]
        /\ Entries(q)' = Entries(q)
    BY <1>1, <1>2, <1>3, TextsStay
  <2>. QED BY <2>1 DEF IInv, QueuedText
<1>. QED BY <1>1, <1>4, <1>5, <1>6, <1>7, <1>8, Unmoved DEF IInv

\* The ticket is won: the buffer goes from the thread to the ring.
LEMMA EnqueueStep ==
  ASSUME IInv, NEW t \in Loggers, Enqueue(t)
  PROVE  IInv'
<1>. DEFINE b == buf[t]
            q == arg[t].on
            r == ReserveTicket(g_ring[q], t, b)
<1>1. /\ users' = users /\ PoolInv' /\ mem' = mem /\ arg' = arg /\ printer' = printer /\ out' = out
      /\ pc[t] = "enqueue" /\ pc' = [pc EXCEPT ![t] = "publish"]
      /\ g_ring' = [g_ring EXCEPT ![q] = r] /\ buf' = [buf EXCEPT ![t] = NoBlock]
  BY PoolKept DEF Enqueue, Goto, pool
<1>2. b \in Blocks /\ arg[t].text \in Texts /\ q \in Channels
  BY <1>1, Types DEF IInv, HandsInv, CallInv
<1>3. mem[b] \in Texts
  BY <1>1, <1>2 DEF IInv, HeldText
<1>4. g_ring[q] \in Rings(Loggers, Blocks) /\ r \in Rings(Loggers, Blocks)
  <2>1. g_ring[q] \in Rings(Loggers, Blocks)
    BY <1>2, Types
  <2>2. ReserveTicket(g_ring[q], t, b) \in Rings(Loggers, Blocks)
    BY <1>2, <2>1, ReserveIsRing
  <2>. QED BY <2>1, <2>2
<1>5. Contents(r) = Append(Contents(g_ring[q]), b) /\ Contents(g_ring[q]) \in Seq(Blocks)
  <2>1. Contents(ReserveTicket(g_ring[q], t, b)) = Append(Contents(g_ring[q]), b)
    BY <1>2, <1>4, ContentsOfReserve
  <2>2. Contents(g_ring[q]) \in Seq(Blocks)
    BY <1>4, ContentsIsSeq
  <2>. QED BY <2>1, <2>2
<1>6. r = ReserveTicket(g_ring[q], t, b)
  OBVIOUS
<1>. HIDE DEF r
<1>7. /\ g_ring' \in [Channels -> Rings(Loggers, Blocks)]
      /\ DOMAIN g_ring = Channels /\ DOMAIN g_ring' = DOMAIN g_ring /\ g_ring'[q] = r
      /\ \A h \in DOMAIN g_ring : h # q => g_ring'[h] = g_ring[h]
  BY <1>1, <1>2, <1>4, Types, FamilyChanges
<1>8. TypeOK' /\ (g_ring \in [Channels -> Rings(Loggers, Blocks)])'
  BY <1>1, <1>7, Types, TypesNext
<1>9. HandsInv'
  BY <1>1, Types, NoBlockAssumption DEF IInv, HandsInv
<1>10. CallInv'
  BY <1>1, Types DEF IInv, CallInv, NoCall, Texts, STDERR
<1>11. HeldText'
  BY <1>1, Types DEF IInv, HeldText, Texts
<1>12. QueuedText'
  <2>. DEFINE K == {c \in Blocks : mem[c] \in Texts}
  <2>. SUFFICES ASSUME NEW h \in Channels, NEW n \in DOMAIN Contents(g_ring'[h])
                PROVE  mem[Contents(g_ring'[h])[n]] \in Texts
    BY <1>1 DEF QueuedText, Entries, Channels, STDOUT, STDERR, Texts
  <2>1. CASE h = q
    <3>1. \A m \in DOMAIN Contents(g_ring[q]) : Contents(g_ring[q])[m] \in K
      BY <1>2, <1>5, LenProperties, ElementOfSeq DEF IInv, QueuedText, Entries
    <3>2. b \in K
      BY <1>2, <1>3
    <3>. HIDE DEF K
    <3>3. \A m \in DOMAIN Append(Contents(g_ring[q]), b) : Append(Contents(g_ring[q]), b)[m] \in K
      BY <1>2, <1>5, <3>1, <3>2, AllAppend
    <3>4. Contents(g_ring'[h])[n] \in K
      BY <1>5, <1>7, <2>1, <3>3
    <3>. QED BY <3>4 DEF K
  <2>2. CASE h # q
    BY <1>7, <2>2 DEF IInv, QueuedText, Entries
  <2>. QED BY <2>1, <2>2
<1>13. LentOnce' /\ NoBufferLeaks'
  <2>. SUFFICES ASSUME NEW c \in Blocks
                PROVE  /\ users'[c] \in {0, 1}
                       /\ IsFiniteSet(PlacesIn(g_ring', c)) /\ IsFiniteSet(Holders(c)')
                       /\ Cardinality(PlacesIn(g_ring', c)) + Cardinality(Holders(c)')
                            + (IF out' = c THEN 1 ELSE 0) = users'[c]
    BY LeaksNext
  <2>1. /\ Cardinality(PlacesIn(g_ring, c)) \in Nat /\ Cardinality(Holders(c)) \in Nat
        /\ Cardinality({out} \cap {c}) = IF out = c THEN 1 ELSE 0
        /\ users[c] \in {0, 1}
        /\ Cardinality(PlacesIn(g_ring, c)) + Cardinality(Holders(c))
             + Cardinality({out} \cap {c}) = users[c]
    BY Counts
  <2>2. HoldersShift(c, buf[t], NoBlock)
    BY <1>1, HoldersMove
  <2>3. IsFiniteSet(Holders(c)')
        /\ Cardinality(Holders(c)') = Cardinality(Holders(c)) - (IF b = c THEN 1 ELSE 0)
    BY <2>1, <2>2, NoBlockAssumption DEF HoldersShift
  <2>4. PlacesMoved(g_ring, c, g_ring', IF b = c THEN 1 ELSE 0)
    <3>1. IsFiniteSet(PlacesIn(g_ring, c)) /\ g_ring'[q] = ReserveTicket(g_ring[q], t, b)
      BY <1>6, <1>7 DEF IInv, LentOnce
    <3>. QED BY <1>2, <1>4, <1>7, <3>1, PlacesReserve
  <2>5. /\ IsFiniteSet(PlacesIn(g_ring', c))
        /\ Cardinality(PlacesIn(g_ring', c)) + Cardinality(Holders(c)') =
             Cardinality(PlacesIn(g_ring, c)) + Cardinality(Holders(c))
    BY <2>1, <2>3, <2>4 DEF PlacesMoved
  <2>. QED BY <1>1, <2>1, <2>3, <2>5
<1>. QED BY <1>1, <1>8, <1>9, <1>10, <1>11, <1>12, <1>13 DEF IInv

\* The ticket is published: nothing moves.
LEMMA PublishStep ==
  ASSUME IInv, NEW t \in Loggers, Publish(t)
  PROVE  IInv'
<1>. DEFINE q == arg[t].on
            r == PublishTicket(g_ring[q])
<1>1. /\ users' = users /\ PoolInv' /\ mem' = mem /\ buf' = buf /\ printer' = printer /\ out' = out
      /\ pc[t] = "publish" /\ pc' = [pc EXCEPT ![t] = "idle"]
      /\ g_ring' = [g_ring EXCEPT ![q] = r] /\ arg' = [arg EXCEPT ![t] = NoCall]
      /\ g_ring[q].pending # <<>>
  BY PoolKept DEF Publish, Goto, MayPublish, pool
<1>2. q \in Channels
  BY Types
<1>3. g_ring[q] \in Rings(Loggers, Blocks) /\ r \in Rings(Loggers, Blocks)
  BY <1>1, <1>2, Types, PublishIsRing
<1>4. Contents(r) = Contents(g_ring[q])
  BY <1>1, <1>3, ContentsOfPublish
<1>5. r = PublishTicket(g_ring[q])
  OBVIOUS
<1>. HIDE DEF r, q
<1>6. /\ g_ring' \in [Channels -> Rings(Loggers, Blocks)]
      /\ DOMAIN g_ring = Channels /\ DOMAIN g_ring' = DOMAIN g_ring /\ g_ring'[q] = r
      /\ \A h \in DOMAIN g_ring : h # q => g_ring'[h] = g_ring[h]
  BY <1>1, <1>2, <1>3, Types, FamilyChanges
<1>7. NoCall \in [on : Channels, text : Texts \cup {NoText}]
  BY DEF NoCall, Channels
<1>8. TypeOK' /\ (g_ring \in [Channels -> Rings(Loggers, Blocks)])'
  BY <1>1, <1>6, <1>7, Types, TypesNext
<1>9. HandsInv'
  BY <1>1, Types DEF IInv, HandsInv
<1>10. CallInv'
  <2>. SUFFICES ASSUME NEW u \in Loggers
                PROVE  IF pc'[u] = "idle" THEN arg'[u] = NoCall ELSE arg'[u].text \in Texts
    BY DEF CallInv, NoCall, Texts, STDERR
  <2>. QED BY <1>1, Types DEF IInv, CallInv
<1>11. HeldText'
  BY <1>1, Types DEF IInv, HeldText, Texts
<1>12. QueuedText'
  <2>. SUFFICES ASSUME NEW h \in Channels, NEW n \in DOMAIN Contents(g_ring'[h])
                PROVE  mem[Contents(g_ring'[h])[n]] \in Texts
    BY <1>1 DEF QueuedText, Entries, Channels, STDOUT, STDERR, Texts
  <2>1. Contents(g_ring'[h]) = Contents(g_ring[h])
    BY <1>4, <1>6
  <2>. QED BY <2>1 DEF IInv, QueuedText, Entries
<1>13. LentOnce' /\ NoBufferLeaks'
  <2>. SUFFICES ASSUME NEW c \in Blocks
                PROVE  /\ users'[c] \in {0, 1}
                       /\ IsFiniteSet(PlacesIn(g_ring', c)) /\ IsFiniteSet(Holders(c)')
                       /\ Cardinality(PlacesIn(g_ring', c)) + Cardinality(Holders(c)')
                            + (IF out' = c THEN 1 ELSE 0) = users'[c]
    BY LeaksNext
  <2>1. /\ Cardinality(PlacesIn(g_ring, c)) \in Nat /\ Cardinality(Holders(c)) \in Nat
        /\ Cardinality({out} \cap {c}) = IF out = c THEN 1 ELSE 0
        /\ users[c] \in {0, 1}
        /\ Cardinality(PlacesIn(g_ring, c)) + Cardinality(Holders(c))
             + Cardinality({out} \cap {c}) = users[c]
    BY Counts
  <2>2. Holders(c)' = Holders(c)
    BY <1>1 DEF Holders
  <2>3. PlacesIn(g_ring', c) = PlacesIn(g_ring, c)
    <3>1. /\ q \in DOMAIN g_ring /\ g_ring[q] \in Rings(Loggers, Blocks)
          /\ g_ring[q].pending # <<>>
          /\ DOMAIN g_ring' = DOMAIN g_ring /\ g_ring'[q] = PublishTicket(g_ring[q])
          /\ \A h \in DOMAIN g_ring : h # q => g_ring'[h] = g_ring[h]
      BY <1>1, <1>2, <1>3, <1>5, <1>6
    <3>. QED BY <3>1, PlacesPublish
  <2>4. IsFiniteSet(PlacesIn(g_ring, c)) /\ IsFiniteSet(Holders(c))
    BY DEF IInv, LentOnce
  <2>. QED BY <1>1, <2>1, <2>2, <2>3, <2>4
<1>. QED BY <1>1, <1>8, <1>9, <1>10, <1>11, <1>12, <1>13 DEF IInv

\* thread1 takes the oldest buffer of a channel, and has none before.
LEMMA TakeStep ==
  ASSUME IInv, NEW q \in Channels, NEW from \in {"look_stderr", "look_stdout"}, Take(from, q)
  PROVE  IInv'
<1>. DEFINE b == Head(g_ring[q].queue)
            r == TakeHead(g_ring[q])
<1>1. /\ users' = users /\ PoolInv' /\ mem' = mem /\ pc' = pc /\ arg' = arg /\ buf' = buf
      /\ printer # "print" /\ printer' = "print" /\ g_ring[q].queue # <<>>
      /\ out' = b /\ g_ring' = [g_ring EXCEPT ![q] = r]
  BY PoolKept DEF Take, RingEmpty, pool
<1>2. g_ring[q] \in Rings(Loggers, Blocks) /\ r \in Rings(Loggers, Blocks)
  BY <1>1, Types, TakeIsRing
<1>3. /\ Contents(g_ring[q]) \in Seq(Blocks) /\ Contents(g_ring[q]) # <<>>
      /\ Contents(r) = Tail(Contents(g_ring[q])) /\ Head(Contents(g_ring[q])) = b
  BY <1>1, <1>2, ContentsIsSeq, ContentsOfTake
<1>4. r = TakeHead(g_ring[q]) /\ b = Head(g_ring[q].queue)
  OBVIOUS
<1>. HIDE DEF b, r
<1>5. b \in Blocks /\ mem[b] \in Texts /\ out \notin Blocks
  <2>. DEFINE c == Contents(g_ring[q])
  <2>1. c \in Seq(Blocks) /\ c # <<>> /\ Head(c) = b
    BY <1>3
  <2>2. \A n \in DOMAIN c : mem[c[n]] \in Texts
    BY DEF IInv, QueuedText, Entries
  <2>. HIDE DEF c
  <2>3. Len(c) \in Nat /\ Len(c) > 0 /\ DOMAIN c = 1 .. Len(c) /\ Head(c) = c[1] /\ Head(c) \in Blocks
    BY <2>1, LenProperties, EmptySeq, HeadTailProperties
  <2>4. out \notin Blocks
    BY <1>1 DEF IInv, HandsInv
  <2>. QED BY <2>1, <2>2, <2>3, <2>4
<1>6. /\ g_ring' \in [Channels -> Rings(Loggers, Blocks)]
      /\ DOMAIN g_ring = Channels /\ DOMAIN g_ring' = DOMAIN g_ring /\ g_ring'[q] = r
      /\ \A h \in DOMAIN g_ring : h # q => g_ring'[h] = g_ring[h]
  BY <1>1, <1>2, Types, FamilyChanges
<1>7. TypeOK' /\ (g_ring \in [Channels -> Rings(Loggers, Blocks)])'
  BY <1>1, <1>5, <1>6, Types, TypesNext
<1>8. HandsInv'
  BY <1>1, <1>5 DEF IInv, HandsInv
<1>9. CallInv'
  BY <1>1 DEF IInv, CallInv, NoCall, Texts, STDERR
<1>10. HeldText'
  BY <1>1, <1>5 DEF IInv, HeldText, Texts
<1>11. QueuedText'
  <2>. DEFINE K == {c \in Blocks : mem[c] \in Texts}
  <2>. SUFFICES ASSUME NEW h \in Channels, NEW n \in DOMAIN Contents(g_ring'[h])
                PROVE  mem[Contents(g_ring'[h])[n]] \in Texts
    BY <1>1 DEF QueuedText, Entries, Channels, STDOUT, STDERR, Texts
  <2>1. CASE h = q
    <3>1. \A m \in DOMAIN Contents(g_ring[q]) : Contents(g_ring[q])[m] \in K
      BY <1>3, LenProperties, ElementOfSeq DEF IInv, QueuedText, Entries
    <3>. HIDE DEF K
    <3>2. \A m \in DOMAIN Tail(Contents(g_ring[q])) : Tail(Contents(g_ring[q]))[m] \in K
      BY <1>3, <3>1, AllTail
    <3>3. Contents(g_ring'[h])[n] \in K
      BY <1>3, <1>6, <2>1, <3>2
    <3>. QED BY <3>3 DEF K
  <2>2. CASE h # q
    BY <1>6, <2>2 DEF IInv, QueuedText, Entries
  <2>. QED BY <2>1, <2>2
<1>12. LentOnce' /\ NoBufferLeaks'
  <2>. SUFFICES ASSUME NEW c \in Blocks
                PROVE  /\ users'[c] \in {0, 1}
                       /\ IsFiniteSet(PlacesIn(g_ring', c)) /\ IsFiniteSet(Holders(c)')
                       /\ Cardinality(PlacesIn(g_ring', c)) + Cardinality(Holders(c)')
                            + (IF out' = c THEN 1 ELSE 0) = users'[c]
    BY LeaksNext
  <2>1. /\ Cardinality(PlacesIn(g_ring, c)) \in Nat /\ Cardinality(Holders(c)) \in Nat
        /\ Cardinality({out} \cap {c}) = IF out = c THEN 1 ELSE 0
        /\ users[c] \in {0, 1}
        /\ Cardinality(PlacesIn(g_ring, c)) + Cardinality(Holders(c))
             + Cardinality({out} \cap {c}) = users[c]
    BY Counts
  <2>2. Cardinality({out} \cap {c}) = 0
    BY <1>5, <2>1
  <2>3. Holders(c)' = Holders(c)
    BY <1>1 DEF Holders
  <2>4. IsFiniteSet(PlacesIn(g_ring, c)) /\ IsFiniteSet(Holders(c))
    BY DEF IInv, LentOnce
  <2>5. PlacesMoved(g_ring, c, g_ring', IF Head(g_ring[q].queue) = c THEN -1 ELSE 0)
    <3>1. g_ring'[q] = TakeHead(g_ring[q]) /\ q \in DOMAIN g_ring
      BY <1>4, <1>6
    <3>. QED BY <1>1, <1>2, <1>6, <2>4, <3>1, PlacesTake
  <2>6. /\ IsFiniteSet(PlacesIn(g_ring', c))
        /\ Cardinality(PlacesIn(g_ring', c)) + (IF b = c THEN 1 ELSE 0) =
             Cardinality(PlacesIn(g_ring, c))
        /\ Cardinality(PlacesIn(g_ring', c)) \in Nat
    BY <1>4, <2>1, <2>5 DEF PlacesMoved
  <2>7. Cardinality(PlacesIn(g_ring', c)) + Cardinality(Holders(c)') + (IF out' = c THEN 1 ELSE 0) =
          users'[c]
    BY <1>1, <2>1, <2>2, <2>3, <2>6
  <2>. QED BY <1>1, <2>1, <2>3, <2>4, <2>6, <2>7
<1>. QED BY <1>1, <1>7, <1>8, <1>9, <1>10, <1>11, <1>12 DEF IInv

\* thread1 finds a channel empty.
LEMMA LookStep ==
  ASSUME IInv, NoStderr \/ NoStdout
  PROVE  IInv'
<1>1. /\ users' = users /\ PoolInv' /\ g_ring' = g_ring /\ mem' = mem /\ pc' = pc /\ arg' = arg
      /\ buf' = buf /\ out' = out
      /\ printer # "print" /\ printer' \in {"look_stderr", "look_stdout"}
  BY PoolKept DEF NoStderr, NoStdout, pool
<1>2. TypeOK' /\ (g_ring \in [Channels -> Rings(Loggers, Blocks)])'
  BY <1>1, Types, TypesNext
<1>3. HandsInv' /\ CallInv' /\ HeldText'
  BY <1>1 DEF IInv, HandsInv, CallInv, NoCall, HeldText, Texts, STDERR
<1>. QED BY <1>1, <1>2, <1>3, Unmoved, TextsUnchanged DEF IInv

\* thread1 gives the buffer it printed back to the pool, which has room for it.
Reclaims ==
  /\ printer = "print"
  /\ Pool!GiveBack(out)
  /\ mem' = [mem EXCEPT ![out] = NoText]
  /\ printer' = "look_stderr"
  /\ out' = NoBlock
  /\ UNCHANGED <<g_ring, pc, arg, buf>>

\* Or it has not.
Overflows ==
  /\ printer = "print"
  /\ Pool!Overflow(out)
  /\ UNCHANGED <<g_ring, mem, pc, arg, buf, printer, out>>

\* After its printf thread1 gives the buffer back, or the pool overflows.
LEMMA PrintCases == PrintAndReclaim => Reclaims \/ Overflows
BY DEF PrintAndReclaim, Reclaims, Overflows

\* The buffer thread1 has printed goes back to the pool.
LEMMA ReclaimStep ==
  ASSUME IInv, Reclaims
  PROVE  IInv'
<1>1. /\ g_ring' = g_ring /\ pc' = pc /\ arg' = arg /\ buf' = buf
      /\ printer = "print" /\ printer' = "look_stderr" /\ out' = NoBlock
      /\ mem' = [mem EXCEPT ![out] = NoText]
      /\ users[out] = 1 /\ users' = [users EXCEPT ![out] = 0]
  BY DEF Reclaims, Pool!GiveBack
<1>2. out \in Blocks
  BY <1>1 DEF IInv, HandsInv
<1>3. Cardinality(PlacesIn(g_ring, out)) = 0 /\ \A u \in Loggers : buf[u] # out
  BY <1>2, PrintedOnce
<1>10. PoolInv'
  <2>1. IsFiniteSet(Pool!Busy) /\ Pool!Busy' \subseteq Pool!Busy
    BY <1>1, Types DEF IInv, PoolInv, Pool!Busy
  <2>2. IsFiniteSet(Pool!Busy')
    BY <2>1, FS_Subset
  <2>3. most' = most /\ up' = up
    BY DEF Reclaims, Pool!GiveBack
  <2>. QED BY <2>2, <2>3 DEF IInv, PoolInv
<1>4. TypeOK' /\ (g_ring \in [Channels -> Rings(Loggers, Blocks)])'
  BY <1>1, <1>10, Types, TypesNext
<1>5. HandsInv'
  BY <1>1, NoBlockAssumption DEF IInv, HandsInv
<1>6. CallInv'
  BY <1>1 DEF IInv, CallInv, NoCall, Texts, STDERR
<1>7. HeldText'
  BY <1>1, <1>3, Types DEF IInv, HeldText, HandsInv, Texts
<1>8. QueuedText'
  <2>. SUFFICES ASSUME NEW q \in Channels, NEW n \in DOMAIN Entries(q)'
                PROVE  mem'[Entries(q)'[n]] \in Texts
    BY DEF QueuedText, Channels, STDOUT, STDERR, Texts
  <2>1. /\ \A m \in DOMAIN Entries(q) : mem'[Entries(q)[m]] = mem[Entries(q)[m]]
        /\ Entries(q)' = Entries(q)
    BY <1>1, <1>2, <1>3, TextsStay
  <2>. QED BY <2>1 DEF IInv, QueuedText
<1>9. LentOnce' /\ NoBufferLeaks'
  <2>. SUFFICES ASSUME NEW c \in Blocks
                PROVE  /\ users'[c] \in {0, 1}
                       /\ IsFiniteSet(PlacesIn(g_ring', c)) /\ IsFiniteSet(Holders(c)')
                       /\ Cardinality(PlacesIn(g_ring', c)) + Cardinality(Holders(c)')
                            + (IF out' = c THEN 1 ELSE 0) = users'[c]
    BY LeaksNext
  <2>1. /\ Cardinality(PlacesIn(g_ring, c)) \in Nat /\ Cardinality(Holders(c)) \in Nat
        /\ Cardinality({out} \cap {c}) = IF out = c THEN 1 ELSE 0
        /\ users[c] \in {0, 1}
        /\ Cardinality(PlacesIn(g_ring, c)) + Cardinality(Holders(c))
             + Cardinality({out} \cap {c}) = users[c]
    BY Counts
  <2>2. Holders(c)' = Holders(c)
    BY <1>1 DEF Holders
  <2>3. IsFiniteSet(PlacesIn(g_ring, c)) /\ IsFiniteSet(Holders(c))
    BY DEF IInv, LentOnce
  <2>4. users'[c] = users[c] - (IF out = c THEN 1 ELSE 0) /\ users'[c] \in {0, 1}
    BY <1>1, <2>1, Types
  <2>5. out' # c
    BY <1>1, NoBlockAssumption
  <2>. QED BY <1>1, <2>1, <2>2, <2>3, <2>4, <2>5
<1>. QED BY <1>4, <1>5, <1>6, <1>7, <1>8, <1>9, <1>10 DEF IInv

\* The program ends with the buffer in the printer's hand.
LEMMA OverflowStep ==
  ASSUME IInv, Overflows
  PROVE  IInv'
<1>1. /\ users' = users /\ g_ring' = g_ring /\ mem' = mem /\ pc' = pc /\ arg' = arg
      /\ buf' = buf /\ printer' = printer /\ out' = out /\ most' = most /\ up' = FALSE
  BY DEF Overflows, Pool!Overflow
<1>2. PoolInv'
  BY <1>1 DEF IInv, PoolInv, Pool!Busy
<1>3. TypeOK' /\ (g_ring \in [Channels -> Rings(Loggers, Blocks)])'
  BY <1>1, <1>2, Types, TypesNext
<1>4. HandsInv' /\ CallInv' /\ HeldText'
  BY <1>1 DEF IInv, HandsInv, CallInv, NoCall, HeldText, Texts, STDERR
<1>. QED BY <1>1, <1>2, <1>3, <1>4, Unmoved, TextsUnchanged DEF IInv

\* At the start nothing is logged and every buffer is free.
LEMMA InitInv == Init => IInv
<1>. SUFFICES ASSUME Init PROVE IInv
  OBVIOUS
<1>1. /\ g_ring \in [Channels -> Rings(Loggers, Blocks)] /\ DOMAIN g_ring = Channels
      /\ \A q \in DOMAIN g_ring : g_ring[q] = EmptyRing
  <2>1. EmptyRing \in Rings(Loggers, Blocks)
    BY EmptyIsRing
  <2>. QED BY <2>1 DEF Init
<1>2. TypeOK
  <2>1. \A q \in Channels :
          g_ring[q].queue \in Seq(Blocks) /\ g_ring[q].pending \in Seq([by : Loggers, val : Blocks])
    BY <1>1, FamilyTyped
  <2>2. NoCall \in [on : Channels, text : Texts \cup {NoText}]
    BY DEF NoCall, Channels
  <2>. QED BY <2>1, <2>2 DEF TypeOK, Init, Pool!Init
<1>3. HandsInv /\ CallInv /\ HeldText
  BY NoBlockAssumption DEF HandsInv, CallInv, HeldText, Init
<1>4. ASSUME NEW b \in Blocks
      PROVE  /\ IsFiniteSet(PlacesIn(g_ring, b)) /\ Cardinality(PlacesIn(g_ring, b)) = 0
             /\ IsFiniteSet(Holders(b)) /\ Cardinality(Holders(b)) = 0
             /\ Cardinality({out} \cap {b}) = 0 /\ users[b] = 0
  <2>1. IsFiniteSet(PlacesIn(g_ring, b)) /\ Cardinality(PlacesIn(g_ring, b)) = 0
    BY <1>1, PlacesInEmpty
  <2>2. Holders(b) = {} /\ {out} \cap {b} = {} /\ users[b] = 0
    BY NoBlockAssumption DEF Init, Holders, Pool!Init
  <2>. QED BY <2>1, <2>2, FS_EmptySet
<1>5. LentOnce
  BY <1>4 DEF LentOnce
<1>6. NoBufferLeaks
  BY <1>4 DEF NoBufferLeaks, Places
<1>7. QueuedText
  <2>. SUFFICES ASSUME NEW q \in Channels, NEW n \in DOMAIN Contents(g_ring[q]) PROVE FALSE
    BY DEF QueuedText, Entries
  <2>. DEFINE c == Contents(g_ring[q])[n]
  <2>1. Contents(g_ring[q]) \in Seq(Blocks) /\ c \in Blocks
    BY <1>1, ContentsIsSeq, LenProperties, ElementOfSeq
  <2>2. q \in DOMAIN g_ring /\ IsFiniteSet(PlacesIn(g_ring, c)) /\ Cardinality(PlacesIn(g_ring, c)) = 0
    BY <1>1, <1>4, <2>1
  <2>3. Cardinality(PlacesIn(g_ring, c)) \in Nat \ {0}
    BY <2>2, HasPlace
  <2>. QED BY <2>2, <2>3
<1>8. PoolInv
  <2>1. Pool!Busy = {}
    BY DEF Init, Pool!Init, Pool!Busy
  <2>. QED BY <2>1, FS_EmptySet DEF PoolInv, Init, Pool!Init
<1>. QED BY <1>1, <1>2, <1>3, <1>5, <1>6, <1>7, <1>8 DEF IInv

\* Every step keeps the invariant.
LEMMA NextInv == IInv /\ [Next]_vars => IInv'
<1>. SUFFICES ASSUME IInv, [Next]_vars PROVE IInv'
  OBVIOUS
<1>1. ASSUME NEW t \in Loggers, (\E q \in Channels : Log(t, q)) \/ LoggerStep(t) PROVE IInv'
  BY <1>1, LogStep, GetStep, FormatStep, EnqueueStep, PublishStep DEF LoggerStep
<1>2. CASE PrinterStep
  <2>1. STDERR \in Channels /\ STDOUT \in Channels
    BY DEF Channels
  <2>2. CASE TakeStderr \/ TakeStdout
    BY <2>1, <2>2, TakeStep DEF TakeStderr, TakeStdout
  <2>. QED BY <1>2, <2>2, LookStep, PrintCases, ReclaimStep, OverflowStep DEF PrinterStep
<1>3. CASE UNCHANGED vars
  <2>1. /\ users' = users /\ PoolInv' /\ g_ring' = g_ring /\ mem' = mem /\ pc' = pc /\ arg' = arg
        /\ buf' = buf /\ printer' = printer /\ out' = out
    BY <1>3, PoolKept DEF vars, pool
  <2>2. TypeOK' /\ (g_ring \in [Channels -> Rings(Loggers, Blocks)])'
    BY <2>1, Types, TypesNext
  <2>3. HandsInv' /\ CallInv' /\ HeldText'
    BY <2>1 DEF IInv, HandsInv, CallInv, NoCall, HeldText, Texts, STDERR
  <2>. QED BY <2>1, <2>2, <2>3, Unmoved, TextsUnchanged DEF IInv
<1>. QED BY <1>1, <1>2, <1>3 DEF Next

----------------------------------------------------------------------------
(* What follows *)

\* Every reachable state of the log satisfies the inductive invariant.
THEOREM Invariance == Spec => []IInv
<1>1. Init => IInv
  BY InitInv
<1>2. IInv /\ [Next]_vars => IInv'
  BY NextInv
<1>. QED BY <1>1, <1>2, PTL DEF Spec

\* The variables keep their types.
THEOREM TypeCorrect == Spec => []TypeOK
<1>1. IInv => TypeOK
  BY DEF IInv
<1>. QED BY <1>1, Invariance, PTL

\* The pool has lent out exactly the buffers that are once in a ring or in the
\* hands of a thread: none leaks, none is used by two.
THEOREM BuffersAccounted == Spec => []NoBufferLeaks
<1>1. IInv => NoBufferLeaks
  BY DEF IInv
<1>. QED BY <1>1, Invariance, PTL

----------------------------------------------------------------------------
(* The log implements AsyncLog *)

\* What is accepted on a channel, and how much of it is visible.
LEMMA BacklogIs ==
  /\ Backlog = [q \in Channels |-> Through(mem, Contents(g_ring[q]))]
  /\ Backlog' = [q \in Channels |-> Through(mem', Contents(g_ring'[q]))]
BY DEF Backlog, Entries, Through, Channels, STDOUT, STDERR

\* A step that moves nothing that AsyncLog sees.
LEMMA Stutters ==
  ASSUME Backlog' = Backlog, Visible' = Visible, Call' = Call, Printing' = Printing,
         SawNone' = SawNone
  PROVE  UNCHANGED AL!vars
BY DEF AL!vars

\* A thread that calls, not yet in a ring, is the call of AsyncLog.
LEMMA LogMaps ==
  ASSUME IInv, NEW t \in Loggers, NEW q \in Channels, Log(t, q)
  PROVE  AL!Log(t, q, t)
<1>1. /\ g_ring' = g_ring /\ mem' = mem /\ printer' = printer /\ out' = out
      /\ pc[t] = "idle" /\ pc' = [pc EXCEPT ![t] = "get"]
      /\ arg' = [arg EXCEPT ![t] = [on |-> q, text |-> t]] /\ arg[t] = NoCall
  BY DEF Log, Goto, IInv, CallInv
<1>2. Backlog' = Backlog /\ Visible' = Visible /\ Printing' = Printing /\ SawNone' = SawNone
  <2>1. Backlog' = Backlog
    BY <1>1, BacklogIs
  <2>. QED BY <1>1, <2>1 DEF Visible, Printing, SawNone, Channels, STDOUT, STDERR
<1>3. Call[t] = NoCall
  BY <1>1 DEF Call
<1>. DEFINE c == [on |-> q, text |-> t]
<1>. HIDE DEF c
<1>4. Call' = [Call EXCEPT ![t] = c]
  <2>1. \A u \in Loggers : Call'[u] = IF u = t THEN c ELSE Call[u]
    BY <1>1, Types DEF Call, c, NoCall, STDERR
  <2>2. DOMAIN Call' = Loggers /\ Call' = [u \in Loggers |-> Call'[u]]
    BY DEF Call
  <2>3. Call = [u \in Loggers |-> Call[u]]
    BY DEF Call
  <2>. QED BY <2>1, <2>2, <2>3
<1>. QED BY <1>2, <1>3, <1>4 DEF AL!Log, AL!NoCall, NoCall, c

\* Getting and filling a buffer is invisible: it is not in a ring yet.
LEMMA PrepareMaps ==
  ASSUME IInv, NEW t \in Loggers, GetBuffer(t) \/ Format(t)
  PROVE  UNCHANGED AL!vars
<1>1. \E b \in Blocks : /\ \E x : mem' = [mem EXCEPT ![b] = x]
                        /\ Cardinality(PlacesIn(g_ring, b)) = 0 /\ out # b
  <2>1. CASE GetBuffer(t)
    <3>1. PICK b \in Blocks : Pool!Get(b) /\ mem' = [mem EXCEPT ![b] = Torn]
      BY <2>1 DEF GetBuffer
    <3>2. Cardinality(PlacesIn(g_ring, b)) = 0 /\ out # b
      BY <3>1, FreeNowhere DEF Pool!Get
    <3>. QED BY <3>1, <3>2
  <2>2. CASE Format(t)
    <3>. DEFINE b == buf[t]
    <3>1. mem' = [mem EXCEPT ![b] = arg[t].text] /\ b \in Blocks
      BY <2>2 DEF Format, Goto, IInv, HandsInv
    <3>2. Cardinality(PlacesIn(g_ring, b)) = 0 /\ out # b
      <4>. HIDE DEF b
      <4>. QED BY <3>1, HeldOnce DEF b
    <3>. QED BY <3>1, <3>2
  <2>. QED BY <2>1, <2>2
<1>2. PICK b \in Blocks : /\ \E x : mem' = [mem EXCEPT ![b] = x]
                         /\ Cardinality(PlacesIn(g_ring, b)) = 0 /\ out # b
  BY <1>1
<1>3. /\ g_ring' = g_ring /\ arg' = arg /\ printer' = printer /\ out' = out
      /\ pc[t] # "publish"
      /\ \E to \in {"format", "enqueue"} : pc' = [pc EXCEPT ![t] = to]
  BY DEF GetBuffer, Format, Goto
<1>4. Backlog' = Backlog
  <2>1. \A q \in Channels : Through(mem', Contents(g_ring'[q])) = Through(mem, Contents(g_ring[q]))
    <3>. TAKE q \in Channels
    <3>1. Through(mem', Entries(q)) = Through(mem, Entries(q))
      BY <1>2, <1>3, TextsStay
    <3>. QED BY <1>3, <3>1 DEF Entries
  <2>. QED BY <2>1, BacklogIs
<1>5. Visible' = Visible /\ SawNone' = SawNone
  BY <1>3 DEF Visible, SawNone, Channels, STDOUT, STDERR
<1>6. Printing' = Printing
  BY <1>2, <1>3, Types DEF Printing, IInv, HandsInv
<1>7. Call' = Call
  BY <1>3, Types DEF Call, NoCall, STDERR
<1>. QED BY <1>4, <1>5, <1>6, <1>7, Stutters

\* Winning a ticket accepts the text.
LEMMA EnqueueMaps ==
  ASSUME IInv, NEW t \in Loggers, Enqueue(t)
  PROVE  AL!Accept(t)
<1>. DEFINE b == buf[t]
            q == arg[t].on
            m == arg[t].text
            r == ReserveTicket(g_ring[q], t, b)
<1>1. /\ mem' = mem /\ arg' = arg /\ printer' = printer /\ out' = out
      /\ pc[t] = "enqueue" /\ pc' = [pc EXCEPT ![t] = "publish"]
      /\ g_ring' = [g_ring EXCEPT ![q] = r]
  BY DEF Enqueue, Goto
<1>2. b \in Blocks /\ m \in Texts /\ q \in Channels /\ mem[b] = m
  BY <1>1, Types DEF IInv, HandsInv, CallInv, HeldText
<1>3. g_ring[q] \in Rings(Loggers, Blocks)
  BY <1>2, Types
<1>4. /\ r \in Rings(Loggers, Blocks) /\ r.queue = g_ring[q].queue
      /\ Contents(r) = Append(Contents(g_ring[q]), b)
  <2>1. /\ ReserveTicket(g_ring[q], t, b) \in Rings(Loggers, Blocks)
        /\ ReserveTicket(g_ring[q], t, b).queue = g_ring[q].queue
    BY <1>2, <1>3, ReserveLengths
  <2>2. Contents(ReserveTicket(g_ring[q], t, b)) = Append(Contents(g_ring[q]), b)
    BY <1>2, <1>3, ContentsOfReserve
  <2>. QED BY <2>1, <2>2
<1>5. Call[t] = arg[t] /\ Call[t].on = q /\ Call[t].text = m /\ Call[t] # NoCall
  <2>1. Call[t] = arg[t]
    BY <1>1 DEF Call
  <2>2. m # NoText
    BY <1>2, TextsAssumption
  <2>3. NoCall.text = NoText
    BY DEF NoCall
  <2>. QED BY <2>1, <2>2, <2>3
<1>. HIDE DEF r, q, m, b
<1>6. /\ DOMAIN g_ring = Channels /\ g_ring'[q] = r
      /\ \A h \in Channels : h # q => g_ring'[h] = g_ring[h]
  BY <1>1, <1>2, <1>4, Types, FamilyChanges
<1>7. Backlog' = [Backlog EXCEPT ![q] = Append(@, m)]
  <2>1. Through(mem, Append(Contents(g_ring[q]), b)) = Append(Through(mem, Contents(g_ring[q])), m)
    <3>1. Contents(g_ring[q]) \in Seq(Blocks)
      BY <1>3, ContentsIsSeq
    <3>. DEFINE c == Contents(g_ring[q])
                M == Texts \cup {NoText, Torn}
    <3>2. mem \in [Blocks -> M]
      BY Types
    <3>. HIDE DEF c, M
    <3>3. Through(mem, Append(c, b)) = Append(Through(mem, c), mem[b])
      BY <1>2, <3>1, <3>2, ThroughAppend DEF c
    <3>. QED BY <1>2, <3>3 DEF c
  <2>2. \A h \in Channels : Through(mem', Contents(g_ring'[h])) =
          IF h = q THEN Append(Through(mem, Contents(g_ring[q])), m)
          ELSE Through(mem, Contents(g_ring[h]))
    BY <1>1, <1>4, <1>6, <2>1
  <2>3. Backlog[q] = Through(mem, Contents(g_ring[q]))
    BY <1>2, BacklogIs
  <2>. QED BY <1>2, <2>2, <2>3, BacklogIs
<1>8. Visible' = Visible
  <2>1. \A h \in Channels : Len(g_ring'[h].queue) = Len(g_ring[h].queue)
    BY <1>4, <1>6
  <2>. QED BY <2>1 DEF Visible, Channels, STDOUT, STDERR
<1>9. Printing' = Printing /\ SawNone' = SawNone
  BY <1>1 DEF Printing, SawNone
<1>10. Call' = [Call EXCEPT ![t] = NoCall]
  BY <1>1, Types DEF Call, NoCall, STDERR
<1>. QED BY <1>5, <1>7, <1>8, <1>9, <1>10 DEF AL!Accept, AL!NoCall, NoCall

\* Publishing the ticket shows one more text.
LEMMA PublishMaps ==
  ASSUME IInv, NEW t \in Loggers, Publish(t)
  PROVE  \E q \in Channels : AL!Show(q)
<1>. DEFINE q == arg[t].on
            r == PublishTicket(g_ring[q])
<1>1. /\ mem' = mem /\ printer' = printer /\ out' = out
      /\ pc[t] = "publish" /\ pc' = [pc EXCEPT ![t] = "idle"]
      /\ g_ring' = [g_ring EXCEPT ![q] = r] /\ arg' = [arg EXCEPT ![t] = NoCall]
      /\ g_ring[q].pending # <<>>
  BY DEF Publish, Goto, MayPublish
<1>2. q \in Channels
  BY Types
<1>3. g_ring[q] \in Rings(Loggers, Blocks)
  BY <1>2, Types
<1>4. /\ r \in Rings(Loggers, Blocks) /\ Len(r.queue) = Len(g_ring[q].queue) + 1
      /\ Contents(r) = Contents(g_ring[q])
  BY <1>1, <1>3, PublishIsRing, ContentsOfPublish
<1>. HIDE DEF r, q
<1>5. /\ DOMAIN g_ring = Channels /\ g_ring'[q] = r
      /\ \A h \in Channels : h # q => g_ring'[h] = g_ring[h]
  BY <1>1, <1>2, <1>4, Types, FamilyChanges
<1>6. Backlog' = Backlog
  <2>1. \A h \in Channels : Contents(g_ring'[h]) = Contents(g_ring[h])
    BY <1>4, <1>5
  <2>. QED BY <1>1, <2>1, BacklogIs
<1>7. Visible[q] < Len(Backlog[q])
  <2>1. /\ Contents(g_ring[q]) \in Seq(Blocks)
        /\ Len(Contents(g_ring[q])) = Len(g_ring[q].queue) + Len(g_ring[q].pending)
    BY <1>3, ContentsIsSeq
  <2>2. Len(g_ring[q].queue) \in Nat /\ Len(g_ring[q].pending) \in Nat /\ Len(g_ring[q].pending) > 0
    BY <1>1, <1>3, RingFields
  <2>3. Len(Backlog[q]) = Len(Contents(g_ring[q]))
    <3>1. Backlog[q] = Through(mem, Contents(g_ring[q]))
      BY <1>2, BacklogIs
    <3>. QED BY <2>1, <3>1, ThroughLen
  <2>4. Visible[q] = Len(g_ring[q].queue)
    BY <1>2 DEF Visible
  <2>. DEFINE x == Len(g_ring[q].queue)
              y == Len(g_ring[q].pending)
  <2>5. x \in Nat /\ y \in Nat /\ y > 0 /\ Visible[q] = x /\ Len(Backlog[q]) = x + y
    BY <2>1, <2>2, <2>3, <2>4
  <2>. HIDE DEF x, y
  <2>. QED BY <2>5
<1>8. Visible' = [Visible EXCEPT ![q] = @ + 1]
  <2>1. \A h \in Channels : Len(g_ring'[h].queue) =
          IF h = q THEN Len(g_ring[q].queue) + 1 ELSE Len(g_ring[h].queue)
    BY <1>4, <1>5
  <2>2. Visible' = [h \in Channels |-> Len(g_ring'[h].queue)]
    BY DEF Visible, Channels, STDOUT, STDERR
  <2>. QED BY <1>2, <2>1, <2>2 DEF Visible
<1>9. Printing' = Printing /\ SawNone' = SawNone
  BY <1>1 DEF Printing, SawNone
<1>10. Call' = Call
  BY <1>1, Types DEF Call, NoCall, STDERR
<1>. QED BY <1>2, <1>6, <1>7, <1>8, <1>9, <1>10 DEF AL!Show

\* thread1 takes the oldest text of the channel whose turn it is.
LEMMA TakeMaps ==
  ASSUME IInv, NEW q \in Channels, NEW from \in {"look_stderr", "look_stdout"}, Take(from, q),
         q = STDOUT <=> from = "look_stdout"
  PROVE  AL!Take(q)
<1>. DEFINE b == Head(g_ring[q].queue)
            r == TakeHead(g_ring[q])
            c == Contents(g_ring[q])
<1>1. /\ mem' = mem /\ pc' = pc /\ arg' = arg
      /\ printer = from /\ printer' = "print" /\ g_ring[q].queue # <<>>
      /\ out' = b /\ g_ring' = [g_ring EXCEPT ![q] = r]
  BY DEF Take, RingEmpty
<1>2. g_ring[q] \in Rings(Loggers, Blocks)
  BY Types
<1>3. /\ r \in Rings(Loggers, Blocks) /\ Len(r.queue) = Len(g_ring[q].queue) - 1
      /\ c \in Seq(Blocks) /\ c # <<>> /\ Contents(r) = Tail(c) /\ Head(c) = b
  BY <1>1, <1>2, TakeIsRing, ContentsIsSeq, ContentsOfTake
<1>4. Len(g_ring[q].queue) \in Nat /\ Len(g_ring[q].queue) > 0
  BY <1>1, <1>2, RingFields
<1>5. Backlog[q] = Through(mem, c)
  BY BacklogIs
<1>. HIDE DEF b, r, c
<1>6. /\ DOMAIN g_ring = Channels /\ g_ring'[q] = r
      /\ \A h \in Channels : h # q => g_ring'[h] = g_ring[h]
  BY <1>1, <1>3, Types, FamilyChanges
<1>7. Through(mem, Tail(c)) = Tail(Backlog[q]) /\ Head(Backlog[q]) = mem[b]
  <2>. DEFINE M == Texts \cup {NoText, Torn}
  <2>2. mem \in [Blocks -> M]
    BY Types
  <2>. HIDE DEF M
  <2>1. /\ Through(mem, Tail(c)) = Tail(Through(mem, c))
        /\ Head(Through(mem, c)) = mem[Head(c)]
    BY <1>3, <2>2, ThroughTail
  <2>. QED BY <1>3, <1>5, <2>1
<1>8. Backlog' = [Backlog EXCEPT ![q] = Tail(@)]
  <2>1. \A h \in Channels : Through(mem', Contents(g_ring'[h])) =
          IF h = q THEN Tail(Backlog[q]) ELSE Through(mem, Contents(g_ring[h]))
    BY <1>1, <1>3, <1>6, <1>7
  <2>. QED BY <2>1, BacklogIs
<1>9. Visible[q] > 0
  BY <1>4 DEF Visible
<1>10. Visible' = [Visible EXCEPT ![q] = @ - 1]
  <2>1. \A h \in Channels : Len(g_ring'[h].queue) =
          IF h = q THEN Len(g_ring[q].queue) - 1 ELSE Len(g_ring[h].queue)
    BY <1>3, <1>6
  <2>2. Visible' = [h \in Channels |-> Len(g_ring'[h].queue)]
    BY DEF Visible, Channels, STDOUT, STDERR
  <2>. QED BY <2>1, <2>2 DEF Visible
<1>11. Printing = NoText /\ Printing' = Head(Backlog[q])
  BY <1>1, <1>7 DEF Printing
<1>12. (q = STDOUT <=> SawNone) /\ SawNone' = FALSE
  BY <1>1 DEF SawNone
<1>13. Call' = Call
  BY <1>1 DEF Call, NoCall, STDERR
<1>. QED BY <1>8, <1>9, <1>10, <1>11, <1>12, <1>13 DEF AL!Take

\* thread1 looks at a channel that shows nothing.
LEMMA LookMaps ==
  ASSUME IInv, NoStderr \/ NoStdout
  PROVE  AL!LookAtFirst \/ AL!LookAtSecond
<1>1. /\ g_ring' = g_ring /\ mem' = mem /\ pc' = pc /\ arg' = arg /\ out' = out
      /\ printer # "print" /\ printer' # "print"
  BY DEF NoStderr, NoStdout
<1>2. Backlog' = Backlog /\ Visible' = Visible /\ Printing' = NoText /\ Printing = NoText
      /\ Call' = Call
  <2>1. Backlog' = Backlog
    BY <1>1, BacklogIs
  <2>. QED BY <1>1, <2>1 DEF Visible, Printing, Call, NoCall, Channels, STDOUT, STDERR
<1>3. CASE NoStderr
  <2>1. Visible[STDERR] = 0 /\ SawNone = FALSE /\ SawNone' = TRUE
    BY <1>3 DEF NoStderr, Visible, SawNone, RingEmpty, Channels
  <2>. QED BY <1>2, <2>1 DEF AL!LookAtFirst
<1>4. CASE NoStdout
  <2>1. Visible[STDOUT] = 0 /\ SawNone = TRUE /\ SawNone' = FALSE
    BY <1>4 DEF NoStdout, Visible, SawNone, RingEmpty, Channels
  <2>. QED BY <1>2, <2>1 DEF AL!LookAtSecond
<1>. QED BY <1>3, <1>4

\* thread1 has printed, and the buffer it gives back is in no ring.
LEMMA PrintMaps ==
  ASSUME IInv, Reclaims
  PROVE  AL!Printed
<1>1. /\ g_ring' = g_ring /\ pc' = pc /\ arg' = arg
      /\ printer = "print" /\ printer' = "look_stderr"
      /\ mem' = [mem EXCEPT ![out] = NoText]
  BY DEF Reclaims
<1>2. out \in Blocks /\ mem[out] \in Texts
  BY <1>1 DEF IInv, HandsInv, HeldText
<1>3. Cardinality(PlacesIn(g_ring, out)) = 0
  BY <1>2, PrintedOnce
<1>4. Backlog' = Backlog
  <2>1. \A q \in Channels : Through(mem', Contents(g_ring'[q])) = Through(mem, Contents(g_ring[q]))
    <3>. TAKE q \in Channels
    <3>1. Through(mem', Entries(q)) = Through(mem, Entries(q))
      BY <1>1, <1>2, <1>3, TextsStay
    <3>. QED BY <1>1, <3>1 DEF Entries
  <2>. QED BY <2>1, BacklogIs
<1>5. Visible' = Visible /\ Call' = Call /\ SawNone' = SawNone
  BY <1>1 DEF Visible, Call, NoCall, SawNone, Channels, STDOUT, STDERR
<1>6. Printing # NoText /\ Printing' = NoText
  BY <1>1, <1>2, TextsAssumption DEF Printing
<1>. QED BY <1>4, <1>5, <1>6 DEF AL!Printed

\* AsyncLog starts with nothing logged.
LEMMA InitMaps == Init => AL!Init
<1>. SUFFICES ASSUME Init PROVE AL!Init
  OBVIOUS
<1>1. \A q \in Channels : g_ring[q].queue = <<>> /\ Contents(g_ring[q]) = <<>>
  <2>1. EmptyRing \in Rings({}, {}) /\ EmptyRing.queue = <<>> /\ EmptyRing.pending = <<>>
    BY EmptyIsRing
  <2>2. /\ Contents(EmptyRing) \in Seq({})
        /\ Len(Contents(EmptyRing)) = Len(EmptyRing.queue) + Len(EmptyRing.pending)
    BY <2>1, ContentsIsSeq
  <2>3. Contents(EmptyRing) = <<>>
    BY <2>1, <2>2, EmptySeq
  <2>. QED BY <2>1, <2>3 DEF Init
<1>2. Backlog = [q \in {STDERR, STDOUT} |-> <<>>]
  <2>1. \A q \in Channels : DOMAIN Contents(g_ring[q]) = {}
    BY <1>1
  <2>2. \A q \in Channels : Through(mem, Contents(g_ring[q])) = <<>>
    <3>. TAKE q \in Channels
    <3>1. <<>> \in Seq(Blocks)
      BY EmptySeq
    <3>2. Through(mem, <<>>) = <<>>
      BY DEF Through
    <3>. QED BY <1>1, <3>2
  <2>3. Channels = {STDERR, STDOUT}
    BY DEF Channels
  <2>. QED BY <2>2, <2>3, BacklogIs
<1>3. Visible = [q \in {STDERR, STDOUT} |-> 0]
  BY <1>1 DEF Visible, Channels
<1>4. Call = [t \in Loggers |-> NoCall] /\ Printing = NoText /\ SawNone = FALSE
  BY DEF Init, Call, Printing, SawNone
<1>. QED BY <1>2, <1>3, <1>4 DEF AL!Init, AL!Channels, AL!NoCall, NoCall

\* Every step of the log is a step of AsyncLog, or none.
LEMMA StepMaps == IInv /\ [Next]_vars => [AL!Next]_AL!vars
<1>. SUFFICES ASSUME IInv, [Next]_vars PROVE AL!Next \/ UNCHANGED AL!vars
  OBVIOUS
<1>1. Channels = AL!Channels /\ STDERR \in Channels /\ STDOUT \in Channels /\ Texts = Loggers
  BY DEF Channels, AL!Channels, Texts
<1>2. ASSUME NEW t \in Loggers, NEW q \in Channels, Log(t, q) PROVE AL!Next
  <2>1. AL!Log(t, q, t)
    BY <1>2, LogMaps
  <2>. QED BY <1>1, <2>1 DEF AL!Next
<1>3. ASSUME NEW t \in Loggers, GetBuffer(t) \/ Format(t) PROVE UNCHANGED AL!vars
  BY <1>3, PrepareMaps
<1>4. ASSUME NEW t \in Loggers, Enqueue(t) PROVE AL!Next
  BY <1>4, EnqueueMaps DEF AL!Next
<1>5. ASSUME NEW t \in Loggers, Publish(t) PROVE AL!Next
  BY <1>1, <1>5, PublishMaps DEF AL!Next
<1>6. ASSUME TakeStderr \/ TakeStdout PROVE AL!Next
  <2>1. CASE TakeStderr
    <3>1. Take("look_stderr", STDERR) /\ ~ (STDERR = STDOUT)
      BY <2>1 DEF TakeStderr, STDERR, STDOUT
    <3>2. AL!Take(STDERR)
      BY <1>1, <3>1, TakeMaps
    <3>. QED BY <1>1, <3>2 DEF AL!Next
  <2>2. CASE TakeStdout
    <3>1. Take("look_stdout", STDOUT)
      BY <2>2 DEF TakeStdout
    <3>2. AL!Take(STDOUT)
      BY <1>1, <3>1, TakeMaps
    <3>. QED BY <1>1, <3>2 DEF AL!Next
  <2>. QED BY <1>6, <2>1, <2>2
<1>7. ASSUME NoStderr \/ NoStdout \/ Reclaims PROVE AL!Next
  BY <1>7, LookMaps, PrintMaps DEF AL!Next
<1>8. ASSUME Overflows \/ UNCHANGED vars PROVE UNCHANGED AL!vars
  <2>1. /\ g_ring' = g_ring /\ mem' = mem /\ pc' = pc /\ arg' = arg
        /\ printer' = printer /\ out' = out
    BY <1>8 DEF vars, Overflows
  <2>2. Backlog' = Backlog
    BY <2>1, BacklogIs
  <2>3. Visible' = Visible /\ Call' = Call /\ Printing' = Printing /\ SawNone' = SawNone
    BY <2>1 DEF Visible, Call, NoCall, Printing, SawNone, Channels, STDOUT, STDERR
  <2>. QED BY <2>2, <2>3, Stutters
<1>. QED BY <1>2, <1>3, <1>4, <1>5, <1>6, <1>7, <1>8, PrintCases DEF Next, LoggerStep, PrinterStep

\* What eg_log prints is what was logged: whole, once, in order on its channel,
\* and STDOUT waits for STDERR. The log implements AsyncLog.
THEOREM LogImplementsAsyncLog == Spec => ImplementsAsyncLog
<1>1. Init => AL!Init
  BY InitMaps
<1>2. IInv /\ [Next]_vars => [AL!Next]_AL!vars
  BY StepMaps
<1>. QED BY <1>1, <1>2, Invariance, PTL DEF Spec, ImplementsAsyncLog, AL!Spec
===============================================================================
