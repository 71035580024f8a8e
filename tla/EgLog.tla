------------------------------- MODULE EgLog -------------------------------
(***************************************************************************)
(* test_example1/eg_log.c: ecs_os_api.log_ without I/O in the thread that  *)
(* logs.                                                                   *)
(*                                                                         *)
(*   eg_mempool_get -> sprintf -> ring of the channel -> printf ->         *)
(*   eg_mempool_reclaim_ex                                                 *)
(*                                                                         *)
(* Levels below zero go to CHANNEL_STDERR, the others to CHANNEL_STDOUT.   *)
(* thread1 looks at STDERR first and at STDOUT only when it finds nothing. *)
(* The pool is BufferPool, which EgMempool implements; ring calls are the  *)
(* steps of RingOps, which CkRing implements; a call that finds its ring   *)
(* full is repeated (enqueue_blocking), so it is a step that waits.        *)
(*                                                                         *)
(* A pool ring holds far fewer buffers than the channels do. One that      *)
(* thread1 gives back into a full one is passed to free, which never       *)
(* returned that pointer: the program ends there, "up" is FALSE.           *)
(*                                                                         *)
(* A buffer has room for its text here. What eg_log_msg1 asks for is the   *)
(* length of the message alone, which is less.                             *)
(***************************************************************************)
EXTENDS RingOps, FiniteSets

CONSTANTS Loggers,        \* threads that log, each the same text all the time
          NoText,         \* what is in a buffer nobody uses
          Torn,           \* what a buffer holds until sprintf is done
          Blocks,         \* bound: the buffers the pool can hand out
          NoBlock,
          RingSlots,      \* EG_LOG_RING_CAPACITY
          PoolCapacity    \* how many buffers a ring of the pool holds

Texts == Loggers          \* a text is known by the thread that logs it

ASSUME TextsAssumption == NoText \notin Texts /\ Torn \notin Texts /\ NoText # Torn
ASSUME NoBlockAssumption == NoBlock \notin Blocks
ASSUME RingSlotsAssumption == RingSlots \in Nat /\ RingSlots >= 2

VARIABLES users,      \* the pool: how many use each buffer,
          most,       \* the most buffers that were in use at once,
          up,         \* and whether none was passed to free
          g_ring,     \* g_ring[q]: the ring of channel q
          mem,        \* mem[b]: the text in buffer b
          pc,         \* pc[t]: where logging thread t is
          arg,        \* arg[t]: the channel and text of t's call
          buf,        \* buf[t]: t's buffer
          printer,    \* where thread1 is
          out         \* thread1's buffer

pool == <<users, most, up>>
vars == <<pool, g_ring, mem, pc, arg, buf, printer, out>>

STDOUT == "STDOUT"
STDERR == "STDERR"
Channels == {STDOUT, STDERR}

Pool == INSTANCE BufferPool WITH Capacity <- PoolCapacity

RingCapacity == RingSlots - 1

NoCall == [on |-> STDERR, text |-> NoText]

Goto(t, from, to) == pc[t] = from /\ pc' = [pc EXCEPT ![t] = to]

\* FlecsComponentsEgLogImport, up to the start of the threads
Init ==
  /\ Pool!Init
  /\ g_ring = [q \in Channels |-> EmptyRing]
  /\ mem = [b \in Blocks |-> NoText]
  /\ pc = [t \in Loggers |-> "idle"]
  /\ arg = [t \in Loggers |-> NoCall]
  /\ buf = [t \in Loggers |-> NoBlock]
  /\ printer = "look_stderr"
  /\ out = NoBlock

----------------------------------------------------------------------------
(* eg_log_msg1 *)

Log(t, q) ==
  /\ up
  /\ Goto(t, "idle", "get")
  /\ arg' = [arg EXCEPT ![t] = [on |-> q, text |-> t]]
  /\ UNCHANGED <<pool, g_ring, mem, buf, printer, out>>

\* eg_mempool_get; from here to the end of sprintf the buffer has no text yet.
GetBuffer(t) ==
  /\ Goto(t, "get", "format")
  /\ \E b \in Blocks :
       /\ Pool!Get(b)
       /\ buf' = [buf EXCEPT ![t] = b]
       /\ mem' = [mem EXCEPT ![b] = Torn]
  /\ UNCHANGED <<g_ring, arg, printer, out>>

\* sprintf is done.
Format(t) ==
  /\ Goto(t, "format", "enqueue")
  /\ mem' = [mem EXCEPT ![buf[t]] = arg[t].text]
  /\ UNCHANGED <<pool, g_ring, arg, buf, printer, out>>

\* Mutant of Enqueue: passes the message on instead of the buffer.
PassesMessage(t) ==
  LET q == arg[t].on IN
  /\ Goto(t, "enqueue", "publish")
  /\ ~ RingFull(g_ring[q], RingCapacity)
  /\ g_ring' = [g_ring EXCEPT ![q] = ReserveTicket(@, t, arg[t].text)]
  /\ buf' = [buf EXCEPT ![t] = NoBlock]
  /\ UNCHANGED <<pool, mem, arg, printer, out>>

\* enqueue_blocking: the ring has room.
Enqueue(t) ==
  LET q == arg[t].on IN
  /\ Goto(t, "enqueue", "publish")
  /\ ~ RingFull(g_ring[q], RingCapacity)
  /\ g_ring' = [g_ring EXCEPT ![q] = ReserveTicket(@, t, buf[t])]
  /\ buf' = [buf EXCEPT ![t] = NoBlock]
  /\ UNCHANGED <<pool, mem, arg, printer, out>>

Publish(t) ==
  LET q == arg[t].on IN
  /\ Goto(t, "publish", "idle")
  /\ MayPublish(g_ring[q], t)
  /\ g_ring' = [g_ring EXCEPT ![q] = PublishTicket(@)]
  /\ arg' = [arg EXCEPT ![t] = NoCall]
  /\ UNCHANGED <<pool, mem, buf, printer, out>>

----------------------------------------------------------------------------
(* thread1: consume_print(CHANNEL_STDERR) || consume_print(CHANNEL_STDOUT) *)

\* Mutant of Take: gives the buffer back as soon as it is taken.
ReclaimsWhenTaken(from, q) ==
  /\ printer = from
  /\ ~ RingEmpty(g_ring[q])
  /\ out' = Head(g_ring[q].queue)
  /\ g_ring' = [g_ring EXCEPT ![q] = TakeHead(@)]
  /\ printer' = "print"
  /\ Pool!GiveBack(Head(g_ring[q].queue))
  /\ UNCHANGED <<mem, pc, arg, buf>>

Take(from, q) ==
  /\ printer = from
  /\ ~ RingEmpty(g_ring[q])
  /\ out' = Head(g_ring[q].queue)
  /\ g_ring' = [g_ring EXCEPT ![q] = TakeHead(@)]
  /\ printer' = "print"
  /\ UNCHANGED <<pool, mem, pc, arg, buf>>

TakeStderr == Take("look_stderr", STDERR)
TakeStdout == Take("look_stdout", STDOUT)

\* Mutant of NoStderr: does not care whether STDERR has more.
AlternatesChannels ==
  /\ printer = "look_stderr"
  /\ printer' = "look_stdout"
  /\ UNCHANGED <<pool, g_ring, mem, pc, arg, buf, out>>

NoStderr ==
  /\ printer = "look_stderr"
  /\ RingEmpty(g_ring[STDERR])
  /\ printer' = "look_stdout"
  /\ UNCHANGED <<pool, g_ring, mem, pc, arg, buf, out>>

\* Nothing in either channel: stall, sleep, look again.
NoStdout ==
  /\ printer = "look_stdout"
  /\ RingEmpty(g_ring[STDOUT])
  /\ printer' = "look_stderr"
  /\ UNCHANGED <<pool, g_ring, mem, pc, arg, buf, out>>

\* Mutant of PrintAndReclaim: forgets the buffer.
LeaksBuffer ==
  /\ printer = "print"
  /\ printer' = "look_stderr"
  /\ out' = NoBlock
  /\ UNCHANGED <<pool, g_ring, mem, pc, arg, buf>>

\* printf is done: eg_mempool_reclaim_ex; consume_print returned true, so
\* STDERR is next. What the buffer holds in the pool is read by nobody. Or the
\* pool has no room for it, and eg_mempool_reclaim_ex does not come back.
PrintAndReclaim ==
  /\ printer = "print"
  /\ \/ /\ Pool!GiveBack(out)
        /\ mem' = [mem EXCEPT ![out] = NoText]
        /\ printer' = "look_stderr"
        /\ out' = NoBlock
     \/ /\ Pool!Overflow(out)
        /\ UNCHANGED <<mem, printer, out>>
  /\ UNCHANGED <<g_ring, pc, arg, buf>>

----------------------------------------------------------------------------
LoggerStep(t) ==
  /\ up
  /\ GetBuffer(t) \/ Format(t) \/ Enqueue(t) \/ Publish(t)

PrinterStep ==
  /\ up
  /\ TakeStderr \/ NoStderr \/ TakeStdout \/ NoStdout \/ PrintAndReclaim

Next ==
  \/ \E t \in Loggers :
       (\E q \in Channels : Log(t, q)) \/ LoggerStep(t)
  \/ PrinterStep

Spec == Init /\ [][Next]_vars
----------------------------------------------------------------------------
(* The log this implements. *)

Entries(q) == Contents(g_ring[q])

\* What AsyncLog calls them: the texts in the buffers of a channel's ring, how
\* many of them are published, what a thread logs until it has a ticket, and
\* what thread1 prints.
Backlog == [q \in Channels |-> [n \in DOMAIN Entries(q) |-> mem[Entries(q)[n]]]]
Visible == [q \in Channels |-> Len(g_ring[q].queue)]
Call == [t \in Loggers |-> IF pc[t] = "publish" THEN NoCall ELSE arg[t]]
Printing == IF printer = "print" THEN mem[out] ELSE NoText
SawNone == printer = "look_stdout"

AL == INSTANCE AsyncLog WITH
  First <- STDERR, Second <- STDOUT, backlog <- Backlog, visible <- Visible,
  call <- Call, printing <- Printing, sawNone <- SawNone

\* What is printed is what was logged: whole, once, in order on its channel,
\* although its buffer is reused as soon as the pool has it back; and STDOUT
\* waits for STDERR.
ImplementsAsyncLog == AL!Spec

----------------------------------------------------------------------------
(* Invariants *)

TypeOK ==
  /\ users \in [Blocks -> Nat] /\ most \in Nat /\ up \in BOOLEAN
  /\ \A q \in Channels :
       /\ g_ring[q].queue \in Seq(Blocks)
       /\ g_ring[q].pending \in Seq([by : Loggers, val : Blocks])
  /\ mem \in [Blocks -> Texts \cup {NoText, Torn}]
  /\ pc \in [Loggers -> {"idle", "get", "format", "enqueue", "publish"}]
  /\ arg \in [Loggers -> [on : Channels, text : Texts \cup {NoText}]]
  /\ buf \in [Loggers -> Blocks \cup {NoBlock}]
  /\ printer \in {"look_stderr", "look_stdout", "print"}
  /\ out \in Blocks \cup {NoBlock}

Holders(b) == {t \in Loggers : buf[t] = b}

\* How many places hold buffer b: entries of the rings, logging threads, thread1.
Places(b) ==
  Cardinality(PlacesIn(g_ring, b))
  + Cardinality(Holders(b))
  + Cardinality({out} \cap {b})

\* No buffer leaks and none is used by two: the pool has lent out exactly the
\* buffers that are in a ring, once, or in the hands of a thread.
NoBufferLeaks ==
  \A b \in Blocks : Places(b) = users[b]

----------------------------------------------------------------------------
(* Liveness *)

\* The scheduler runs thread1 and each logging thread again and again; nothing
\* makes a thread log, or stop logging.
FairSpec ==
  /\ Spec
  /\ WF_vars(PrinterStep)
  /\ \A t \in Loggers : WF_vars(LoggerStep(t))

\* Buffer b has a ticket of channel q, and thread1 has not taken it for printing.
Waits(q, b) == \E n \in DOMAIN Entries(q) : Entries(q)[n] = b

\* No error that has a ticket waits for ever: it gets printed, or the program ends
\* before that.
ErrorsPrinted ==
  \A b \in Blocks : []<>(~ Waits(STDERR, b) \/ ~ up)

\* Nothing else does if thread1 finds no error again and again; a stream of errors
\* that never pauses starves STDOUT.
InfoPrintedBetweenErrors ==
  []<>(printer = "look_stdout") =>
    \A b \in Blocks : []<>(~ Waits(STDOUT, b) \/ ~ up)

\* What is accepted is printed: errors whatever else is logged, other lines if
\* errors pause again and again. Only a pool ring that is full ends that, and it
\* takes more than PoolCapacity lines at once to fill one.
LinesPrinted == ErrorsPrinted /\ InfoPrintedBetweenErrors

=============================================================================
