# Verification of flecs_socket

TLA+ specifications of the concurrent core of this repository, the TLC
configurations that check them on small instances, and proofs checked by TLAPS.
Paths below are relative to the repository, which is found under `src/`.

## The system

The repository is a collection of programs around one theme: feeding an entity
component system (flecs) from sockets and threads. Each `test_*` directory is a
program with its own copy of what it needs.

| part | source | state | operations | how it interacts |
|---|---|---|---|---|
| ring (ck_ring) | `test_example1/ck/include/ck_ring.h` (same file in `test_threads/ck`) | `c_head`, `p_tail`, `p_head`, a buffer of entries | init, enqueue, dequeue, valid; variants by number of producers and consumers | shared memory between threads, no lock |
| eg_cklog | `test_threads/eg_cklog.c` (same file in `test_example1`) | two rings, an array of message slots | create, enqueue (log), consume (print) | slot numbers circulate between two rings |
| eg_mempool | `test_example1/eg_mempool.c` | a ring per size class, a header byte per buffer | get, reclaim, reclaim_ex | buffers move between callers, rings and malloc |
| eg_log | `test_example1/eg_log.c` (`eg_log2.c` is an unfinished earlier version) | a ring per output channel, a pool | the `ecs_os_api.log_` hook, printing thread | takes buffers from eg_mempool, passes them through a ring |
| EgNetProtocol1 | `test_example1/eg_net.c` | `action` and `state` of a thread | start, system, thread | entity component <-> thread through shared fields |
| EgThread | `test_example/eg_thread.c`, `eg_net.c` | `state`, callback, lock and the pointer to them in a component | action, set_callback, component hooks (constructor, move, copy) | component storage of flecs <-> a running thread |
| wsServer: clients | `test_ws/src/ws.c` | `client_socks[MAX_CLIENTS]` (socket, port, state, time-out thread), ports | accept, client thread, send and broadcast, close with time-out | accept, client and time-out threads and API callers under a global mutex and one per slot |
| wsServer: frames | `test_ws/src/ws.c`, `src/utf8/utf8.c` | the data, type and UTF-8 state of the message being read, the state of the connection | read a frame, answer a ping, answer a close, deliver a message | the client thread; `ws_close_client` and its time-out change the state meanwhile |
| ecs_ws | `test_ws/ecs_ws.c`, `main_custom.c` | components of a server entity and of the entity of the connections | open, bind, listen; acceptor and reader threads | threads that mutate the world, observers that start threads |
| flecs_uv | `test_libuv/flecs_uv.c`, `circularbuf.h` | a receive buffer per connection | listen, accept, alloc and read callbacks | callbacks of the libuv loop |
| flecs_socket | `test_custom/flecs_socket_mingw.c` | none | wrappers of socket calls | |
| vendored | `flecs.c`, `flecs.h`, the rest of `ck/`, wsServer's base64 and SHA-1 | | | |

What is hard in it: the rings are lock free and everything above them trusts
them; buffers and slots change hands between threads without a lock; retry
loops have no bound; wsServer frees and reuses a slot from three kinds of thread
under two mutexes; and sizes and counters are computed in narrow types.
`PROJECT.json` lists every such hazard at its line.

What makes each part correct:

- **ring**: entries come out once, in the order in which producers won tickets,
  and as they were put in; a failed call means the ring was full (or empty)
  while it ran; no call hangs when the threads run.
- **eg_cklog**: a message is printed whole and once, in order; a slot is never
  written while another thread uses it; slots are not lost; logging never waits
  for printing.
- **eg_mempool**: a buffer has one owner and enough room; the header leads it
  back to its ring; a ring that is full harms nobody. (The second holds with
  exceptions, the last does not hold, see below.)
- **eg_log**: what is logged gets printed, each buffer returns to the pool.
- **EgThread, EgNetProtocol1**: a thread that is told to stop stops; the
  asserted transitions are the ones that happen; an argument is freed once.
- **wsServer, clients**: a connection that is served keeps its slot and its
  descriptor to itself; neither leaks; a mutex outlives its users; a connection
  that does not answer a close frame is closed; a broadcast goes to the clients
  of the right port. (That a send returns is taken for granted.)
- **wsServer, frames**: messages arrive whole however they are cut, and pings
  are answered between their pieces; text is UTF-8; nobody who keeps to the
  protocol is refused; when the connection is being closed nothing more is handled
  (which holds up to one frame, and only while the state is CLOSING).
- **flecs_uv**: what is received is written inside the buffer, after what came
  before, and everything is received.
- **ecs_ws**: the accept thread has its socket, and each reader thread reads the
  connection it was started for or a newer one.

## Modules

```
RingOps        values and operators of one ring
  RingQueue      the promise of a ring           <- CkRing        the lock-free code
  EgCkLog        two rings and slots             -> MsgLog        the promise of the log
  EgMempool      a ring per size class           -> BufferPool    the promise of the pool
  EgLog          two rings over a BufferPool     -> AsyncLog      the promise of eg_log
WsServer       the clients of wsServer and their threads
WsFrame        the frames of one of them         uses Utf8, the automaton of utf8.c
FlecsUv        the connections of test_libuv
EcsWs          the entities and threads of test_ws
MC*            the instances TLC checks
*_proofs       TLAPS proofs about CkRing, EgCkLog, EgMempool, EgLog, WsServer,
               WsFrame and EcsWs, each in the module of that name; those about
               Utf8 are in WsFrame_proofs, those about FlecsUv in CkRing_proofs;
               RingOps_proofs has the lemmas about rings and counting that
               EgCkLog, EgMempool and EgLog share
```

### RingOps and RingQueue

`RingOps` gives a ring as a value: a sequence of published entries and a
sequence of tickets that were won but not published. `RingQueue` turns it into
the specification of a bounded multi-producer multi-consumer FIFO. A call of a
thread is several steps there too (begin, win a ticket, publish, return),
because the users of the ring can tell: a thread that won a ticket and was
preempted holds up the publication of later ones. A call may fail only if the
ring was full (enqueue) or had nothing published (dequeue) at some moment while
the call ran; `mayFail` records that.

### CkRing

`_ck_ring_enqueue_mp` and `_ck_ring_dequeue_mc` with one action per access to
shared memory; `pc[t]` names the next access of thread `t`:

| code | actions |
|---|---|
| load of `p_head` at the start of an enqueue (line 322) | `EnqueueCall` |
| load of `c_head`, test `producer - consumer < mask` (330-338) | `EnqueueLoadCHead` |
| CAS of `p_head` (339) | `EnqueueCasWins`, `EnqueueCasLoses` |
| second load of `p_head` (353-369) | `EnqueueFails`, `EnqueueRetries` |
| copy into the slot (373-374) | `EnqueueWriteSlot` |
| spin until `p_tail` is the ticket (380) | `EnqueueMyTurn` |
| store of `p_tail`, return (388-394) | `EnqueueStorePTail` |
| load of `c_head` at the start of a dequeue (446) | `DequeueCall` |
| load of `p_tail` (456-459) | `DequeueLoadPTail`, `DequeueFails` |
| copy from the slot (463-464) | `DequeueReadSlot` |
| CAS of `c_head` (468) | `DequeueCasWins`, `DequeueCasLoses` |

The counters are kept unwrapped and every comparison, subtraction and CAS is
made on the wrapped values, `UMod` standing for 2^32. A compare-and-swap cannot
tell a thread that slept through a whole turn of the counter from one that did
not sleep (the comment at line 359 admits it); `WithinLap` excludes exactly
that. Memory is sequentially consistent: the fences in the code order the
accesses the model keeps in order; on weaker memory the model does not show that
the fences suffice. The loops `for (;;)` and `do` are the jumps back to the
respective `pc`. `data` of an entry is a model value copied in one step: the
memcpy of a pointer-sized entry. `ck_ring_enqueue_mpsc`, used by
eg_cklog_create, has the same body as the mpmc call.

The refinement mapping to `RingQueue` reads the queue off the slots of the
published tickets (`Published`) and the pending tickets off the threads that own
them (`Won`): a slot that is written while published, or a ticket with two owners,
would show.

### EgCkLog and MsgLog

A ring call of `EgCkLog` is the step of `RingOps` that `CkRing` implements: to
win a ticket and to publish it are separate steps (`PutUsed`, `PublishUsed`), so
that threads can overtake each other between them, a dequeue is one step. A call
that fails and is repeated changes nothing, so a retry loop is a step that waits.
`strncpy` is two steps; between them the slot is `Torn`. `MsgLog` is the
promise: a bounded log in which a message is asked, admitted or refused,
accepted, taken, printed. Its refinement mapping reads the backlog off
`ring_used` and the slots, published or not (`Backlog`), and what a printer prints
off the slot in its hands: a slot written while queued or printed would show.
The function's missing return statement makes its value arbitrary
(`PublishUsed`).

### EgMempool and BufferPool

The state is a ring per grid and, per block malloc returned, its size, how far
the current pointer is into it, and the header byte before that pointer. One
header per block is enough because the pointer only moves forward.
`eg_mempool_get` is `GetPooled` or `GetFresh`; `eg_mempool_reclaim` and
`eg_mempool_reclaim_ex` find the grid in their two ways and share `ReclaimGrid`.
A caller gives back what it got, with the size it asked for, once.

What happens to a buffer whose ring is full: `eg_mempool.c:72` passes the caller's
pointer to `free`. `eg_mempool_malloc` returned `malloc`'s pointer plus one (line 32),
and each `eg_mempool_reclaim` adds another (line 81), so that is never a pointer
`malloc` returned. What the program does then is undefined, and glibc aborts it. In
the model `up` becomes FALSE and no step follows. Rings are created with
`EG_MEMPOOL_GRIDS_COUNT` (16) slots, although buffers for
`EG_MEMPOOL_QUEUE_CAPACITY` (1024) are allocated, so the 16th buffer of a grid that
comes back ends the program.

`BufferPool` is what remains for a user: a buffer that `Get` returns is nobody
else's until `GiveBack`; `Overflow` ends the program, and happens only after more
buffers than one ring holds were in use at once (`most > Capacity`): a program that
keeps to fewer is safe. `EgMempool` implements it whichever way buffers come back. A
buffer is in use until the ring call that gives it back has ended, since its ticket
takes room in the ring while it is not published.

Room. Grids from 1 on have one power of two each, so a buffer got for 64 bytes or
more has room for any request of its grid, less the bytes that `eg_mempool_reclaim`
took: one each time, because it puts the header into the first byte of the caller's
memory (`ShortByItsMoves`). That loss is not repaired: a buffer of 127 bytes has 126
after it was given back that way, and may be handed out for 127. Grid 0 takes every
size below 64, and a block in it is allocated for the size that was asked first: a
buffer got for one byte has two, and is handed out for 63 when it comes back, while
`eg_mempool_init` prints 32 as the size of that grid. No property claims room there.

### EgLog and AsyncLog

`EgLog` composes two channel rings (operators of `RingOps`) with the pool
(actions of `BufferPool`, instantiated as `Pool`):

| code | actions |
|---|---|
| the hook is called, level < 0 or not (`eg_log_msg1`) | `Log` |
| `eg_mempool_get` | `GetBuffer` |
| `sprintf` into the buffer | `Format` |
| `enqueue_blocking`: ticket, publication | `Enqueue`, `Publish` |
| `thread1` asks CHANNEL_STDERR (`consume_print`) | `TakeStderr`, `NoStderr` |
| ... and CHANNEL_STDOUT only if that found nothing | `TakeStdout`, `NoStdout` |
| `printf`, `eg_mempool_reclaim_ex` | `PrintAndReclaim` |

The channels hold 63 lines each and a pool ring 15 buffers. After a burst of more
lines of one grid than that thread1 prints on until the ring of the pool is full, and
its next `eg_mempool_reclaim_ex` ends the program (`Pool!Overflow` in
`PrintAndReclaim`): `up` is FALSE, and the rest is not printed.

A text is known by the thread that logs it. A buffer is taken to have room for
its text, although `eg_log.c` asks the pool for the length of the message alone
and formats a longer line; that is listed as a hazard, not modelled. The memory
of a buffer in the pool is reset, because no code reads it there. `AsyncLog` is
the promise to those who log: each channel prints what was accepted, whole,
once and in order, as far as it gets, and a line of CHANNEL_STDOUT only when
CHANNEL_STDERR had nothing the last time the thread looked. Its refinement mapping reads the
backlog through the memory of the queued buffers (`Backlog`): a buffer that is
reused while it is queued or printed would show.

### WsServer

One action for each critical section of `ws.c` that makes one visible store, one for
each store of the two sections that end a connection, and one for each access outside
a section:

| code | actions |
|---|---|
| `ws_socket`, with the `memset` of the table | `Listen` |
| `ws_accept`: accept, then the section under the global mutex | `Accept`, `AddToTable`, `Refuse` |
| `ws_establishconnection`: reads its slot without a lock, handshake, state OPEN | `StartThread`, `Handshake`, `HandshakeFails`, `SetOpen` |
| ... `next_frame` returns | `RecvClose`, `RecvFails`, `RecvOnClosed` |
| ... tests and sets the state at a CLOSE frame | `GetState`, `SetClosing` |
| ... the section after `closed:`, if the state is CLOSED | `AlreadyClosed` |
| ... and if not: `client_sock = -1`, the state, `close_socket` (1352-1354) | `EmptySlot`, `SetClosed`, `CloseSocket` |
| ... join, destroy | `Join`, `Destroy` |
| `close_timeout`, if the state is CLOSED | `TimeoutQuits` |
| ... and if not: `close_socket`, `client_sock = -1`, the state (342-344) | `TimeoutFires`, `TimeoutEmptiesSlot`, `TimeoutSetsClosed` |
| `ws_close_client`: look-up, send, `start_close_timeout` | `CloseClient`, `SendCloseFrame`, `StartCloseTimeout` |
| `ws_sendframe` with broadcast | `SendFrame`, `LockTable`, `NextClient`, `SendToClient`, `EndBroadcast` |

The stores of the last sections are steps of their own because who looks for a free
slot (line 1410), for a descriptor (244) or for the clients of a port (515) holds the
global mutex and not that of the slot: it may see the slot between two of them, in
two different orders. `locked` is the set of slots whose `mtx_state` is held over
such steps; the other sections are steps that wait until it is free (`Unlocked`).
`pthread_mutex_init` on a mutex that is held, for a newcomer, makes it free. The
global mutex is a lock held over several steps by a broadcast only; the others that
take it do so within a step, which is possible while no broadcast has it
(`MutexFree`). The kernel is `owner`, the connection behind each
descriptor; accept returns the lowest free one, so that numbers are reused as
soon as the kernel can. A time-out may fire at any moment, which covers the 500
ms and every delay of a thread. A slot's thread handle is the connection it was
started for.

A number that is reused is the hard part. Once one of the two threads has closed a
descriptor or emptied a slot, the threads of the old connection still use both
numbers, and so do callers that were given the descriptor: if a new connection
gets one in the meantime, the old ones act on the new connection. The library
has no protection against that. `mixed` records the connections it happened to
(the old users and the newcomer). `ServedUndisturbed` says who may get into it:
newcomers, connections whose descriptor is closed, and connections whose own client
thread has emptied the slot and has yet to close the descriptor. The other properties
speak of connections that are not in it. A connection that becomes mixed is not left
out of the model: its threads go on, and what they do to others is checked. What
may happen to a newcomer is shown by `EndedLeaveTable`, which speaks of all
connections and is violated (`ws_reuse`): its state may be overwritten with CLOSED by
the old thread, and then its own thread ends without closing anything.

Another disagreement shows in the steps and is no property: a client thread that
has found the state not to be CLOSING (`GetState`) sets it to CLOSING
(`SetClosing`), even if the time-out has made it CLOSED in between; it then takes
the connection for one that nobody has closed, and closes the number a second time,
which may be another connection's by then.

### WsFrame and Utf8

`next_frame` for one connection. A frame is a record (opcode, FIN, reserved bits,
payload), read in two steps: its first byte, at which the state of the connection
is looked at (`ReadHeader`), and the rest, which is refused (`RefuseHeader`,
`RefuseTooLong`, `RefuseText`, `RefuseReason`) or handled: `Fragment` and
`Message` for data, `Ping`, `Pong`, `Close`. `ReplyToClose` is the second half of
what the client thread does with a CLOSE frame. `SendCloseFrame`,
`StartCloseTimeout` and `TimeoutFires` are what other threads do to the
connection, at any moment. `validate` says whether the library was built with
`VALIDATE_UTF8`. A send may fail at any time.

The result of `read_frame` is ignored for data frames, and the text is validated
whatever it was (lines 1152-1184): with a frame that is too long, or that the client
did not send whole, the validation looks at `msg_data + (msg_idx_data - frame_length)`,
memory that was not written for that frame, before the start of the data, or at an
offset from NULL when nothing was read. What comes of it is one of three things: the
loop ends as it should, a 1007 is sent, or the program crashes (`at = "crashed"`).
`RefuseTooLong` has the outcomes its lengths allow (it can only crash if nothing was
read before), `Disconnect` with `CutsText` all three, whatever was missing. A disconnect is not a refusal, so
`TextsWellFormed` does not speak of the 1007 that may follow a text frame that was cut
off.

The reference is in the same module, below the specification. It has no state and
does not go from frame to frame, as the code does: it gives the messages in a
sequence of frames by their positions. `Ends` are the positions at which a message
ends, `Begin(s, i)` is where the one at `i` began, `Joined` and `TypeOf` are the data
between two positions and the type of the first; `OpenText` and `OpenType` are those
of the message that has not ended. In `Utf8` it is well-formed text by code points
(`WellFormed`), against which the table of `utf8.c` is checked.

### FlecsUv

One action per callback: `Accept`, `AcceptError` and `AcceptFails` are the ways
through `on_new_connection`; `alloc_buffer` and `echo_read` with what libuv can
give it (bytes, nothing, end of file, an error). libuv asks for a piece of the
buffer and gives it back with the next read callback of that connection; other
callbacks, and the kernel's writes, come between. `head` and `tail` wrap at
`CIRCULAR_BUF_SIZE`, which is why `circular_buf_size` is a difference modulo it.
`uv_close` is called with the address of a local pointer when `uv_accept` fails:
what comes of it is undefined, and the program may end there (`up`).

### EcsWs

`Main` goes through the calls that make the server entity; a call that sets a
component runs the observers whose terms the entity then has (`Runs`), as flecs
does. The accept thread sets the components of the entity "Bob" one by one
(`SetComponent`), and each of them may start a reader thread: at the first
connection the last one does, later each one does, the socket included, so that a
connection gets up to three threads. They read the socket of the entity once,
when they run for the first time (`StartReader`). A reader never ends: it
ignores the result of `recv`.

## Runs

A run takes from seconds to a few minutes. Deadlock is checked for none: the behaviour
ends when the bounded calls, messages, connections or bytes do, or with the program
(`up`, `crashed`), or is a server that waits for clients. That threads do not wait for
each other for ever is what the liveness properties say.

| run | instance | shows |
|---|---|---|
| `ckring_safety` | 3 threads, 2 values, ring of 4, 6 calls | type; `CopiesInv`: published slots hold what was enqueued, and a winning copy is the head; `RingQueue` is implemented |
| `ckring_wrap` | 2 threads, ring of 4, `UMod` = 8, 18 calls, `t1` fair | while the counters wrap: `CountersInv`, with counters ordered and at most `mask` apart and unpublished tickets owned; dequeues of `t1` return whatever the other does; if both are fair every call returns |
| `cklog` | 2 producers, 2 consumers, 4 slots of which 3 circulate, 4 messages, producers fair | type; each slot in one place; a put never finds its ring full; `MsgLog` is implemented; logging never waits for printing; if consumers are fair too, accepted messages are printed and slots come home |
| `mempool_share` | 2 users, sizes 63, 64, 127, 2 grids with rings of 2, both reclaims, 5 gets | type; one owner per buffer; headers name the ring, and no buffer lacks more than its reclaims took; `BufferPool` is implemented, overflow included |
| `eglog` | 2 loggers, rings of 4, 4 buffers, pool rings of 3, any number of calls | type; the pool has lent out exactly the buffers in use; `AsyncLog` is implemented; accepted lines are printed, errors always and the others if errors pause again and again, unless the pool overflows |
| `ws_table` | 2 connections, 2 slots, 2 descriptors, 2 ports, 2 callers, any number of calls | type; table and descriptors agree but for the order of the stores, and neither leaks; mutexes outlive their users; nobody who is served gets mixed up; a broadcast reaches the clients of its port and nobody else |
| `ws_live` | 2 connections, 1 slot, 2 descriptors, 1 caller | a connection being closed ends, whatever the client does, and `ws_close_client` that returns 0 closes a connection that is read |
| `ws_frame` | three sets of frames, up to 3 of them, a message of 4 bytes, control frames of 3 | type; messages put together; pings answered; text validated; only violations refused; at most one frame has an effect while CLOSING |
| `uv` | 2 connections, buffers of 3, 5 bytes each | type; the piece offered lies in the buffer, which holds the latest bytes in their places; everything is read |
| `ecs_ws` | 2 connections, 3 bytes each | type; accepts on the socket that was opened; never reads an older connection; the newest is read |
| `ws_late_port` | 1 connection, 2 ports | violated: opening a port leaves the clients of other ports alone |
| `ws_reuse` | 2 connections, 1 slot, 2 descriptors | violated: when the thread of a connection has ended, its socket is not in the table |

Why the bounds are enough to be interesting. A ring of four slots holds three
entries: two producers can have tickets at once and have to publish them in
order, six calls fill it (and have an enqueue fail), and slots are reused after
four tickets. (A ring of two slots would not do: it holds one entry, so that no
producer ever waits for another.) Three threads are a consumer that takes a
ticket, a producer that reuses its slot and a consumer that sleeps between copy
and CAS. `UMod` = 8 with eighteen calls takes the counters past a full turn, and
stale snapshots with them. In the log, three circulating slots, two threads on
each side and more messages than slots let producers overtake each other, slots
come back in any order and messages be refused. A pool ring of two slots holds
one buffer, so the second one given back overflows it. In `eglog` four buffers are a
full ring of three and a logger that waits with the fourth, or any mix of both
channels, the printer and the loggers; calls are not counted, so buffers are
reused for ever, and the fourth can make the pool overflow. (In the code the channels
hold 63 lines each, a ring of the pool 15 buffers.)

In `ws_table` two connections can be in both slots, on one port or on two, or
come after each other in the same slot with the same descriptor, between any two
stores of the threads that end the first, while calls of two threads, begun on its
behalf, go on. `ws_live` has one slot, so that a
connection finds the table full, or gets the slot just freed. In `ws_frame` three
frames are a message in two or three pieces with a control frame between them;
the three sets are a client that cuts characters in two, one that uses (and
misuses) every control frame, with close payloads of each kind, and one that
sends a character byte by byte with a byte of each type of the table in
`utf8.c`. Limits are scaled down to where three frames exceed them. In `uv` the
five bytes wrap a buffer of three. In `ecs_ws` the second connection overwrites
the socket of the first before, while and after its readers have read it; three
connections were checked once (983 191 states) and show nothing more.

Symmetry is used in `ws_table` only, over connections and over callers, which are
compared for equality alone; its properties are invariants and formulas about
single steps.

A constraint is used in `ws_table` only: `SomeUnmixed` stops exploring at a state
in which both connections are `mixed`. That state itself and the step into it are
checked; what follows is left out because `mixed` never shrinks and every property
of the run but `TypeOK` excepts mixed connections (`TypeOK` is proved). The run
was made once without it (4 879 557 states instead of 1 432 521), and passed.

Fairness. A thread is scheduled again and again while it can step
(`WF_vars(Step(t))`): what a preemptive scheduler gives. No fairness makes a
thread begin a call. `EveryCallReturns` assumes it for every thread, since a
producer does wait for the owners of earlier tickets; `LogDrains` assumes it for
logging and printing threads. `DequeueNeverWaits` and `LogNeverWaitsForPrint`
assume it for some threads only, which is what makes them statements about
waiting: the specification of their runs is fair to those threads alone, and
the other two properties name the rest of the fairness as their hypothesis.
`EgLog` is fair to thread1 and to each thread that logs, once it does.
`ErrorsPrinted` needs no more; `InfoPrintedBetweenErrors` has the hypothesis that
thread1 gets to look at CHANNEL_STDOUT again and again, since nothing in the code
keeps errors from starving the other channel. Both end where the pool overflows. The runs of `CkRing` and
`EgCkLog` bound the number of calls: that
a thread loses each race for ever against an unbounded stream of other calls is
possible in the code and not excluded by these runs.

In `WsServer` the client and the time-out threads are scheduled, and a time-out
elapses; a send returns. Nothing is assumed of clients, who need not answer, send
or leave, which is the point of `ClosingEnds`, nor of the accept thread, which may
wait for the global mutex for ever.
In `FlecsUv` the loop is turned in every frame and serves each connection that has
something to do. In `EcsWs` the accept thread goes on with what it has begun, and
readers are scheduled. `WsFrame` has no liveness properties: whether a frame comes
is up to the client.

Two properties are violated: they are what comments of `ws.c` say and the code does not
do; `findings` in `PROJECT.json` quotes them.

- `LaterPortKeepsClients`: `ws_socket` clears the table that all ports share; so the
  other runs open their ports first (`LatePorts = FALSE`), as a program has to.
- `EndedLeaveTable`: the slot is free for others as soon as `client_sock` is -1, one
  store before the state is CLOSED, which then hits the newcomer.

Other disagreements that the models have and no property claims away:

- `ws_close_client` called from `onopen`, before the state is OPEN: `start_close_timeout`
  finds CONNECTING (line 369), starts no time-out, and `ws_close_client` returns 0; a
  client that says nothing stays connected, against the doc at lines 596-598.
  `CloseClientCloses` is about the calls made while the client thread reads.
- Frames are refused in state CLOSING (line 1119), and no longer when the time-out has
  made it CLOSED, although some may lie in `wfd->frm`: they are delivered, as many as
  there are, against "we should terminate immediately" (1112-1117). `OneLateWhileClosing`
  counts the ones before that.
- The client thread may set CLOSING after CLOSED and close a descriptor twice (above).
- The buffers of grid 0 do not have the size that is printed, and each
  `eg_mempool_reclaim` takes a byte from its buffer.
- The pool frees pointers that `malloc` did not return.

## Proofs

TLC checks small instances; TLAPS proves the following for every value of the
constants that satisfies the assumptions named in the modules: any number of
threads, users, connections, slots, messages and buffers. Each proof has an
inductive invariant, a lemma for each action or group of actions that keeps it,
and the theorems as consequences. The invariants were checked by TLC on the
instances of the runs before they were proved.

### CkRing_proofs

For every number of threads, every ring size of at least two, every `UMod` that
is a multiple of the size and at least twice as large, and every number of calls:

- `TypeCorrect`: `Spec => []TypeOK`.
- `CountersCorrect`: `Spec => []CountersInv`. `RingValid`, `TicketsOwned` and
  `StoreIsMine` are not inductive: whether a CAS may advance `p_head` depends on
  what its thread concluded from old values. `SnapshotsOld` adds just that:
  snapshots are old values of the counters less than a turn behind; a producer
  that is about to CAS saw `producer - c_head < mask`, which stays true because
  `c_head` only grows; a consumer about to read saw `consumer < p_tail`, which
  stays true because `p_tail` only grows. The CAS succeeds only if the snapshot
  is exact (`SameUintExact`), so the conclusion is about the present.
  `RoomExact` shows that the wrapped subtraction never takes a stale producer
  snapshot behind `c_head` for one with room.
- `CopiesCorrect`: `Spec => []CopiesInv`, using the former: published slots hold
  entries, owners write to slots no published ticket and no other owner uses
  (`WritesFreeSlot`, from `IndexInjective`), and a copy whose CAS can still win is
  the entry at the head.
- `RingStaysValid`, `TicketsStayOwned`, `CopyStaysHead`: the parts callers rely
  on, as corollaries.
- `RingImplementsRingQueue`: `Spec => ImplementsRingQueue`. The CAS of `p_head` is
  `Reserve`, the store of `p_tail` is `Publish`, the CAS of `c_head` is `Take`, and
  the other accesses are invisible (`StepUnseen`): the write of a slot among them,
  because no published ticket lives there. For the calls that fail, `FailuresSeen`
  is the invariant: a thread that found no room is right at its second load of
  `p_head` if that has not moved, because then its old test was exact
  (`NoRoomIsFull`).

`WithinLap` is the only assumption that is not about the constants: it is a
guard of `EnqueueCasWins`. `MCCkRing` has TLC evaluate the assumptions about
constants.

The module ends with `FlecsUv`, which puts bytes into its buffers as the ring puts
entries into its slots, at their number modulo the size, so that both need that
numbers less than a buffer apart have different remainders (`RemaindersDiffer`). The
formulas of `FlecsUv` are named `UvInit`, `UvSpec` and so on, so that one module can
extend both.

- `UvTypeCorrect`: `UvSpec => []UvTypeOK`; `LatestHeld`: the piece offered to libuv lies in the
  buffer, and the buffer holds the latest bytes in their places. It rests on `tail`
  staying 0, which makes the free piece the rest of the buffer from `head` on
  (`FreeIsRest`), and on remainders (`PlacesFollow`, `HeadMoves`): `head` is the
  number of received bytes modulo the size, so bytes read while a piece is out are
  put where they belong.

### EgCkLog_proofs, EgMempool_proofs, EgLog_proofs

All three are about things (slots, blocks, buffers) that move between rings and
threads, and count the places of each. `RingOps_proofs` has what they share: what
each ring call does to the contents of a ring, to how often a value is in it
(`HitsAppend`, `HitsTail`), to its places in a family of rings (`PlacesReserve`,
`PlacesPublish`, `PlacesTake`) and to a count of threads when one of them moves
(`CountMoves`).

- `EgCkLog`: `TypeCorrect`; `SlotsCirculate`, each slot is in one place;
  `PutsSucceed`, no put finds its ring full. The invariant adds that the slots in
  the rings and in the hands of threads together are as many as circulate
  (`CountInv`), of which `PutNeverFails` is arithmetic.
  `LogImplementsMsgLog`: the log prints what was accepted, whole, once and in
  order. That rests on `EverySlotOnce`: a producer writes to a slot that is in no
  ring and in no other hands, so nobody's `Backlog` changes.
- `EgMempool`: `TypeCorrect`; `BlocksOnce`, each block has one owner;
  `BuffersHaveRoom`, `BuffersFit` for requests of any size the rings take, however
  often a buffer was reclaimed and in which way. The invariant adds that every buffer
  was allocated for a size of the grid its header names (`AllocatedForGrid`,
  `HeldHeader`); with `GridIsOnePower` (two sizes of 64 or more with the same grid lie
  between the same powers of two) it lacks what its pointer moved and no more.
  `PoolImplementsBufferPool`: the step that matters is the overflow. A block is
  allocated only when the ring of its grid has none, so the blocks of a grid are never
  more than were in use at once (`CountInv`); a full ring and the block it has no room
  for are all of one grid and more than a ring holds (`FullRing`). `CountsAssumption` lets
  the number of grids, which is also the size of their rings, be 2, 4, 8 or the 16
  of the code, so that the powers of two are a finite table.
- `EgLog`: `TypeCorrect`; `BuffersAccounted`, the pool has lent out exactly the
  buffers in use; `LogImplementsAsyncLog`. The invariant adds who holds a buffer at
  which step, that the buffers in use are finitely many (`PoolInv`), and that what is
  queued or printed is somebody's whole text
  (`QueuedText`, `HeldText`): the formatting of a text disturbs none of them because
  its buffer is held once (`HeldOnce`, from the count of places).

### WsServer_proofs

`TypeCorrect` holds of every program. The others, `SlotsHoldDescriptors`,
`MutexesAlive`, `BroadcastsReachPort` and `ServedStayUndisturbed`, assume
`LatePorts = FALSE`: that a program opens its ports before clients come. They are false
without it, as `ws_late_port` shows. `BroadcastsReachPort` is about all clients in the
table, those still CONNECTING included: `ws_sendframe` does not look at the state.

The invariant says who may use what at which step. `SeatInv`, `TenantInv` and
`TableInv` relate the threads to the table in whatever state numbers are reused:
who has a slot, whose slot it is, and that what is in the table was put there for a
connection. `SeatsApart` and `FdsApart` are about connections that are not mixed up:
the slot is the connection's own while anybody acts on it for the connection, and
nobody else has the number of its descriptor, neither in a thread nor in a slot
(`HasNumber`). `ConnInv` then says of each of them how far its end has got:

- `FdMeant`: the descriptor is open, and known to its thread, until one of the two
  threads has closed it;
- `SlotMeant`: the slot is in the table until one of the two has emptied it, the state
  is CLOSED when it was emptied and set, and a time-out thread that has not ended is the
  one the client thread will join;
- `MutexMeant`: the thread that is between its stores holds the mutex of the slot, so
  that only one of the two is, and no time-out is started meanwhile. This is what makes
  three stores by each of two threads come out as one closing.

`CallerInv`, `CallerFds` and `PortInv` say what a number that a caller keeps between two
critical sections still means; `BroadcastStaysOnPort` and `BroadcastReachesAll` are
inductive with these. A step of a client thread or of a time-out thread changes one
slot, which nobody else uses if the connection is not mixed, and descriptors that lead
to nobody else (`Acts`, `ActsInv`): what is left for each action is its own connection.
`CallInv` and `CallSets` keep the invariant when only callers move. `AcceptInv` and
`AddToTableInv` are where connections become mixed. TLC checked the invariant before it
was proved, for two connections with two slots and one caller (733 646 states) and, in
part (ten million states), for three connections with one slot.

### WsFrame_proofs

For any frames with payloads of any length, any number of them, and any limits
(`FramesAssumption` says that frames are what a header and bytes can hold):

- `AutomatonCorrect`: whatever the bytes and however many, the automaton of `utf8.c`
  ends in UTF8_ACCEPT exactly if they are well-formed UTF-8 by code points. The run
  of the automaton is a function on the positions (`IsRun`, `RunValue`), which
  concatenation splits (`RunConcat`): that is what lets the code carry the state from
  one fragment to the next. A character leads from UTF8_ACCEPT to UTF8_ACCEPT and a
  piece that does so without passing it is a character (`AcceptsCharacters`,
  `PieceIsCharacter`), which is a matter of the table (`DecodeTable`).
- `Delivers`, `Answered`: messages are delivered whole, in order and with their types;
  PINGs are answered in order and with their payloads.
- `OnlyText`: with VALIDATE_UTF8 a text that is delivered is well-formed, one that has
  not ended can be completed by at most three bytes (`Completable`), and one that was
  refused with 1007 cannot (`NotCompletable`).
- `RefusesViolations`: no frame is refused without cause before the connection is
  being closed; `OneLate`: while it is CLOSING one frame at most has an effect; what
  comes when the time-out has made it CLOSED is not bounded;
  `TypeCorrect`.

The properties compare `accepted`, all that was read, with what was delivered and
sent, but a step of the code only sees what it holds. The invariant relates the two:
`ReadsOpenMessage` says that `msg`, `frame_type` and `utf8_state` are the text, the type
and the state of the automaton after the text of the message that has not ended. So
the reference is first brought into the form in which the code computes it: what one
more frame makes of the text and type (`AfterFrame`), of the message it ends
(`EndedByLast`), and that it leaves those that ended before (`EndedByKept`). For
refused frames `RefusedForCause` and `InvalidTextLast` say why, and that nothing is read
or answered after that. `LateOnce` is what makes `OneLateWhileClosing` inductive: after the
one late effect the first byte of every other frame finds the state CLOSING, or it is
CLOSED and nothing counts any more.

The operators of sequences that these proofs need (`FoldLeft`, `FlattenSeq`) and the
recursive function in `WellFormed` are chosen by the equations of a recursion. That a
function with these equations exists, and that there is one only, is proved by
induction on a set of numbers (`NatSetInduction`, from the well-foundedness of the
order: a set that lacks a number has a least number it lacks); the lemmas of the
library that take a predicate as a parameter are not needed.

### EcsWs_proofs

`TypeCorrect`; `ListenerAccepted`: accept is called on the socket that
was opened, whichever observers ran; `ReadsNotOlder`: a reader thread never reads
an older connection than the one it was started for. The invariant follows main
through its script (`MainInv`) and the accept thread through the components it
sets (`TodoInv`): the socket comes first, and Bob's socket only gets newer.

### Only model-checked

- Liveness (`DequeueNeverWaits`, `EveryCallReturns`, `LogDrains`,
  `LogNeverWaitsForPrint`, `LinesPrinted`, `ClosingEnds`, `CloseClientCloses`, `EverythingRead`,
  `NewestIsRead`): it needs fairness and ENABLED, which the proof system does not
  handle. The theorems are about `Spec`; some runs check a specification that adds
  fairness to it, and implies it.
- The counterexamples of the two violated properties, which are TLC's.

Every other property of the runs is stated by a theorem.

## Not modelled, and the plan

`PROJECT.json` says of every component why it is or is not modelled. What is left
out of components that are modelled in part:

- `ck_ring`: the variants the program does not call (single producer, single
  consumer, reserve/commit, trydequeue, repair, `ck_ring_valid`).
- wsServer: `ws_get_state` and `ws_getaddress`, which only read; the build for
  fuzzing; the encoding of lengths and masks. That both ends may send a CLOSE
  frame, against the comment at `ws.c:1320`, shows in the model and is no
  property: it disturbs no client that is closing as well.
- wsServer's handshake, base64, SHA-1: functions of bytes, called once.
- test_libuv: UDP, and components of entities that nothing reads.
- test_ws: what flecs does when two threads use the world without a lock.

What is not modelled at all:

- EgThread (`test_example`): the program sets the callback once and adds one
  action; the hooks that copy and move the shared argument, and the transitions
  whose assertions no thread fulfils, are reached by no program.
- EgNetProtocol1 (`test_example1`): `main.c` does not import the module; a model
  would have to make up who calls it when.
- `eg_log2.c`, the wrappers of sockets, component registration, the start-up
  scripts: no state or no users.
- flecs and the rest of Concurrency Kit: vendored, and by far the largest part of
  the files. The map covers the program's own code and `ck_ring`.

What could be proved next is the case of `WsServer` with ports opened late, for which
only the types are; what the other invariants become
then is what `ws_late_port` shows.

Byte contents of messages, formatting and colours of log lines, and the pace of
backoff are left out on purpose.
