------------------------------ MODULE FlecsUv -------------------------------
(***************************************************************************)
(* test_libuv: flecs_uv.c and circularbuf.h, a TCP server whose callbacks  *)
(* run in the libuv loop that UvLoop_OnUpdate turns once for each frame.   *)
(* Every connection has a circular buffer of its own: libuv asks for a     *)
(* piece of it (alloc_buffer), the kernel writes what arrives there, and   *)
(* echo_read prints the bytes and moves head. Between the two callbacks    *)
(* those of other connections run.                                         *)
(*                                                                         *)
(* libuv and the clients are external: modelled by the callbacks they make *)
(* and the results they give. Bytes are numbered in the order in which a   *)
(* client sends them. The entity made for a connection is left out:        *)
(* nothing reads its components. Nothing frees a closed connection.        *)
(*                                                                         *)
(* The formulas of the specification are named UvInit, UvNext, ..., so     *)
(* that a module can extend this one along with another.                   *)
(***************************************************************************)
EXTENDS Integers

CONSTANTS Conns,             \* bound: connections
          CIRCULAR_BUF_SIZE, \* 65536 in the code, the range of head and tail
          MaxBytes           \* bound: bytes a client sends

ASSUME BufSizeAssumption == CIRCULAR_BUF_SIZE \in Nat \ {0}
ASSUME MaxBytesAssumption == MaxBytes \in Nat

VARIABLES up,      \* FALSE when the program has ended
          listens, \* uv_listen succeeded
          conn,    \* what the server has made of a connection
          peer,    \* what its client has made of it
          sent,    \* bytes the client has sent
          buf,     \* struct circular_buf
          offer,   \* the uv_buf_t libuv was given and has not given back
          got      \* bytes echo_read was given

client == <<peer, sent>>
uvVars == <<up, listens, conn, client, buf, offer, got>>

Positions == 0 .. CIRCULAR_BUF_SIZE - 1
Unset == 0
NoOffer == [base |-> -1, len |-> 0]

circular_buf_init == [buffer |-> [x \in Positions |-> Unset], head |-> 0, tail |-> 0]

circular_buf_size(b) == (b.head - b.tail) % CIRCULAR_BUF_SIZE

\* Mutant of circular_buf_freespace: keeps a byte free, as rings do that must
\* tell full from empty.
KeepsOneFree(b) == CIRCULAR_BUF_SIZE - 1 - circular_buf_size(b)

circular_buf_freespace(b) == CIRCULAR_BUF_SIZE - circular_buf_size(b)

UvInit ==
  /\ up = TRUE
  /\ listens = FALSE
  /\ conn = [c \in Conns |-> "none"]
  /\ peer = [c \in Conns |-> "away"]
  /\ sent = [c \in Conns |-> 0]
  /\ buf = [c \in Conns |-> circular_buf_init]
  /\ offer = [c \in Conns |-> NoOffer]
  /\ got = [c \in Conns |-> 0]

\* UvTcp_Server_OnSet; when uv_listen fails there is an error message.
Listen ==
  /\ up
  /\ ~ listens
  /\ listens' = TRUE
  /\ UNCHANGED <<up, conn, client, buf, offer, got>>

----------------------------------------------------------------------------
(* on_new_connection *)

ToAccept(c) == up /\ peer[c] # "away" /\ conn[c] = "none"

Accept(c) ==
  /\ ToAccept(c)
  /\ conn' = [conn EXCEPT ![c] = "reading"]
  /\ buf' = [buf EXCEPT ![c] = circular_buf_init]
  /\ UNCHANGED <<up, listens, client, offer, got>>

\* status < 0
AcceptError(c) ==
  /\ ToAccept(c)
  /\ conn' = [conn EXCEPT ![c] = "lost"]
  /\ UNCHANGED <<up, listens, client, buf, offer, got>>

\* uv_accept fails: uv_close gets the address of the pointer client, which is
\* no handle. The program may end at that; client is never closed.
AcceptFails(c) ==
  /\ ToAccept(c)
  /\ conn' = [conn EXCEPT ![c] = "lost"]
  /\ buf' = [buf EXCEPT ![c] = circular_buf_init]
  /\ up' \in BOOLEAN
  /\ UNCHANGED <<listens, client, offer, got>>

----------------------------------------------------------------------------
(* uv_run *)

Reading(c) == up /\ conn[c] = "reading"

alloc_buffer(c) ==
  /\ Reading(c)
  /\ offer[c] = NoOffer
  /\ offer' = [offer EXCEPT ![c] = [base |-> buf[c].head, len |-> circular_buf_freespace(buf[c])]]
  /\ UNCHANGED <<up, listens, conn, client, buf, got>>

\* The buffer when the kernel has written the next n bytes at base.
Written(c, n) ==
  [x \in Positions |->
     IF x - offer[c].base \in 0 .. n - 1 THEN got[c] + x - offer[c].base + 1
                                         ELSE buf[c].buffer[x]]

\* Mutant of Received: head is wider than 16 bits.
WideHead(b, n) == [b EXCEPT !.head = b.head + n]

\* Mutant of Received: the bytes are consumed when they are printed, tail moves
\* with head.
Consumes(b, n) ==
  [b EXCEPT !.head = (b.head + n) % CIRCULAR_BUF_SIZE,
            !.tail = (b.head + n) % CIRCULAR_BUF_SIZE]

\* head += nread
Received(b, n) == [b EXCEPT !.head = (b.head + n) % CIRCULAR_BUF_SIZE]

\* echo_read with nread > 0,
echo_read(c) ==
  /\ Reading(c)
  /\ \E n \in 1 .. offer[c].len :
       /\ n <= sent[c] - got[c]
       /\ buf' = [buf EXCEPT ![c] = Received([@ EXCEPT !.buffer = Written(c, n)], n)]
       /\ got' = [got EXCEPT ![c] = @ + n]
  /\ offer' = [offer EXCEPT ![c] = NoOffer]
  /\ UNCHANGED <<up, listens, conn, client>>

\* with 0, when there is nothing to read after all,
ReadNothing(c) ==
  /\ Reading(c)
  /\ offer[c].len > 0
  /\ sent[c] = got[c]
  /\ peer[c] = "open"
  /\ offer' = [offer EXCEPT ![c] = NoOffer]
  /\ UNCHANGED <<up, listens, conn, client, buf, got>>

\* with UV_EOF, for which nothing is done: libuv stops to read,
ReadEof(c) ==
  /\ Reading(c)
  /\ offer[c].len > 0
  /\ sent[c] = got[c]
  /\ peer[c] = "finished"
  /\ conn' = [conn EXCEPT ![c] = "eof"]
  /\ offer' = [offer EXCEPT ![c] = NoOffer]
  /\ UNCHANGED <<up, listens, client, buf, got>>

\* and with an error, because the client is gone or alloc_buffer had no room
\* (UV_ENOBUFS).
ReadError(c) ==
  /\ Reading(c)
  /\ offer[c] # NoOffer
  /\ peer[c] = "reset" \/ offer[c].len = 0
  /\ conn' = [conn EXCEPT ![c] = "closed"]
  /\ offer' = [offer EXCEPT ![c] = NoOffer]
  /\ UNCHANGED <<up, listens, client, buf, got>>

----------------------------------------------------------------------------
(* The clients *)

Connect(c) ==
  /\ up
  /\ listens
  /\ peer[c] = "away"
  /\ peer' = [peer EXCEPT ![c] = "open"]
  /\ UNCHANGED <<up, listens, conn, sent, buf, offer, got>>

Send(c) ==
  /\ peer[c] = "open"
  /\ sent[c] < MaxBytes
  /\ sent' = [sent EXCEPT ![c] = @ + 1]
  /\ UNCHANGED <<up, listens, conn, peer, buf, offer, got>>

Hangup(c) ==
  /\ peer[c] = "open"
  /\ \E how \in {"finished", "reset"} : peer' = [peer EXCEPT ![c] = how]
  /\ UNCHANGED <<up, listens, conn, sent, buf, offer, got>>

----------------------------------------------------------------------------
Loop(c) ==
  \/ Accept(c) \/ AcceptError(c) \/ AcceptFails(c)
  \/ alloc_buffer(c) \/ echo_read(c) \/ ReadEof(c) \/ ReadError(c)

UvNext ==
  \/ Listen
  \/ \E c \in Conns :
       Loop(c) \/ ReadNothing(c) \/ Connect(c) \/ Send(c) \/ Hangup(c)

UvSpec == UvInit /\ [][UvNext]_uvVars

\* UvLoop_OnUpdate turns the loop in every frame, and the loop serves every
\* connection that has something to do. Nothing is assumed of the clients.
UvFairSpec == UvSpec /\ \A c \in Conns : WF_uvVars(Loop(c))

----------------------------------------------------------------------------
Offers == {NoOffer} \cup [base : Positions, len : 0 .. CIRCULAR_BUF_SIZE]

UvTypeOK ==
  /\ up \in BOOLEAN
  /\ listens \in BOOLEAN
  /\ conn \in [Conns -> {"none", "reading", "eof", "closed", "lost"}]
  /\ peer \in [Conns -> {"away", "open", "finished", "reset"}]
  /\ sent \in [Conns -> 0 .. MaxBytes]
  /\ buf \in [Conns -> [buffer : [Positions -> 0 .. MaxBytes], head : Positions, tail : Positions]]
  /\ offer \in [Conns -> Offers]
  /\ got \in [Conns -> 0 .. MaxBytes]

\* The piece libuv may write to is in the buffer and not empty, also when the
\* 16-bit head has wrapped and the size of a full buffer reads as 0.
OfferFits ==
  \A c \in Conns :
    offer[c] # NoOffer =>
      /\ offer[c].len > 0
      /\ offer[c].base + offer[c].len <= CIRCULAR_BUF_SIZE

\* A buffer holds the last bytes of its own client, as many as fit, each at its
\* place in the stream modulo the size: neither a wrap nor another connection
\* moves them, and a piece that is out for reading covers the oldest only.
LatestInPlace ==
  \A c \in Conns :
    /\ buf[c].head = got[c] % CIRCULAR_BUF_SIZE
    /\ \A k \in 1 .. got[c] :
         k > got[c] - CIRCULAR_BUF_SIZE => buf[c].buffer[(k - 1) % CIRCULAR_BUF_SIZE] = k

\* Bytes arrive inside the buffer and behind those before them.
BufferHoldsLatest == OfferFits /\ LatestInPlace

\* What a client sends is read, however much it is: the buffer never stalls or
\* ends a connection.
EverythingRead ==
  \A c \in Conns, n \in 1 .. MaxBytes :
    sent[c] >= n ~> got[c] >= n \/ peer[c] = "reset" \/ conn[c] = "lost" \/ ~ up

=============================================================================
