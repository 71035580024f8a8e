------------------------------ MODULE WsServer ------------------------------
(***************************************************************************)
(* test_ws/src/ws.c: the table of clients and the threads that share it.   *)
(*                                                                         *)
(*   accept thread     one for each ws_socket: puts a new connection into  *)
(*                     a free slot, starts its client thread               *)
(*   client thread     one for each connection: handshake, frames, and the *)
(*                     end of the connection                               *)
(*   time-out thread   one for each ws_close_client that found its client  *)
(*                     OPEN: closes the connection if nobody else does     *)
(*   callers           threads of the program in ws_close_client and       *)
(*                     ws_sendframe with broadcast                         *)
(*                                                                         *)
(* A critical section of mtx_state is a step if it makes one store that    *)
(* others can see, and so is each access made outside one. The two that    *)
(* end a connection take a step for each store: they hold mtx_state, but   *)
(* who looks for a slot or a descriptor holds the global mutex only. That  *)
(* mutex is held over several steps by a broadcast; the section of the     *)
(* accept thread is one step, whose middle is seen by nobody but a thread  *)
(* that still uses the slot for an older connection. What a frame contains *)
(* is left to WsFrame; here it is a CLOSE or something else.               *)
(*                                                                         *)
(* A descriptor is a number the kernel gives again once it was closed; a   *)
(* slot is given again once client_sock is -1. Both can happen while       *)
(* threads of the old connection still use the number: mixed keeps the     *)
(* connections to which it happened.                                       *)
(***************************************************************************)
EXTENDS Integers, FiniteSets

CONSTANTS Conns,       \* bound: the connections clients make
          MaxClients,  \* MAX_CLIENTS
          Fds,         \* descriptors
          MaxPorts,    \* MAX_PORTS
          Callers,     \* threads of the program
          LatePorts,   \* may ws_socket be called when clients are connected?
          NoConn

ASSUME MaxClientsAssumption == MaxClients \in Nat \ {0}
ASSUME LatePortsAssumption == LatePorts \in BOOLEAN
ASSUME FdsAssumption == Fds \subseteq Nat
ASSUME MaxPortsAssumption == MaxPorts \in Nat \ {0}
ASSUME NoConnAssumption == NoConn \notin Conns

VARIABLES slot,       \* client_socks
          ready,      \* slots whose mutex and condition variable are initialised
          locked,     \* slots whose mutex is held
          tenant,     \* the connection last put into each slot
          owner,      \* the kernel: the connection behind each descriptor
          port_index, \* the next port; each one before has an accept thread
          pc,         \* where the server is with a connection
          sock,       \* new_sock of the accept thread, sock of the client thread
          port,       \* the port a connection came through
          idx,        \* connection_index
          clse_thrd,  \* the local variable of the client thread
          tout,       \* the time-out thread started for a connection
          caller,     \* what each caller is doing
          mixed       \* see above

mutexes == <<ready, locked>>
table == <<slot, mutexes, tenant>>
kernel == <<owner, port_index>>
locals == <<sock, port, idx, clse_thrd>>
thread == <<pc, locals>>
vars == <<table, kernel, thread, tout, caller, mixed>>

Slots == 1 .. MaxClients
Ports == 0 .. MaxPorts - 1
NoFd == -1
NoPort == -1

CONNECTING == 0
OPEN == 1
CLOSING == 2
CLOSED == 3

\* Mutant of Unused: the fields are bytes.
UnusedBytes ==
  [client_sock |-> NoFd, port_index |-> 255, state |-> 255,
   close_thrd |-> TRUE, thrd_tout |-> NoConn]

\* What memset(client_socks, -1, ...) leaves in a slot.
Unused ==
  [client_sock |-> NoFd, port_index |-> NoPort, state |-> -1,
   close_thrd |-> TRUE, thrd_tout |-> NoConn]

\* A caller: its step, its argument fd and whose that was, the slot or loop
\* index i, cur_port_index, the descriptor a broadcast is about to send to and
\* whose that was, and the connections the broadcast reached.
Idle == [at |-> "idle", fd |-> NoFd, from |-> NoConn, i |-> 0, port |-> NoPort,
         sock |-> NoFd, to |-> NoConn, reached |-> {}]

Goto(c, from, to) == pc[c] = from /\ pc' = [pc EXCEPT ![c] = to]

Peer(f) == IF f \in Fds THEN owner[f] ELSE NoConn

close_socket(f) == owner' = [g \in Fds |-> IF g = f THEN NoConn ELSE owner[g]]

\* The global mutex is free unless a broadcast is on its way through the table.
MutexFree == \A k \in Callers : caller[k].at # "broadcast"

\* mtx_state of slot i. A call on one that is not initialised returns at once.
Unlocked(i) == i \notin locked
Lock(i) == Unlocked(i) /\ locked' = locked \cup ({i} \cap ready)
Unlock(i) == locked' = locked \ {i}

----------------------------------------------------------------------------
(* Who still uses a slot or a descriptor *)

Running == {"accepted", "start", "handshake", "set_open", "read", "got_close",
            "set_closing", "closed", "emptied", "set_closed", "join", "destroy"}
WithSock == Running \ {"join", "destroy"}
WithSlot == Running \ {"accepted"}
Timing == {"waiting", "fd_closed", "emptied"}

\* Its thread or the table has the number for c.
HasNumber(c, f) ==
  \/ pc[c] \in WithSock /\ sock[c] = f
  \/ \E i \in Slots : tenant[i] = c /\ slot[i].client_sock = f

FdUsers(f) ==
  {c \in Conns :
     \/ HasNumber(c, f)
     \/ \E k \in Callers : \/ caller[k].fd = f /\ caller[k].from = c
                           \/ caller[k].sock = f /\ caller[k].to = c}

SlotUsers(i) ==
  {c \in Conns :
     /\ idx[c] = i
     /\ \/ pc[c] \in WithSlot
        \/ tout[c] \in Timing
        \/ \E k \in Callers : caller[k].from = c /\ caller[k].i = i}

\* c gets something that is still used on behalf of other connections.
Mixes(c, users) ==
  mixed' = IF users \subseteq {c} THEN mixed ELSE mixed \cup users \cup {c}

----------------------------------------------------------------------------
Init ==
  /\ slot = [i \in Slots |-> Unused]
  /\ ready = {}
  /\ locked = {}
  /\ tenant = [i \in Slots |-> NoConn]
  /\ owner = [f \in Fds |-> NoConn]
  /\ port_index = 0
  /\ pc = [c \in Conns |-> "new"]
  /\ sock = [c \in Conns |-> NoFd]
  /\ port = [c \in Conns |-> NoPort]
  /\ idx = [c \in Conns |-> 0]
  /\ clse_thrd = [c \in Conns |-> FALSE]
  /\ tout = [c \in Conns |-> "none"]
  /\ caller = [k \in Callers |-> Idle]
  /\ mixed = {}

\* ws_socket, which clears the table of clients. One port too many ends the
\* program.
Listen ==
  /\ port_index \in Ports
  /\ LatePorts \/ \A i \in Slots : slot[i] = Unused
  /\ port_index' = port_index + 1
  /\ slot' = [i \in Slots |-> Unused]
  /\ ready' = {}
  /\ locked' = {}
  /\ UNCHANGED <<tenant, owner, thread, tout, caller, mixed>>

----------------------------------------------------------------------------
(* ws_accept *)

\* accept returns the lowest free descriptor, for a new connection.
Accept(c, p) ==
  /\ p < port_index
  /\ \A d \in Conns : ~ (pc[d] = "accepted" /\ port[d] = p)
  /\ Goto(c, "new", "accepted")
  /\ port' = [port EXCEPT ![c] = p]
  /\ \E f \in Fds :
       /\ owner[f] = NoConn
       /\ \A g \in Fds : owner[g] = NoConn => f <= g
       /\ owner' = [owner EXCEPT ![f] = c]
       /\ sock' = [sock EXCEPT ![c] = f]
       /\ Mixes(c, FdUsers(f))
  /\ UNCHANGED <<table, port_index, idx, clse_thrd, tout, caller>>

\* Mutant of Free: takes any slot for a free one.
AnySlot == Slots

Free == {i \in Slots : slot[i].client_sock = NoFd}

\* Mutant of AddToTable: does not take the global mutex.
AddsUnlocked(c) ==
  /\ Goto(c, "accepted", "start")
  /\ \E i \in Free :
       /\ slot' = [slot EXCEPT ![i] = [client_sock |-> sock[c], port_index |-> port[c],
                                       state |-> CONNECTING, close_thrd |-> FALSE,
                                       thrd_tout |-> @.thrd_tout]]
       /\ ready' = ready \cup {i}
       /\ Unlock(i)
       /\ tenant' = [tenant EXCEPT ![i] = c]
       /\ idx' = [idx EXCEPT ![c] = i]
       /\ Mixes(c, SlotUsers(i))
  /\ UNCHANGED <<kernel, sock, port, clse_thrd, tout, caller>>

\* pthread_mutex_init makes the mutex free, whoever holds it.
AddToTable(c) ==
  /\ MutexFree
  /\ Goto(c, "accepted", "start")
  /\ \E i \in Free :
       /\ \A j \in Free : i <= j
       /\ slot' = [slot EXCEPT ![i] = [client_sock |-> sock[c], port_index |-> port[c],
                                       state |-> CONNECTING, close_thrd |-> FALSE,
                                       thrd_tout |-> @.thrd_tout]]
       /\ ready' = ready \cup {i}
       /\ Unlock(i)
       /\ tenant' = [tenant EXCEPT ![i] = c]
       /\ idx' = [idx EXCEPT ![c] = i]
       /\ Mixes(c, SlotUsers(i))
  /\ UNCHANGED <<kernel, sock, port, clse_thrd, tout, caller>>

\* The table is full.
Refuse(c) ==
  /\ MutexFree
  /\ Goto(c, "accepted", "refused")
  /\ Free = {}
  /\ close_socket(sock[c])
  /\ UNCHANGED <<table, port_index, locals, tout, caller, mixed>>

----------------------------------------------------------------------------
(* ws_establishconnection. A step that only moves the thread leaves            *)
(* everything else alone.                                                      *)

Moves(c, from, to) ==
  /\ Goto(c, from, to)
  /\ UNCHANGED <<table, kernel, locals, tout, caller, mixed>>

MySlot(c) == slot[idx[c]]

set_client_state(i, state) == slot' = [slot EXCEPT ![i].state = state]

\* The descriptor and the port are read from the slot without a lock.
StartThread(c) ==
  /\ Goto(c, "start", "handshake")
  /\ sock' = [sock EXCEPT ![c] = MySlot(c).client_sock]
  /\ port' = [port EXCEPT ![c] = MySlot(c).port_index]
  /\ UNCHANGED <<table, kernel, idx, clse_thrd, tout, caller, mixed>>

\* do_handshake succeeds and calls onopen, or fails.
Handshake(c) == Peer(sock[c]) # NoConn /\ Moves(c, "handshake", "set_open")
HandshakeFails(c) == Moves(c, "handshake", "closed")

SetOpen(c) ==
  /\ Goto(c, "set_open", "read")
  /\ Unlocked(idx[c])
  /\ set_client_state(idx[c], OPEN)
  /\ UNCHANGED <<mutexes, tenant, kernel, locals, tout, caller, mixed>>

\* next_frame returns a CLOSE frame, which may have been received before the
\* descriptor was closed; it fails because the client is gone or its frame is
\* refused; it fails because the server has closed the descriptor. A failure
\* ends the loop, and onclose is called on the way to closed.
RecvClose(c) == Moves(c, "read", "got_close")
RecvFails(c) == Moves(c, "read", "closed")
RecvOnClosed(c) == Peer(sock[c]) = NoConn /\ Moves(c, "read", "closed")

GetState(c) ==
  /\ Unlocked(idx[c])
  /\ Moves(c, "got_close", IF MySlot(c).state # CLOSING THEN "set_closing" ELSE "closed")

\* The reply of do_close follows, and nobody asks whether it was sent.
SetClosing(c) ==
  /\ Goto(c, "set_closing", "closed")
  /\ Unlocked(idx[c])
  /\ set_client_state(idx[c], CLOSING)
  /\ UNCHANGED <<mutexes, tenant, kernel, locals, tout, caller, mixed>>

\* The critical section after the label closed: close_thrd and the state are
\* read. Somebody else has closed the connection;
AlreadyClosed(c) ==
  /\ Moves(c, "closed", IF MySlot(c).close_thrd THEN "join" ELSE "destroy")
  /\ Unlocked(idx[c])
  /\ MySlot(c).state = CLOSED

\* or nobody has: the slot is emptied,
EmptySlot(c) ==
  /\ Goto(c, "closed", "emptied")
  /\ Lock(idx[c])
  /\ MySlot(c).state # CLOSED
  /\ clse_thrd' = [clse_thrd EXCEPT ![c] = MySlot(c).close_thrd]
  /\ slot' = [slot EXCEPT ![idx[c]].client_sock = NoFd]
  /\ UNCHANGED <<ready, tenant, kernel, sock, port, idx, tout, caller, mixed>>

\* the state set,
SetClosed(c) ==
  /\ Goto(c, "emptied", "set_closed")
  /\ set_client_state(idx[c], CLOSED)
  /\ UNCHANGED <<mutexes, tenant, kernel, locals, tout, caller, mixed>>

\* Mutant of CloseSocket: never joins.
NeverJoins(c) ==
  /\ Goto(c, "set_closed", "destroy")
  /\ close_socket(sock[c])
  /\ Unlock(idx[c])
  /\ UNCHANGED <<slot, ready, tenant, port_index, locals, tout, caller, mixed>>

\* and the descriptor closed.
CloseSocket(c) ==
  /\ Goto(c, "set_closed", IF clse_thrd[c] THEN "join" ELSE "destroy")
  /\ close_socket(sock[c])
  /\ Unlock(idx[c])
  /\ UNCHANGED <<slot, ready, tenant, port_index, locals, tout, caller, mixed>>

\* pthread_join; a thrd_tout that is no thread does not wait.
Join(c) ==
  /\ Moves(c, "join", "destroy")
  /\ \/ MySlot(c).thrd_tout = NoConn
     \/ tout[MySlot(c).thrd_tout] \notin Timing

\* pthread_mutex_destroy may fail on a mutex that is held. The thread ends, and
\* with it its variables.
Destroy(c) ==
  /\ Goto(c, "destroy", "done")
  /\ \/ ready' = ready \ {idx[c]} /\ Unlock(idx[c])
     \/ idx[c] \in locked /\ UNCHANGED mutexes
  /\ slot' = [slot EXCEPT ![idx[c]].close_thrd = FALSE]
  /\ sock' = [sock EXCEPT ![c] = NoFd]
  /\ clse_thrd' = [clse_thrd EXCEPT ![c] = FALSE]
  /\ UNCHANGED <<tenant, kernel, port, idx, tout, caller, mixed>>

----------------------------------------------------------------------------
(* close_timeout. The thread sees the state CLOSED,                            *)

TimeoutQuits(c) ==
  /\ tout[c] = "waiting"
  /\ Unlocked(idx[c])
  /\ MySlot(c).state = CLOSED
  /\ tout' = [tout EXCEPT ![c] = "quit"]
  /\ UNCHANGED <<table, kernel, thread, caller, mixed>>

\* or its time is over, which may happen early or late: the descriptor is closed,
TimeoutFires(c) ==
  /\ tout[c] = "waiting"
  /\ Lock(idx[c])
  /\ MySlot(c).state # CLOSED
  /\ tout' = [tout EXCEPT ![c] = "fd_closed"]
  /\ close_socket(MySlot(c).client_sock)
  /\ UNCHANGED <<slot, ready, tenant, port_index, thread, caller, mixed>>

\* Mutant of TimeoutEmptiesSlot: leaves the descriptor in the slot.
KeepsSlot(c) ==
  /\ tout[c] = "fd_closed"
  /\ tout' = [tout EXCEPT ![c] = "emptied"]
  /\ UNCHANGED <<table, kernel, thread, caller, mixed>>

\* the slot emptied,
TimeoutEmptiesSlot(c) ==
  /\ tout[c] = "fd_closed"
  /\ tout' = [tout EXCEPT ![c] = "emptied"]
  /\ slot' = [slot EXCEPT ![idx[c]].client_sock = NoFd]
  /\ UNCHANGED <<mutexes, tenant, kernel, thread, caller, mixed>>

\* and the state set.
TimeoutSetsClosed(c) ==
  /\ tout[c] = "emptied"
  /\ tout' = [tout EXCEPT ![c] = "fired"]
  /\ set_client_state(idx[c], CLOSED)
  /\ Unlock(idx[c])
  /\ UNCHANGED <<ready, tenant, kernel, thread, caller, mixed>>

----------------------------------------------------------------------------
(* The callers. A call that fails at once leaves everything as it was.         *)

\* Descriptors the program was given by onopen and not yet by onclose
Known == {sock[c] : c \in {d \in Conns : pc[d] \in {"set_open", "read", "got_close", "set_closing"}}}

Sets(k, r) == caller' = [caller EXCEPT ![k] = r]

\* ws_close_client: get_client_index finds the slot,
CloseClient(k, f) ==
  /\ caller[k].at = "idle"
  /\ MutexFree
  /\ \E i \in Slots :
       /\ slot[i].client_sock = f
       /\ \A j \in Slots : slot[j].client_sock = f => i <= j
       /\ Sets(k, [Idle EXCEPT !.at = "send_close", !.fd = f, !.i = i, !.from = tenant[i]])
  /\ UNCHANGED <<table, kernel, thread, tout, mixed>>

\* the CLOSE frame is sent, or is not,
SendCloseFrame(k) ==
  /\ caller[k].at = "send_close"
  /\ \/ Peer(caller[k].fd) # NoConn /\ Sets(k, [caller[k] EXCEPT !.at = "start_timeout"])
     \/ Sets(k, Idle)
  /\ UNCHANGED <<table, kernel, thread, tout, mixed>>

\* Mutant of StartCloseTimeout: starts no thread.
OnlySetsState(k) ==
  /\ caller[k].at = "start_timeout"
  /\ Unlocked(caller[k].i)
  /\ Sets(k, Idle)
  /\ IF slot[caller[k].i].state = OPEN
       THEN set_client_state(caller[k].i, CLOSING)
       ELSE UNCHANGED slot
  /\ UNCHANGED <<mutexes, tenant, kernel, thread, tout, mixed>>

\* Mutant of StartCloseTimeout: asks for the wrong state.
StartsWhileConnecting(k) ==
  LET i == caller[k].i IN
  /\ caller[k].at = "start_timeout"
  /\ Unlocked(i)
  /\ Sets(k, Idle)
  /\ IF slot[i].state = CONNECTING
       THEN /\ slot' = [slot EXCEPT ![i].state = CLOSING, ![i].close_thrd = TRUE,
                                    ![i].thrd_tout = tenant[i]]
            /\ tout' = [tout EXCEPT ![tenant[i]] = "waiting"]
       ELSE UNCHANGED <<slot, tout>>
  /\ UNCHANGED <<mutexes, tenant, kernel, thread, mixed>>

\* and start_close_timeout is called; whatever it does, the result is 0.
StartCloseTimeout(k) ==
  LET i == caller[k].i IN
  /\ caller[k].at = "start_timeout"
  /\ Unlocked(i)
  /\ Sets(k, Idle)
  /\ IF slot[i].state = OPEN
       THEN /\ slot' = [slot EXCEPT ![i].state = CLOSING, ![i].close_thrd = TRUE,
                                    ![i].thrd_tout = tenant[i]]
            /\ tout' = [tout EXCEPT ![tenant[i]] = "waiting"]
       ELSE UNCHANGED <<slot, tout>>
  /\ UNCHANGED <<mutexes, tenant, kernel, thread, mixed>>

\* ws_sendframe with broadcast: the frame is sent to fd,
SendFrame(k, f) ==
  /\ caller[k].at = "idle"
  /\ Peer(f) # NoConn
  /\ Sets(k, [Idle EXCEPT !.at = "sent", !.fd = f, !.from = Peer(f)])
  /\ UNCHANGED <<table, kernel, thread, tout, mixed>>

\* the global mutex is taken and the port of fd looked up,
LockTable(k) ==
  LET found == {i \in Slots : slot[i].client_sock = caller[k].fd} IN
  /\ caller[k].at = "sent"
  /\ MutexFree
  /\ \/ /\ found = {}
        /\ Sets(k, [caller[k] EXCEPT !.at = "broadcast", !.i = 1])
     \/ \E i \in found :
          /\ \A j \in found : i <= j
          /\ Sets(k, [caller[k] EXCEPT !.at = "broadcast", !.i = 1,
                                       !.port = slot[i].port_index])
  /\ UNCHANGED <<table, kernel, thread, tout, mixed>>

Looping(k) == caller[k].at = "broadcast" /\ caller[k].sock = NoFd /\ caller[k].i \in Slots

\* client_socks[i] is read, without the mutex of the slot: is the frame for it?
NextClient(k) ==
  LET i == caller[k].i
      s == slot[i].client_sock
  IN
  /\ Looping(k)
  /\ IF s # NoFd /\ s # caller[k].fd /\ slot[i].port_index = caller[k].port
       THEN Sets(k, [caller[k] EXCEPT !.sock = s, !.to = tenant[i]])
       ELSE Sets(k, [caller[k] EXCEPT !.i = i + 1])
  /\ UNCHANGED <<table, kernel, thread, tout, mixed>>

\* It is sent, or the first failure ends the broadcast.
SendToClient(k) ==
  LET s == caller[k].sock IN
  /\ caller[k].at = "broadcast"
  /\ s # NoFd
  /\ \/ /\ Peer(s) # NoConn
        /\ Sets(k, [caller[k] EXCEPT !.i = @ + 1, !.sock = NoFd, !.to = NoConn,
                                     !.reached = @ \cup {Peer(s)}])
     \/ Sets(k, Idle)
  /\ UNCHANGED <<table, kernel, thread, tout, mixed>>

EndBroadcast(k) ==
  /\ caller[k].at = "broadcast"
  /\ caller[k].i = MaxClients + 1
  /\ Sets(k, Idle)
  /\ UNCHANGED <<table, kernel, thread, tout, mixed>>

----------------------------------------------------------------------------
AcceptThread(c) == AddToTable(c) \/ Refuse(c)

\* What the client thread does without waiting for its client
ClientThread(c) ==
  \/ StartThread(c) \/ SetOpen(c) \/ RecvOnClosed(c) \/ GetState(c) \/ SetClosing(c)
  \/ AlreadyClosed(c) \/ EmptySlot(c) \/ SetClosed(c) \/ CloseSocket(c)
  \/ Join(c) \/ Destroy(c)

Timeout(c) ==
  TimeoutQuits(c) \/ TimeoutFires(c) \/ TimeoutEmptiesSlot(c) \/ TimeoutSetsClosed(c)

\* What the client does
Client(c) ==
  \/ \E p \in Ports : Accept(c, p)
  \/ Handshake(c) \/ HandshakeFails(c) \/ RecvClose(c) \/ RecvFails(c)

Call(k) == \E f \in Known : CloseClient(k, f) \/ SendFrame(k, f)

\* The rest of a call
Caller(k) ==
  \/ SendCloseFrame(k) \/ StartCloseTimeout(k)
  \/ LockTable(k) \/ NextClient(k) \/ SendToClient(k) \/ EndBroadcast(k)

Next ==
  \/ Listen
  \/ \E c \in Conns : Client(c) \/ AcceptThread(c) \/ ClientThread(c) \/ Timeout(c)
  \/ \E k \in Callers : Call(k) \/ Caller(k)

Spec == Init /\ [][Next]_vars

\* Threads are scheduled, a time-out elapses, a send returns. Nothing is assumed
\* of what clients do or of whether a call is made.
FairSpec ==
  /\ Spec
  /\ \A c \in Conns : WF_vars(ClientThread(c)) /\ WF_vars(Timeout(c))
  /\ \A k \in Callers : WF_vars(Caller(k))

----------------------------------------------------------------------------
CallerType ==
  [at : {"idle", "send_close", "start_timeout", "sent", "broadcast"},
   fd : Fds \cup {NoFd}, from : Conns \cup {NoConn}, i : 0 .. MaxClients + 1,
   port : Ports \cup {NoPort}, sock : Fds \cup {NoFd}, to : Conns \cup {NoConn},
   reached : SUBSET Conns]

TypeOK ==
  /\ slot \in [Slots -> [client_sock : Fds \cup {NoFd}, port_index : Ports \cup {NoPort},
                         state : -1 .. 3, close_thrd : BOOLEAN,
                         thrd_tout : Conns \cup {NoConn}]]
  /\ ready \subseteq Slots
  /\ locked \subseteq Slots
  /\ tenant \in [Slots -> Conns \cup {NoConn}]
  /\ owner \in [Fds -> Conns \cup {NoConn}]
  /\ port_index \in 0 .. MaxPorts
  /\ pc \in [Conns -> Running \cup {"new", "refused", "done"}]
  /\ sock \in [Conns -> Fds \cup {NoFd}]
  /\ port \in [Conns -> Ports \cup {NoPort}]
  /\ idx \in [Conns -> 0 .. MaxClients]
  /\ clse_thrd \in [Conns -> BOOLEAN]
  /\ tout \in [Conns -> Timing \cup {"none", "fired", "quit"}]
  /\ caller \in [Callers -> CallerType]
  /\ mixed \subseteq Conns

Unmixed == Conns \ mixed
HasFd(c) == \E f \in Fds : owner[f] = c
InTable(i) == slot[i].client_sock # NoFd

\* While the mutex of its slot is free, the descriptor of a connection is open
\* exactly if the slot holds it. Who holds the global mutex only may see two other
\* combinations: a closed descriptor that is still in the table, when the time-out
\* thread has just closed it, and one that has left the table and is open, unless
\* the time-out came first, when the client thread is about to close it. None is
\* open when the connection has ended: neither a slot nor a descriptor leaks, and
\* no entry of the table stays dead.
SlotHoldsDescriptor ==
  \A c \in Unmixed :
    /\ pc[c] \in WithSlot =>
         CASE tout[c] = "fd_closed" -> InTable(idx[c]) /\ ~ HasFd(c)
           [] pc[c] \in {"emptied", "set_closed"} ->
                ~ InTable(idx[c]) /\ (HasFd(c) <=> tout[c] # "fired")
           [] OTHER -> HasFd(c) <=> InTable(idx[c])
    /\ pc[c] \in {"join", "destroy", "done", "refused"} => ~ HasFd(c)

\* The mutex and the condition variable of a slot exist as long as the client
\* thread or a time-out thread can use them: the join keeps the first from
\* destroying what the second waits on.
MutexAlive ==
  \A c \in Unmixed : pc[c] \in WithSlot \/ tout[c] \in Timing => idx[c] \in ready

\* A connection that nobody has begun to take out of the table keeps its slot and
\* its descriptor to itself: only newcomers, connections whose descriptor was
\* closed and connections whose thread has emptied the slot, and is about to set
\* the state and to close the descriptor, are ever mixed up.
ServedUndisturbed ==
  [][\A c \in mixed' \ mixed :
       \/ pc[c] \in {"new", "accepted", "emptied", "set_closed"}
       \/ ~ HasFd(c)]_vars

\* A broadcast reaches no connection of another port, and not its sender again,
\* although the descriptors it reads may be closed before it sends to them.
BroadcastStaysOnPort ==
  \A k \in Callers :
    caller[k].from \in Unmixed =>
      \A d \in caller[k].reached \cap Unmixed :
        d # caller[k].from /\ port[d] = port[caller[k].from]

\* When a broadcast has passed a slot, the connection in it was sent the frame,
\* if it came through the port of the sender: nobody gets into the table behind
\* the back of a broadcast.
BroadcastReachesAll ==
  \A k \in Callers :
    caller[k].at = "broadcast" /\ caller[k].from \in Unmixed =>
      \A i \in Slots :
        /\ i < caller[k].i
        /\ InTable(i)
        /\ tenant[i] \in Unmixed \ {caller[k].from}
        /\ slot[i].port_index = caller[k].port
        => tenant[i] \in caller[k].reached

\* A broadcast reaches the clients of its port, and nobody else.
BroadcastReachesPort == BroadcastStaysOnPort /\ BroadcastReachesAll

\* When the server or the client has begun to close a connection, its thread
\* ends, even if the client never answers: the time-out wakes the thread, and
\* the thread does not wait for ever for the time-out thread.
Closing(c) ==
  \/ pc[c] = "read" /\ MySlot(c).state = CLOSING
  \/ pc[c] \in {"got_close", "set_closing", "closed", "emptied", "set_closed",
               "join", "destroy"}
ClosingEnds == \A c \in Conns : Closing(c) ~> pc[c] = "done" \/ c \in mixed

\* ws.c:1456: "this function can be called multiples times, from multiples
\* different threads": opening another port leaves the clients connected so far
\* in the table.
LaterPortKeepsClients ==
  [][port_index' # port_index => \A i \in Slots : InTable(i) => slot'[i] = slot[i]]_vars

\* ws.c:1351: "Removes client socket from socks list.": when the thread of a
\* connection has ended, the slot it was put into does not hold its socket,
\* whoever else had the slot meanwhile.
EndedLeaveTable == \A c \in Conns, i \in Slots : pc[c] = "done" /\ tenant[i] = c => ~ InTable(i)

\* ws.c:596: "If the client did not send a close frame in TIMEOUT_MS
\* milliseconds, the server will close the connection": when ws_close_client is
\* about to return 0 and the client thread reads frames, the connection ends. (A
\* call from onopen comes before the state OPEN: it returns 0 as well, starts no
\* time-out, and the connection need not end.)
CloseClientCloses ==
  \A c \in Conns :
    pc[c] = "read" /\ (\E k \in Callers : caller[k].at = "start_timeout" /\ caller[k].from = c)
      ~> pc[c] = "done" \/ c \in mixed

=============================================================================
