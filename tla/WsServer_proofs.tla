-------------------------- MODULE WsServer_proofs --------------------------
(***************************************************************************)
(* Proofs about WsServer, for any number of connections, slots,            *)
(* descriptors, ports and callers.                                         *)
(***************************************************************************)
EXTENDS WsServer, TLAPS

\* What is needed besides TypeOK to see that a step keeps the types: whoever
\* reads a slot has one, and so has a broadcast that is about to send.
AtWork ==
  /\ \A c \in Conns : pc[c] \in WithSlot \/ tout[c] \in Timing => idx[c] \in Slots
  /\ \A i \in Slots : tenant[i] \in Conns => idx[tenant[i]] \in Slots
  /\ \A k \in Callers :
       caller[k].sock # NoFd \/ caller[k].at \in {"send_close", "start_timeout"}
         => caller[k].i \in Slots

Typed == TypeOK /\ AtWork

\* No descriptor leads to a connection that was not accepted.
Accepted == \A f \in Fds : owner[f] \in Conns => pc[owner[f]] # "new"

TypeInv == Typed /\ Accepted

SlotType == [client_sock : Fds \cup {NoFd}, port_index : Ports \cup {NoPort},
             state : -1 .. 3, close_thrd : BOOLEAN, thrd_tout : Conns \cup {NoConn}]

\* An empty slot and an idle caller have their types.
LEMMA ValuesTyped ==
  /\ Unused \in SlotType
  /\ Idle \in CallerType /\ Idle.sock = NoFd /\ Idle.at = "idle"
  /\ NoFd \notin Fds /\ NoPort \notin Ports /\ Slots \subseteq 0 .. MaxClients
<1>1. MaxClients \in Nat /\ MaxPorts \in Nat /\ Fds \subseteq Nat
  BY MaxClientsAssumption, MaxPortsAssumption, FdsAssumption
<1>. QED BY <1>1 DEF Unused, SlotType, Idle, CallerType, NoFd, NoPort, Ports, Slots

\* Nothing is typed wrong at the start.
LEMMA InitTyped == Init => TypeInv
<1>. SUFFICES ASSUME Init PROVE TypeInv
  OBVIOUS
<1>1. MaxClients \in Nat /\ MaxPorts \in Nat
  BY MaxClientsAssumption, MaxPortsAssumption
<1>2. TypeOK
  BY <1>1, ValuesTyped DEF Init, TypeOK, SlotType, Running, Timing
<1>3. AtWork
  BY ValuesTyped, NoConnAssumption DEF Init, AtWork, WithSlot, Running, Timing
<1>4. Accepted
  BY NoConnAssumption DEF Init, Accepted
<1>. QED BY <1>2, <1>3, <1>4 DEF TypeInv, Typed

----------------------------------------------------------------------------
(* What makes the other invariants inductive. They are about programs that     *)
(* open their ports first; LatePorts is false from here on.                    *)

\* From AddToTable on a connection has a slot; its thread is serving it until it
\* empties the slot.
Seated(c) == pc[c] \in WithSlot \cup {"done"}
Active == WithSock \ {"accepted"}
Ending == {"emptied", "set_closed"}
Serving == Active \ Ending
Own(c) == Seated(c) /\ tenant[idx[c]] = c

\* Who may still act on the slot of c for c.
Uses(c) ==
  \/ pc[c] \in WithSlot
  \/ tout[c] \in Timing
  \/ \E k \in Callers : caller[k].at \in {"send_close", "start_timeout"} /\ caller[k].from = c

SeatInv ==
  \A c \in Conns :
    /\ Seated(c) => idx[c] \in Slots /\ tenant[idx[c]] \in Conns
    /\ tout[c] # "none" => Seated(c)
    /\ pc[c] = "accepted" => port[c] \in Ports

TenantInv ==
  \A i \in Slots :
    tenant[i] \in Conns =>
      /\ Seated(tenant[i])
      /\ idx[tenant[i]] = i
      /\ slot[i].port_index = port[tenant[i]]
      /\ slot[i].port_index \in Ports
      /\ slot[i].state # -1

TableInv == \A i \in Slots : InTable(i) => tenant[i] \in Conns

\* What the variables of a caller mean at its steps.
Means(r) ==
  /\ \A c \in r.reached \cup {r.from, r.to} : c \in Conns => pc[c] # "new"
  /\ r.at \in {"send_close", "start_timeout"} =>
       /\ r.from \in Conns => Seated(r.from) /\ r.i = idx[r.from]
       /\ r.fd \in Fds \/ r.at = "start_timeout" => r.from \in Conns
  /\ r.at = "sent" => r.port = NoPort
  /\ r.at \in {"sent", "broadcast"} => r.fd \in Fds /\ r.from \in Conns
  /\ r.at # "broadcast" => r.sock = NoFd /\ r.reached = {}
  /\ r.sock # NoFd =>
       /\ r.to \in Conns
       /\ tenant[r.i] = r.to
       /\ InTable(r.i) => slot[r.i].client_sock = r.sock
CallerInv == \A k \in Callers : Means(caller[k])

\* While it is used, the slot of a connection that is not mixed up with others
\* is its own; when it is not used, nobody else uses it before it is given away.
SeatsApart ==
  \A c \in Unmixed :
    /\ Uses(c) => tenant[idx[c]] = c
    /\ Own(c) => \A d \in Conns \ {c} : idx[d] = idx[c] => ~ Uses(d)

\* Nobody else has the number of its descriptor.
FdsApart ==
  \A f \in Fds :
    owner[f] \in Unmixed => \A d \in Conns : HasNumber(d, f) => d = owner[f]

\* Its thread has the number until it is closed, and so has its slot until it is
\* emptied.
FdMeant(c) ==
  /\ pc[c] = "accepted" \/ (pc[c] \in Ending /\ tout[c] # "fired") =>
       sock[c] \in Fds /\ owner[sock[c]] = c
  /\ \A f \in Fds :
       owner[f] = c =>
         /\ sock[c] = f
         /\ \/ pc[c] = "accepted"
            \/ pc[c] \in Serving /\ slot[idx[c]].client_sock = f
            \/ pc[c] \in Ending /\ tout[c] # "fired"

\* Its slot is in the table until one of the two threads empties it. A time-out
\* thread was not started yet if the state is not CLOSING or CLOSED; until it
\* ends it is joined by the client thread.
SlotMeant(c) ==
  LET s == slot[idx[c]] IN
  /\ InTable(idx[c]) <=> pc[c] \in Serving /\ tout[c] \notin {"emptied", "fired"}
  /\ InTable(idx[c]) =>
       /\ owner[s.client_sock] = IF tout[c] = "fd_closed" THEN NoConn ELSE c
       /\ s.state # CLOSED
  /\ pc[c] \in {"set_closed", "join", "destroy", "done"} => s.state = CLOSED
  /\ pc[c] \in {"start", "handshake", "set_open"} => s.state = CONNECTING
  /\ s.state \in {CONNECTING, OPEN} => tout[c] = "none"
  /\ tout[c] \in Timing => s.close_thrd /\ s.thrd_tout = c /\ pc[c] \notin {"destroy", "done"}

\* One of the two threads holds the mutex while it ends the connection, so no
\* time-out thread is started behind the back of the client thread.
MutexMeant(c) ==
  /\ pc[c] \in Ending => idx[c] \in locked
  /\ tout[c] \in {"fd_closed", "emptied"} => idx[c] \in locked /\ pc[c] \in Serving
  /\ pc[c] \in Ending /\ tout[c] \in Timing => clse_thrd[c]

ConnInv == \A c \in Unmixed : FdMeant(c) /\ (Own(c) => SlotMeant(c) /\ MutexMeant(c))

\* The descriptors a caller keeps are those of the connections it means.
FdsMeant(r) ==
  /\ r.from \in Unmixed =>
       /\ r.fd \in Fds => \A f \in Fds : owner[f] = r.from => f = r.fd
       /\ r.at \in {"sent", "broadcast"} => \A d \in Conns : HasNumber(d, r.fd) => d = r.from
  /\ r.to \in Unmixed => \A f \in Fds : owner[f] = r.to => f = r.sock
CallerFds == \A k \in Callers : FdsMeant(caller[k])

\* A broadcast looks for its own port, and finds others of that port.
PortsMeant(r) ==
  r.from \in Unmixed /\ r.at = "broadcast" =>
    /\ r.port \in {NoPort, port[r.from]}
    /\ r.sock # NoFd => r.port # NoPort
    /\ \A f \in Fds :
         f = r.sock /\ owner[f] \in Unmixed => owner[f] # r.from /\ port[owner[f]] = r.port
PortInv == \A k \in Callers : PortsMeant(caller[k])

IInv ==
  /\ TypeInv
  /\ SeatInv
  /\ TenantInv
  /\ TableInv
  /\ CallerInv
  /\ SeatsApart
  /\ FdsApart
  /\ ConnInv
  /\ MutexAlive
  /\ CallerFds
  /\ PortInv
  /\ BroadcastStaysOnPort
  /\ BroadcastReachesAll

----------------------------------------------------------------------------
(* Types *)

\* Entry i of the table gets these fields, the others stay.
Becomes(i, f, p, x, b, t) ==
  /\ slot' \in [Slots -> SlotType]
  /\ \A j \in Slots \ {i} : slot'[j] = slot[j]
  /\ slot'[i].client_sock = f
  /\ slot'[i].port_index = p
  /\ slot'[i].state = x
  /\ slot'[i].close_thrd = b
  /\ slot'[i].thrd_tout = t

\* A whole entry is replaced.
LEMMA EntryReplaced ==
  ASSUME slot \in [Slots -> SlotType], NEW i \in Slots, NEW s \in SlotType,
         slot' = [slot EXCEPT ![i] = s]
  PROVE  Becomes(i, s.client_sock, s.port_index, s.state, s.close_thrd, s.thrd_tout)
BY DEF Becomes

\* set_client_state
LEMMA StateSet ==
  ASSUME slot \in [Slots -> SlotType], NEW i \in Slots, NEW x \in -1 .. 3, set_client_state(i, x)
  PROVE  Becomes(i, slot[i].client_sock, slot[i].port_index, x, slot[i].close_thrd, slot[i].thrd_tout)
<1>. DEFINE s == [slot[i] EXCEPT !.state = x]
<1>1. slot[i] \in SlotType
  OBVIOUS
<1>2. /\ s \in SlotType
      /\ s.client_sock = slot[i].client_sock /\ s.port_index = slot[i].port_index
      /\ s.state = x /\ s.close_thrd = slot[i].close_thrd /\ s.thrd_tout = slot[i].thrd_tout
  BY <1>1 DEF SlotType
<1>3. slot' = [slot EXCEPT ![i] = s]
  BY DEF set_client_state
<1>. HIDE DEF s
<1>. QED BY <1>2, <1>3, EntryReplaced

\* The descriptor is taken out of an entry.
LEMMA EntryEmptied ==
  ASSUME slot \in [Slots -> SlotType], NEW i \in Slots,
         slot' = [slot EXCEPT ![i].client_sock = NoFd]
  PROVE  Becomes(i, NoFd, slot[i].port_index, slot[i].state, slot[i].close_thrd, slot[i].thrd_tout)
<1>. DEFINE s == [slot[i] EXCEPT !.client_sock = NoFd]
<1>1. slot[i] \in SlotType
  OBVIOUS
<1>2. /\ s \in SlotType
      /\ s.client_sock = NoFd /\ s.port_index = slot[i].port_index
      /\ s.state = slot[i].state /\ s.close_thrd = slot[i].close_thrd /\ s.thrd_tout = slot[i].thrd_tout
  BY <1>1 DEF SlotType
<1>3. slot' = [slot EXCEPT ![i] = s]
  OBVIOUS
<1>. HIDE DEF s
<1>. QED BY <1>2, <1>3, EntryReplaced

\* Nobody has to join any more.
LEMMA EntryLeft ==
  ASSUME slot \in [Slots -> SlotType], NEW i \in Slots,
         slot' = [slot EXCEPT ![i].close_thrd = FALSE]
  PROVE  Becomes(i, slot[i].client_sock, slot[i].port_index, slot[i].state, FALSE, slot[i].thrd_tout)
<1>. DEFINE s == [slot[i] EXCEPT !.close_thrd = FALSE]
<1>1. slot[i] \in SlotType
  OBVIOUS
<1>2. /\ s \in SlotType
      /\ s.client_sock = slot[i].client_sock /\ s.port_index = slot[i].port_index
      /\ s.state = slot[i].state /\ s.close_thrd = FALSE /\ s.thrd_tout = slot[i].thrd_tout
  BY <1>1 DEF SlotType
<1>3. slot' = [slot EXCEPT ![i] = s]
  OBVIOUS
<1>. HIDE DEF s
<1>. QED BY <1>2, <1>3, EntryReplaced

\* A time-out thread is started.
LEMMA EntryTimed ==
  ASSUME slot \in [Slots -> SlotType], NEW i \in Slots, NEW x \in -1 .. 3, NEW c \in Conns \cup {NoConn},
         slot' = [slot EXCEPT ![i].state = x, ![i].close_thrd = TRUE, ![i].thrd_tout = c]
  PROVE  Becomes(i, slot[i].client_sock, slot[i].port_index, x, TRUE, c)
<1>. DEFINE s == [slot[i] EXCEPT !.state = x, !.close_thrd = TRUE, !.thrd_tout = c]
<1>1. slot[i] \in SlotType
  OBVIOUS
<1>2. /\ s \in SlotType
      /\ s.client_sock = slot[i].client_sock /\ s.port_index = slot[i].port_index
      /\ s.state = x /\ s.close_thrd = TRUE /\ s.thrd_tout = c
  BY <1>1 DEF SlotType
<1>3. slot' = [slot EXCEPT ![i] = s]
  OBVIOUS
<1>. HIDE DEF s
<1>. QED BY <1>2, <1>3, EntryReplaced DEF Becomes

\* The states are states, and a broadcast counts from one.
LEMMA NumbersTyped ==
  /\ CONNECTING \in -1 .. 3 /\ OPEN \in -1 .. 3 /\ CLOSING \in -1 .. 3 /\ CLOSED \in -1 .. 3
  /\ 1 \in 0 .. MaxClients + 1 /\ 1 \in Slots
  /\ \A i \in Slots : i \in 0 .. MaxClients + 1 /\ i + 1 \in 0 .. MaxClients + 1
BY MaxClientsAssumption DEF CONNECTING, OPEN, CLOSING, CLOSED, Slots

\* The variables of a caller stay typed through each of its steps.
LEMMA CallTyped ==
  ASSUME NEW r \in CallerType
  PROVE  /\ \A f \in Fds \cup {NoFd}, i \in 0 .. MaxClients + 1, c \in Conns \cup {NoConn} :
              [r EXCEPT !.at = "send_close", !.fd = f, !.i = i, !.from = c] \in CallerType
         /\ [r EXCEPT !.at = "start_timeout"] \in CallerType
         /\ \A f \in Fds \cup {NoFd}, c \in Conns \cup {NoConn} :
              [r EXCEPT !.at = "sent", !.fd = f, !.from = c] \in CallerType
         /\ \A i \in 0 .. MaxClients + 1 : [r EXCEPT !.at = "broadcast", !.i = i] \in CallerType
         /\ \A i \in 0 .. MaxClients + 1, p \in Ports \cup {NoPort} :
              [r EXCEPT !.at = "broadcast", !.i = i, !.port = p] \in CallerType
         /\ \A f \in Fds \cup {NoFd}, c \in Conns \cup {NoConn} :
              [r EXCEPT !.sock = f, !.to = c] \in CallerType
         /\ \A i \in 0 .. MaxClients + 1 : [r EXCEPT !.i = i] \in CallerType
         /\ \A i \in 0 .. MaxClients + 1, S \in SUBSET Conns :
              [r EXCEPT !.i = i, !.sock = NoFd, !.to = NoConn, !.reached = S] \in CallerType
<1>1. \A f \in Fds \cup {NoFd}, i \in 0 .. MaxClients + 1, c \in Conns \cup {NoConn} :
        [r EXCEPT !.at = "send_close", !.fd = f, !.i = i, !.from = c] \in CallerType
  BY DEF CallerType
<1>2. [r EXCEPT !.at = "start_timeout"] \in CallerType
  BY DEF CallerType
<1>3. \A f \in Fds \cup {NoFd}, c \in Conns \cup {NoConn} :
        [r EXCEPT !.at = "sent", !.fd = f, !.from = c] \in CallerType
  BY DEF CallerType
<1>4. \A i \in 0 .. MaxClients + 1 : [r EXCEPT !.at = "broadcast", !.i = i] \in CallerType
  BY DEF CallerType
<1>5. \A i \in 0 .. MaxClients + 1, p \in Ports \cup {NoPort} :
        [r EXCEPT !.at = "broadcast", !.i = i, !.port = p] \in CallerType
  BY DEF CallerType
<1>6. \A f \in Fds \cup {NoFd}, c \in Conns \cup {NoConn} :
        [r EXCEPT !.sock = f, !.to = c] \in CallerType
  BY DEF CallerType
<1>7. \A i \in 0 .. MaxClients + 1 : [r EXCEPT !.i = i] \in CallerType
  BY DEF CallerType
<1>8. \A i \in 0 .. MaxClients + 1, S \in SUBSET Conns :
        [r EXCEPT !.i = i, !.sock = NoFd, !.to = NoConn, !.reached = S] \in CallerType
  BY DEF CallerType
<1>. QED BY <1>1, <1>2, <1>3, <1>4, <1>5, <1>6, <1>7, <1>8

\* close_socket, whatever it is given, leaves connections behind descriptors.
LEMMA CloseTyped ==
  ASSUME TypeOK, NEW f, close_socket(f)
  PROVE  owner' \in [Fds -> Conns \cup {NoConn}]
BY DEF TypeOK, close_socket

\* A step of the server keeps the types.
LEMMA ServerTyped ==
  ASSUME Typed,
         \/ Listen
         \/ \E c \in Conns : Client(c) \/ AcceptThread(c) \/ ClientThread(c) \/ Timeout(c)
  PROVE  Typed'
<1>. USE ValuesTyped, MaxClientsAssumption, MaxPortsAssumption
<1>0. slot \in [Slots -> SlotType] /\ TypeOK /\ AtWork
  BY DEF Typed, TypeOK, SlotType
<1>1. CASE Listen
  BY <1>0, <1>1 DEF Listen, Typed, TypeOK, AtWork, SlotType, thread, locals, Ports
<1>2. ASSUME NEW c \in Conns, NEW from \in Running, NEW to \in Running \cup {"done"},
             Moves(c, from, to), to \in WithSlot => from \in WithSlot
      PROVE  Typed'
  BY <1>0, <1>2 DEF Moves, Goto, Typed, TypeOK, AtWork, table, mutexes, kernel, locals
<1>3. ASSUME NEW c \in Conns, NEW p \in Ports, Accept(c, p) PROVE Typed'
  BY <1>0, <1>3
     DEF Accept, Mixes, FdUsers, Goto, Typed, TypeOK, AtWork, table, mutexes, WithSlot, Running
<1>4. ASSUME NEW c \in Conns, AddToTable(c) PROVE Typed'
  BY <1>0, <1>4 DEF AddToTable, Free, Unlock, Mixes, SlotUsers, Goto, Typed, TypeOK, AtWork, SlotType,
     kernel, WithSlot, Running, CONNECTING
<1>5. ASSUME NEW c \in Conns, Refuse(c) PROVE Typed'
  BY <1>0, <1>5, CloseTyped
     DEF Refuse, Goto, Typed, TypeOK, AtWork, table, mutexes, locals, WithSlot, Running
<1>6. ASSUME NEW c \in Conns, StartThread(c) PROVE Typed'
  BY <1>0, <1>6
     DEF StartThread, MySlot, Goto, Typed, TypeOK, AtWork, SlotType, table, mutexes, kernel, WithSlot,
         Running
<1>7. ASSUME NEW c \in Conns, SetOpen(c) \/ SetClosing(c) \/ SetClosed(c) PROVE Typed'
  <2>1. idx[c] \in Slots
    BY <1>0, <1>7 DEF SetOpen, SetClosing, SetClosed, Goto, AtWork, WithSlot, Running
  <2>2. slot' \in [Slots -> SlotType]
    BY <1>0, <1>7, <2>1, StateSet, NumbersTyped DEF SetOpen, SetClosing, SetClosed, Becomes
  <2>. QED
    BY ZenonT(60), <1>0, <1>7, <2>2
       DEF SetOpen, SetClosing, SetClosed, Goto, Typed, TypeOK, AtWork, SlotType, mutexes, kernel, locals,
           WithSlot, Running
<1>8. ASSUME NEW c \in Conns, EmptySlot(c) PROVE Typed'
  <2>1. idx[c] \in Slots
    BY <1>0, <1>8 DEF EmptySlot, Goto, AtWork, WithSlot, Running
  <2>2. slot' \in [Slots -> SlotType] /\ MySlot(c).close_thrd \in BOOLEAN
    BY <1>0, <1>8, <2>1, EntryEmptied DEF EmptySlot, Becomes, MySlot, SlotType
  <2>. QED
    BY <1>0, <1>8, <2>2
       DEF EmptySlot, Lock, Goto, Typed, TypeOK, AtWork, SlotType, kernel, WithSlot, Running
<1>9. ASSUME NEW c \in Conns, CloseSocket(c) PROVE Typed'
  <2>1. owner' \in [Fds -> Conns \cup {NoConn}]
    BY <1>0, <1>9, CloseTyped DEF CloseSocket
  <2>. QED
    BY <1>0, <1>9, <2>1
       DEF CloseSocket, Unlock, Goto, Typed, TypeOK, AtWork, locals, WithSlot, Running
<1>10. ASSUME NEW c \in Conns, Destroy(c) PROVE Typed'
  <2>1. idx[c] \in Slots
    BY <1>0, <1>10 DEF Destroy, Goto, AtWork, WithSlot, Running
  <2>2. slot' \in [Slots -> SlotType]
    BY <1>0, <1>10, <2>1, EntryLeft DEF Destroy, Becomes
  <2>3. ready' \subseteq Slots /\ locked' \subseteq Slots
    BY <1>0, <1>10 DEF Destroy, Unlock, mutexes, TypeOK
  <2>. QED
    BY <1>0, <1>10, <2>2, <2>3
       DEF Destroy, Goto, Typed, TypeOK, AtWork, SlotType, kernel, WithSlot, Running
<1>11. ASSUME NEW c \in Conns, Timeout(c) PROVE Typed'
  <2>1. tout[c] \in Timing /\ idx[c] \in Slots
    BY <1>0, <1>11
       DEF Timeout, TimeoutQuits, TimeoutFires, TimeoutEmptiesSlot, TimeoutSetsClosed, Timing, AtWork
  <2>2. slot' \in [Slots -> SlotType] /\ owner' \in [Fds -> Conns \cup {NoConn}] /\ locked' \subseteq Slots
    <3>1. CASE TimeoutQuits(c)
      BY <1>0, <3>1 DEF TimeoutQuits, TypeOK, table, mutexes, kernel
    <3>2. CASE TimeoutFires(c)
      BY <1>0, <3>2, CloseTyped DEF TimeoutFires, Lock, TypeOK
    <3>3. CASE TimeoutEmptiesSlot(c)
      BY <1>0, <2>1, <3>3, EntryEmptied DEF TimeoutEmptiesSlot, Becomes, TypeOK, mutexes, kernel
    <3>4. CASE TimeoutSetsClosed(c)
      BY <1>0, <2>1, <3>4, StateSet, NumbersTyped DEF TimeoutSetsClosed, Becomes, Unlock, TypeOK, kernel
    <3>. QED BY <1>11, <3>1, <3>2, <3>3, <3>4 DEF Timeout
  <2>3. /\ UNCHANGED <<ready, tenant, port_index, thread, caller, mixed>>
        /\ \E x \in {"quit", "fd_closed", "emptied", "fired"} : tout' = [tout EXCEPT ![c] = x]
    BY <1>11
       DEF Timeout, TimeoutQuits, TimeoutFires, TimeoutEmptiesSlot, TimeoutSetsClosed, table, mutexes, kernel
  <2>. QED BY <1>0, <2>1, <2>2, <2>3 DEF Typed, TypeOK, AtWork, SlotType, thread, locals, Timing
<1>12. ASSUME NEW c \in Conns,
              \/ Handshake(c) \/ HandshakeFails(c) \/ RecvClose(c) \/ RecvFails(c)
              \/ RecvOnClosed(c) \/ GetState(c) \/ AlreadyClosed(c) \/ Join(c)
       PROVE  Typed'
  BY <1>2, <1>12
     DEF Handshake, HandshakeFails, RecvClose, RecvFails, RecvOnClosed, GetState, AlreadyClosed, Join,
         WithSlot, Running
<1>. QED
  BY <1>1, <1>3, <1>4, <1>5, <1>6, <1>7, <1>8, <1>9, <1>10, <1>11, <1>12
     DEF Client, AcceptThread, ClientThread

\* A step of a caller keeps the types.
LEMMA CallerTyped ==
  ASSUME Typed, NEW k \in Callers, Call(k) \/ Caller(k)
  PROVE  Typed'
<1>. USE ValuesTyped, MaxClientsAssumption, MaxPortsAssumption
<1>0. slot \in [Slots -> SlotType] /\ TypeOK /\ AtWork
  BY DEF Typed, TypeOK, SlotType
<1>1. ASSUME NEW r \in CallerType, Sets(k, r), UNCHANGED <<table, kernel, thread, tout, mixed>>,
             r.sock # NoFd \/ r.at \in {"send_close", "start_timeout"} => r.i \in Slots
      PROVE  Typed'
  BY <1>0, <1>1 DEF Sets, Typed, TypeOK, AtWork, table, mutexes, kernel, thread, locals
<1>. DEFINE r == caller[k]
<1>r. r \in CallerType /\ (r.sock # NoFd \/ r.at \in {"send_close", "start_timeout"} => r.i \in Slots)
  BY <1>0 DEF TypeOK, AtWork
<1>2. ASSUME NEW f \in Known, CloseClient(k, f) PROVE Typed'
  <2>1. PICK j \in Slots : /\ slot[j].client_sock = f
                           /\ Sets(k, [Idle EXCEPT !.at = "send_close", !.fd = f, !.i = j, !.from = tenant[j]])
    BY <1>2 DEF CloseClient
  <2>2. f \in Fds \cup {NoFd} /\ j \in 0 .. MaxClients + 1 /\ tenant[j] \in Conns \cup {NoConn}
    BY <1>0, <2>1 DEF TypeOK, SlotType, Slots
  <2>3. [Idle EXCEPT !.at = "send_close", !.fd = f, !.i = j, !.from = tenant[j]] \in CallerType
    BY <2>2, CallTyped
  <2>. QED BY <1>1, <1>2, <2>1, <2>3 DEF CloseClient, CallerType
<1>3. CASE SendCloseFrame(k)
  <2>1. [r EXCEPT !.at = "start_timeout"] \in CallerType
    BY <1>r, CallTyped
  <2>. QED BY <1>1, <1>r, <1>3, <2>1 DEF SendCloseFrame, CallerType
<1>4. CASE StartCloseTimeout(k)
  <2>1. r.i \in Slots /\ tenant[r.i] \in Conns \cup {NoConn}
    BY <1>0, <1>r, <1>4 DEF StartCloseTimeout, TypeOK
  <2>2. slot' \in [Slots -> SlotType]
    <3>1. CASE slot[r.i].state = OPEN
      BY <1>0, <1>4, <2>1, <3>1, EntryTimed, NumbersTyped DEF StartCloseTimeout, Becomes
    <3>2. CASE slot[r.i].state # OPEN
      BY <1>0, <1>4, <3>2 DEF StartCloseTimeout
    <3>. QED BY <3>1, <3>2
  <2>3. /\ Sets(k, Idle)
        /\ tout' = tout \/ tout' = [tout EXCEPT ![tenant[r.i]] = "waiting"]
        /\ UNCHANGED <<mutexes, tenant, kernel, thread, mixed>>
    BY <1>4 DEF StartCloseTimeout
  <2>. HIDE DEF r
  <2>4. /\ tout' \in [Conns -> Timing \cup {"none", "fired", "quit"}]
        /\ \A c \in Conns : tout'[c] \in Timing => tout[c] \in Timing \/ c = tenant[r.i]
    BY <1>0, <2>1, <2>3 DEF TypeOK, Timing
  <2>5. caller' \in [Callers -> CallerType] /\ \A m \in Callers : caller'[m] \in {caller[m], Idle}
    BY <1>0, <2>3 DEF Sets, TypeOK
  <2>6. TypeOK'
    BY <1>0, <2>2, <2>3, <2>4, <2>5 DEF TypeOK, SlotType, mutexes, kernel, thread, locals
  <2>7. AtWork'
    BY <1>0, <2>1, <2>3, <2>4, <2>5 DEF AtWork, mutexes, kernel, thread, locals
  <2>. QED BY <2>6, <2>7 DEF Typed
<1>5. ASSUME NEW f \in Known, SendFrame(k, f) PROVE Typed'
  <2>1. f \in Fds /\ Peer(f) \in Conns
    BY <1>0, <1>5 DEF SendFrame, Peer, TypeOK
  <2>2. [Idle EXCEPT !.at = "sent", !.fd = f, !.from = Peer(f)] \in CallerType
    BY <2>1, CallTyped
  <2>. QED BY <1>1, <1>5, <2>2 DEF SendFrame, CallerType
<1>6. CASE LockTable(k)
  <2>1. /\ [r EXCEPT !.at = "broadcast", !.i = 1] \in CallerType
        /\ \A j \in Slots :
             [r EXCEPT !.at = "broadcast", !.i = 1, !.port = slot[j].port_index] \in CallerType
    <3>1. \A j \in Slots : slot[j].port_index \in Ports \cup {NoPort}
      BY <1>0 DEF SlotType
    <3>. QED BY <1>r, <3>1, CallTyped, NumbersTyped
  <2>2. PICK q : /\ Sets(k, q)
                 /\ \/ q = [r EXCEPT !.at = "broadcast", !.i = 1]
                    \/ \E j \in Slots :
                         q = [r EXCEPT !.at = "broadcast", !.i = 1, !.port = slot[j].port_index]
    BY <1>6 DEF LockTable
  <2>3. q \in CallerType /\ q.i = 1
    BY ZenonT(60), <1>r, <2>1, <2>2 DEF CallerType
  <2>. QED BY <1>1, <1>6, <2>2, <2>3, NumbersTyped DEF LockTable
<1>7. CASE NextClient(k)
  <2>1. r.i \in Slots /\ r.at = "broadcast" /\ r.sock = NoFd
    BY <1>7 DEF NextClient, Looping
  <2>2. /\ [r EXCEPT !.sock = slot[r.i].client_sock, !.to = tenant[r.i]] \in CallerType
        /\ [r EXCEPT !.i = r.i + 1] \in CallerType
    <3>1. /\ slot[r.i].client_sock \in Fds \cup {NoFd}
          /\ tenant[r.i] \in Conns \cup {NoConn}
          /\ r.i + 1 \in 0 .. MaxClients + 1
      BY <1>0, <2>1, NumbersTyped DEF SlotType, TypeOK
    <3>. QED BY <1>r, <3>1, CallTyped
  <2>. QED BY <1>1, <1>r, <1>7, <2>1, <2>2 DEF NextClient, CallerType
<1>8. CASE SendToClient(k)
  <2>1. r.sock # NoFd /\ r.i \in Slots
    BY <1>r, <1>8 DEF SendToClient
  <2>2. Peer(r.sock) # NoConn => Peer(r.sock) \in Conns
    BY <1>0 DEF Peer, TypeOK
  <2>3. Peer(r.sock) # NoConn =>
          [r EXCEPT !.i = @ + 1, !.sock = NoFd, !.to = NoConn,
                    !.reached = @ \cup {Peer(r.sock)}] \in CallerType
    <3>. SUFFICES ASSUME Peer(r.sock) # NoConn
                  PROVE  [r EXCEPT !.i = r.i + 1, !.sock = NoFd, !.to = NoConn,
                                   !.reached = r.reached \cup {Peer(r.sock)}] \in CallerType
      OBVIOUS
    <3>1. r.i + 1 \in 0 .. MaxClients + 1 /\ r.reached \cup {Peer(r.sock)} \in SUBSET Conns
      BY <1>r, <2>1, <2>2, NumbersTyped DEF CallerType
    <3>. HIDE DEF r
    <3>. QED BY <1>r, <3>1, CallTyped
  <2>. QED BY <1>1, <1>r, <1>8, <2>1, <2>3 DEF SendToClient, CallerType
<1>9. CASE EndBroadcast(k)
  BY <1>1, <1>9 DEF EndBroadcast
<1>. QED BY <1>2, <1>3, <1>4, <1>5, <1>6, <1>7, <1>8, <1>9 DEF Call, Caller

\* Only a connection that was accepted gets a descriptor.
LEMMA AcceptedKept == TypeInv /\ [Next]_vars => Accepted'
<1>. SUFFICES ASSUME TypeInv, [Next]_vars PROVE Accepted'
  OBVIOUS
<1>0. TypeOK /\ Accepted
  BY DEF TypeInv, Typed
<1>1. ASSUME UNCHANGED <<pc, owner>> PROVE Accepted'
  BY <1>0, <1>1 DEF Accepted
<1>2. ASSUME \A f \in Fds : owner'[f] = owner[f] \/ owner'[f] = NoConn,
             NEW c \in Conns, NEW to, to # "new", pc' = pc \/ pc' = [pc EXCEPT ![c] = to]
      PROVE  Accepted'
  BY <1>0, <1>2, NoConnAssumption DEF Accepted, TypeOK
<1>3. ASSUME NEW c \in Conns, NEW from, NEW to \in Running \cup {"done"}, Moves(c, from, to)
      PROVE  Accepted'
  BY <1>2, <1>3 DEF Moves, Goto, kernel, Running
<1>4. ASSUME NEW c \in Conns, NEW p \in Ports, Accept(c, p) PROVE Accepted'
  BY <1>0, <1>4 DEF Accept, Goto, Accepted, TypeOK
<1>5. ASSUME NEW c \in Conns,
             \/ AddToTable(c) \/ Refuse(c) \/ StartThread(c) \/ SetOpen(c) \/ SetClosing(c)
             \/ EmptySlot(c) \/ SetClosed(c) \/ CloseSocket(c) \/ Destroy(c) \/ Timeout(c)
      PROVE  Accepted'
  <2>1. \A f \in Fds : owner'[f] = owner[f] \/ owner'[f] = NoConn
    BY <1>5
       DEF AddToTable, Refuse, StartThread, SetOpen, SetClosing, EmptySlot, SetClosed, CloseSocket,
           Destroy, Timeout, TimeoutQuits, TimeoutFires, TimeoutEmptiesSlot, TimeoutSetsClosed,
           close_socket, kernel
  <2>2. \E to : to # "new" /\ (pc' = pc \/ pc' = [pc EXCEPT ![c] = to])
    BY <1>5
       DEF AddToTable, Refuse, StartThread, SetOpen, SetClosing, EmptySlot, SetClosed, CloseSocket,
           Destroy, Timeout, TimeoutQuits, TimeoutFires, TimeoutEmptiesSlot, TimeoutSetsClosed,
           Goto, thread
  <2>. QED BY <1>2, <2>1, <2>2
<1>6. ASSUME NEW c \in Conns,
              \/ Handshake(c) \/ HandshakeFails(c) \/ RecvClose(c) \/ RecvFails(c)
              \/ RecvOnClosed(c) \/ GetState(c) \/ AlreadyClosed(c) \/ Join(c)
       PROVE  Accepted'
  BY <1>3, <1>6
     DEF Handshake, HandshakeFails, RecvClose, RecvFails, RecvOnClosed, GetState,
         AlreadyClosed, Join, Running
<1>7. ASSUME NEW k \in Callers, Call(k) \/ Caller(k) PROVE Accepted'
  BY <1>1, <1>7
     DEF Call, Caller, CloseClient, SendFrame, SendCloseFrame, StartCloseTimeout, LockTable,
         NextClient, SendToClient, EndBroadcast, kernel, thread
<1>8. CASE Listen \/ UNCHANGED vars
  BY <1>1, <1>8 DEF Listen, vars, kernel, thread
<1>. QED
  BY <1>4, <1>5, <1>6, <1>7, <1>8 DEF Next, Client, AcceptThread, ClientThread

\* Types are kept by every step.
LEMMA NextTyped == TypeInv /\ [Next]_vars => TypeInv'
<1>1. CASE UNCHANGED vars
  BY <1>1, AcceptedKept DEF vars, table, mutexes, kernel, thread, locals, TypeInv, Typed, TypeOK, AtWork
<1>. QED BY <1>1, ServerTyped, CallerTyped, AcceptedKept DEF Next, TypeInv

\* Whoever calls what, and whenever time-outs fire, the table, the descriptors
\* and the variables of the threads of ws.c keep their types.
THEOREM TypeCorrect == Spec => []TypeOK
<1>1. TypeInv => TypeOK
  BY DEF TypeInv, Typed
<1>. QED BY <1>1, InitTyped, NextTyped, PTL DEF Spec

----------------------------------------------------------------------------
(* The invariant *)

\* Classes of steps of a client thread, as the proofs below need them.
LEMMA Steps ==
  /\ Active \subseteq WithSlot /\ Active \subseteq WithSock
  /\ Serving \subseteq Active /\ Ending \subseteq Active /\ Serving \cap Ending = {}
  /\ "accepted" \in WithSock /\ "accepted" \notin WithSlot
  /\ "start" \in Serving /\ "handshake" \in Serving /\ "closed" \in Serving
  /\ "destroy" \in WithSlot /\ "destroy" \notin WithSock
  /\ "join" \in WithSlot /\ "join" \notin WithSock
  /\ "new" \notin WithSlot \cup WithSock
  /\ "refused" \notin WithSlot \cup WithSock
  /\ "done" \notin WithSlot \cup WithSock
BY DEF Active, Serving, Ending, WithSlot, WithSock, Running

\* No server, no client and no call: the invariant holds.
LEMMA InitInv == Init => IInv
<1>. SUFFICES ASSUME Init PROVE IInv
  OBVIOUS
<1>1. TypeInv
  BY InitTyped
<1>2. /\ \A i \in Slots : slot[i] = Unused /\ tenant[i] = NoConn
      /\ \A f \in Fds : owner[f] = NoConn
      /\ \A c \in Conns : pc[c] = "new" /\ tout[c] = "none" /\ idx[c] = 0
      /\ \A k \in Callers : caller[k] = Idle
      /\ NoConn \notin Unmixed
  BY NoConnAssumption DEF Init, Unmixed
<1>3. /\ "new" \notin WithSlot \cup {"done"} /\ "new" \notin WithSock /\ Unused.client_sock = NoFd
      /\ "new" \notin Ending /\ "none" \notin Timing
      /\ Idle.at = "idle" /\ Idle.from = NoConn /\ Idle.to = NoConn /\ Idle.sock = NoFd
      /\ Idle.reached = {}
  BY DEF WithSlot, WithSock, Running, Ending, Timing, Unused, Idle
<1>4. SeatInv
  BY <1>2, <1>3 DEF SeatInv, Seated
<1>5. TenantInv
  BY <1>2, NoConnAssumption DEF TenantInv
<1>6. TableInv
  BY <1>2, <1>3 DEF TableInv, InTable
<1>7. CallerInv
  BY <1>2, <1>3, NoConnAssumption DEF CallerInv, Means
<1>8. SeatsApart
  BY <1>2, <1>3 DEF SeatsApart, Uses, Seated, Own, Unmixed
<1>9. FdsApart /\ ConnInv
  BY <1>2, <1>3 DEF FdsApart, ConnInv, FdMeant, Own, Seated, Unmixed
<1>10. MutexAlive
  BY <1>2, <1>3 DEF MutexAlive, Unmixed
<1>11. CallerFds /\ PortInv
  BY <1>2, <1>3 DEF CallerFds, FdsMeant, PortInv, PortsMeant
<1>12. BroadcastStaysOnPort /\ BroadcastReachesAll
  BY <1>2, <1>3 DEF BroadcastStaysOnPort, BroadcastReachesAll
<1>. QED BY <1>1, <1>4, <1>5, <1>6, <1>7, <1>8, <1>9, <1>10, <1>11, <1>12 DEF IInv

\* A slot that a connection in Unmixed has to itself is used by nobody else.
LEMMA SoleUser ==
  ASSUME IInv, NEW c \in Conns, NEW d \in Conns, Uses(c), idx[c] = idx[d],
         d \in Unmixed, Own(d)
  PROVE  c = d
BY DEF IInv, SeatsApart

\* Whoever uses a slot has one, and it is its own if nobody mixed it up.
LEMMA Mine ==
  ASSUME IInv, NEW c \in Conns, Uses(c)
  PROVE  /\ Seated(c) /\ idx[c] \in Slots
         /\ c \in Unmixed => Own(c) /\ FdMeant(c) /\ SlotMeant(c) /\ MutexMeant(c)
<1>1. Seated(c) /\ idx[c] \in Slots
  BY DEF IInv, Uses, Seated, SeatInv, CallerInv, Means, Timing
<1>. QED BY <1>1 DEF IInv, SeatsApart, Own, ConnInv

\* A step of the client thread or the time-out thread of c: it touches its own
\* slot only, empties it or leaves its descriptor there, and closes no
\* descriptor but its own or the one in the slot.
Acts(c) ==
  /\ Uses(c)
  /\ UNCHANGED <<ready, tenant, port_index, sock, port, idx, caller, mixed>>
  /\ \A d \in Conns \ {c} : pc'[d] = pc[d] /\ tout'[d] = tout[d] /\ clse_thrd'[d] = clse_thrd[d]
  /\ \/ pc'[c] = pc[c]
     \/ pc[c] \in WithSlot /\ pc'[c] \in WithSlot /\ (pc'[c] \in WithSock => pc[c] \in WithSock)
  /\ tout'[c] \in Timing => tout[c] \in Timing
  /\ tout'[c] # "none" => tout[c] # "none"
  /\ \A j \in Slots : /\ slot'[j].port_index = slot[j].port_index
                      /\ slot[j].state # -1 => slot'[j].state # -1
                      /\ slot'[j].client_sock \in {slot[j].client_sock, NoFd}
  /\ \A j \in Slots \ {idx[c]} : slot'[j] = slot[j] /\ (j \in locked => j \in locked')
  /\ \A f \in Fds : \/ owner'[f] = owner[f]
                    \/ owner'[f] = NoConn /\ (HasNumber(c, f) \/ slot[idx[c]].client_sock = f)

\* Such a step disturbs nobody but c.
LEMMA ActsInv ==
  ASSUME IInv, TypeInv', NEW c \in Conns, Acts(c),
         c \in Unmixed => FdMeant(c)' /\ SlotMeant(c)' /\ MutexMeant(c)'
  PROVE  IInv'
<1>. USE DEF IInv
<1>0. /\ UNCHANGED <<ready, tenant, port_index, sock, port, idx, caller, mixed>>
      /\ Uses(c) /\ idx[c] \in Slots
  BY Mine DEF Acts
<1>2. /\ \A d \in Conns : pc'[d] \in WithSlot <=> pc[d] \in WithSlot
      /\ \A d \in Conns : pc'[d] \in WithSock => pc[d] \in WithSock
      /\ \A d \in Conns : pc[d] # "new" => pc'[d] # "new"
      /\ \A d \in Conns : pc'[d] = "accepted" => pc[d] = "accepted"
      /\ \A d \in Conns : tout'[d] \in Timing => tout[d] \in Timing
      /\ \A d \in Conns : tout'[d] # "none" => tout[d] # "none"
      /\ \A d \in Conns : Seated(d)' <=> Seated(d)
      /\ \A d \in Conns : Own(d)' <=> Own(d)
      /\ \A d \in Conns : Uses(d)' => Uses(d)
      /\ Unmixed' = Unmixed /\ Unmixed \subseteq Conns
  <2>1. /\ \A d \in Conns : pc'[d] \in WithSlot <=> pc[d] \in WithSlot
        /\ \A d \in Conns : pc'[d] \in WithSock => pc[d] \in WithSock
        /\ \A d \in Conns : pc[d] # "new" => pc'[d] # "new"
        /\ \A d \in Conns : pc'[d] = "accepted" => pc[d] = "accepted"
        /\ \A d \in Conns : pc'[d] = "done" <=> pc[d] = "done"
    BY Steps DEF Acts
  <2>2. /\ \A d \in Conns : tout'[d] \in Timing => tout[d] \in Timing
        /\ \A d \in Conns : tout'[d] # "none" => tout[d] # "none"
    BY DEF Acts
  <2>. QED BY <1>0, <2>1, <2>2 DEF Seated, Own, Uses, Unmixed
<1>3. /\ \A j \in Slots : InTable(j)' => InTable(j) /\ slot'[j].client_sock = slot[j].client_sock
      /\ \A j \in Slots : slot'[j].port_index = slot[j].port_index
      /\ \A j \in Slots : slot[j].state # -1 => slot'[j].state # -1
      /\ \A f \in Fds : owner'[f] = owner[f] \/ owner'[f] = NoConn
      /\ \A d \in Conns, f \in Fds : HasNumber(d, f)' => HasNumber(d, f)
      /\ NoConn \notin Unmixed
  <2>1. \A f \in Fds : f # NoFd
    BY ValuesTyped
  <2>. QED BY <1>0, <1>2, <2>1, NoConnAssumption DEF Acts, InTable, HasNumber
<1>4. SeatInv'
  BY <1>0, <1>2 DEF SeatInv
<1>5. TenantInv' /\ TableInv'
  BY <1>0, <1>2, <1>3 DEF TenantInv, TableInv
<1>6. CallerInv'
  <2>1. \A k \in Callers : caller[k].sock # NoFd => caller[k].i \in Slots
    BY DEF TypeInv, Typed, AtWork
  <2>. QED BY <1>0, <1>2, <1>3, <2>1 DEF CallerInv, Means
<1>7. SeatsApart'
  BY <1>0, <1>2 DEF SeatsApart
<1>8. FdsApart'
  BY <1>2, <1>3 DEF FdsApart
\* What c closes belongs to c, if it belongs to a connection that is not mixed up.
<1>9. ASSUME NEW f \in Fds, owner[f] \in Unmixed, owner'[f] # owner[f] PROVE owner[f] = c
  <2>1. CASE HasNumber(c, f)
    BY <1>9, <2>1 DEF FdsApart
  <2>2. CASE slot[idx[c]].client_sock = f
    <3>. DEFINE d == tenant[idx[c]]
    <3>1. d \in Conns /\ HasNumber(d, f)
      BY <1>0, <2>2, ValuesTyped DEF TableInv, InTable, HasNumber
    <3>2. d = owner[f] /\ Own(d) /\ idx[d] = idx[c]
      BY <1>0, <1>9, <3>1 DEF FdsApart, TenantInv, Own
    <3>. QED BY <1>0, <1>2, <1>9, <3>1, <3>2, SoleUser
  <2>. QED BY <1>9, <2>1, <2>2 DEF Acts
<1>10. ASSUME NEW d \in Unmixed, d # c, Own(d)
       PROVE  idx[d] \in Slots \ {idx[c]}
  <2>1. idx[d] \in Slots
    BY <1>2, <1>10 DEF Own, SeatInv
  <2>. QED BY <1>0, <1>2, <1>10, <2>1, SoleUser
<1>11. ASSUME NEW d \in Unmixed, d # c PROVE FdMeant(d)'
  <2>1. FdMeant(d) /\ d \in Conns
    BY <1>2 DEF ConnInv
  <2>2. pc'[d] = pc[d] /\ tout'[d] = tout[d]
    BY <1>11, <2>1 DEF Acts
  <2>3. \A f \in Fds : owner'[f] = d <=> owner[f] = d
    BY <1>3, <1>9, <1>11
  <2>4. pc[d] \in Serving => slot'[idx[d]] = slot[idx[d]]
    <3>. SUFFICES ASSUME pc[d] \in Serving PROVE slot'[idx[d]] = slot[idx[d]]
      OBVIOUS
    <3>1. Own(d)
      BY <2>1, Steps, Mine DEF Uses
    <3>. QED BY <1>10, <1>11, <3>1 DEF Acts
  <2>. QED BY <1>0, <2>1, <2>2, <2>3, <2>4 DEF FdMeant
<1>12. ASSUME NEW d \in Unmixed, d # c, Own(d) PROVE SlotMeant(d)' /\ MutexMeant(d)'
  <2>1. SlotMeant(d) /\ MutexMeant(d) /\ d \in Conns
    BY <1>2, <1>12 DEF ConnInv
  <2>2. /\ pc'[d] = pc[d] /\ tout'[d] = tout[d] /\ clse_thrd'[d] = clse_thrd[d]
        /\ slot'[idx[d]] = slot[idx[d]] /\ (idx[d] \in locked => idx[d] \in locked')
        /\ idx[d] \in Slots
    BY <1>10, <1>12, <2>1 DEF Acts
  <2>3. InTable(idx[d]) => slot[idx[d]].client_sock \in Fds
    BY <2>2 DEF InTable, TypeInv, Typed, TypeOK
  <2>4. \A f \in Fds : owner[f] \in {d, NoConn} => owner'[f] = owner[f]
    BY <1>3, <1>9, <1>12
  <2>5. SlotMeant(d)'
    BY <1>0, <2>1, <2>2, <2>3, <2>4 DEF SlotMeant, InTable
  <2>6. MutexMeant(d)'
    BY <1>0, <2>1, <2>2 DEF MutexMeant
  <2>. QED BY <2>5, <2>6
<1>13. ConnInv'
  BY <1>2, <1>11, <1>12 DEF ConnInv
<1>14. MutexAlive'
  BY <1>0, <1>2 DEF MutexAlive
<1>15. CallerFds' /\ PortInv'
  <2>1. \A k \in Callers : caller[k].at \in {"sent", "broadcast"} => caller[k].fd \in Fds
    BY DEF CallerInv, Means
  <2>2. CallerFds'
    BY <1>0, <1>2, <1>3, <2>1, NoConnAssumption DEF CallerFds, FdsMeant
  <2>3. PortInv'
    BY <1>0, <1>2, <1>3 DEF PortInv, PortsMeant
  <2>. QED BY <2>2, <2>3
<1>16. BroadcastStaysOnPort' /\ BroadcastReachesAll'
  BY <1>0, <1>2, <1>3 DEF BroadcastStaysOnPort, BroadcastReachesAll
<1>. QED BY <1>4, <1>5, <1>6, <1>7, <1>8, <1>13, <1>14, <1>15, <1>16

\* The thread of c goes from one step to another; nothing else changes.
LEMMA MovesActs ==
  ASSUME IInv, NEW c \in Conns, NEW from \in WithSlot, NEW to \in WithSlot,
         to \in WithSock => from \in WithSock, Moves(c, from, to)
  PROVE  /\ Acts(c)
         /\ pc[c] = from /\ pc'[c] = to
         /\ UNCHANGED <<slot, locked, owner, sock, idx, clse_thrd, tout>>
<1>1. /\ pc[c] = from /\ pc' = [pc EXCEPT ![c] = to]
      /\ UNCHANGED <<slot, ready, locked, tenant, owner, port_index, sock, port, idx, clse_thrd, tout,
                     caller, mixed>>
  BY DEF Moves, Goto, table, mutexes, kernel, locals
<1>2. pc'[c] = to /\ \A d \in Conns \ {c} : pc'[d] = pc[d]
  BY <1>1 DEF IInv, TypeInv, Typed, TypeOK
<1>. QED BY <1>1, <1>2 DEF Acts, Uses

\* The client thread goes on serving the connection.
LEMMA MovesInv ==
  ASSUME IInv, TypeInv', NEW c \in Conns, NEW from \in Serving, NEW to \in Serving, Moves(c, from, to),
         to \in {"start", "handshake", "set_open"} => from \in {"start", "handshake", "set_open"}
  PROVE  IInv'
<1>1. /\ Acts(c)
      /\ pc[c] = from /\ pc'[c] = to
      /\ UNCHANGED <<slot, locked, owner, sock, idx, clse_thrd, tout>>
  BY MovesActs, Steps
<1>2. ASSUME c \in Unmixed PROVE FdMeant(c)' /\ SlotMeant(c)' /\ MutexMeant(c)'
  <2>1. FdMeant(c) /\ SlotMeant(c) /\ MutexMeant(c)
    BY <1>1, <1>2, Mine DEF Acts
  <2>2. /\ from \notin Ending /\ to \notin Ending /\ to # "accepted" /\ from # "accepted"
        /\ to \notin {"set_closed", "join", "destroy", "done"}
    BY Steps DEF Ending
  <2>3. FdMeant(c)'
    BY <1>1, <2>1, <2>2 DEF FdMeant
  <2>4. SlotMeant(c)'
    BY <1>1, <2>1, <2>2 DEF SlotMeant, InTable
  <2>5. MutexMeant(c)'
    BY <1>1, <2>1, <2>2 DEF MutexMeant
  <2>. QED BY <2>3, <2>4, <2>5
<1>. QED BY <1>1, <1>2, ActsInv

\* The connection has been closed by the time-out thread, which is joined if it
\* has not ended.
LEMMA AlreadyClosedInv ==
  ASSUME IInv, TypeInv', NEW c \in Conns, AlreadyClosed(c)
  PROVE  IInv'
<1>. DEFINE to == IF MySlot(c).close_thrd THEN "join" ELSE "destroy"
<1>0. to \in WithSlot /\ to \notin WithSock /\ "closed" \in Serving /\ "closed" \in WithSlot
  BY Steps
<1>1. /\ Acts(c)
      /\ pc[c] = "closed" /\ pc'[c] = to
      /\ UNCHANGED <<slot, locked, owner, sock, idx, clse_thrd, tout>>
  BY <1>0, MovesActs DEF AlreadyClosed
<1>2. ASSUME c \in Unmixed PROVE FdMeant(c)' /\ SlotMeant(c)' /\ MutexMeant(c)'
  <2>1. FdMeant(c) /\ SlotMeant(c) /\ MutexMeant(c) /\ idx[c] \in Slots
    BY <1>1, <1>2, Mine DEF Acts
  <2>2. /\ slot[idx[c]].state = CLOSED /\ idx[c] \notin locked
        /\ to \in {"join", "destroy"}
        /\ to = "destroy" => ~ slot[idx[c]].close_thrd
    BY DEF AlreadyClosed, MySlot, Unlocked
  <2>3. to \notin Ending /\ to \notin Serving /\ pc[c] \notin Ending /\ pc[c] # "accepted"
    BY <1>0, <1>1, Steps
  <2>. HIDE DEF to
  <2>4. ~ InTable(idx[c])
    BY <2>1, <2>2 DEF SlotMeant
  <2>5. \A f \in Fds : owner[f] # c
    BY <2>1, <2>3, <2>4, ValuesTyped DEF FdMeant, InTable
  <2>6. FdMeant(c)'
    BY <1>1, <2>2, <2>3, <2>5 DEF FdMeant
  <2>7. SlotMeant(c)'
    BY <1>1, <2>1, <2>2, <2>3, <2>4 DEF SlotMeant, InTable
  <2>8. MutexMeant(c)'
    BY <1>1, <2>1, <2>2, <2>3 DEF MutexMeant
  <2>. QED BY <2>6, <2>7, <2>8
<1>. QED BY <1>1, <1>2, ActsInv

\* pthread_join returns.
LEMMA JoinInv ==
  ASSUME IInv, TypeInv', NEW c \in Conns, Join(c)
  PROVE  IInv'
<1>1. /\ Acts(c)
      /\ pc[c] = "join" /\ pc'[c] = "destroy"
      /\ UNCHANGED <<slot, locked, owner, sock, idx, clse_thrd, tout>>
  BY MovesActs, Steps DEF Join
<1>2. ASSUME c \in Unmixed PROVE FdMeant(c)' /\ SlotMeant(c)' /\ MutexMeant(c)'
  <2>1. FdMeant(c) /\ SlotMeant(c) /\ MutexMeant(c) /\ idx[c] \in Slots
    BY <1>1, <1>2, Mine DEF Acts
  <2>2. \/ slot[idx[c]].thrd_tout = NoConn
        \/ tout[slot[idx[c]].thrd_tout] \notin Timing
    BY DEF Join, MySlot
  <2>3. tout[c] \notin Timing
    BY <2>1, <2>2, NoConnAssumption DEF SlotMeant
  <2>4. {"join", "destroy"} \cap (Ending \cup Serving) = {}
    BY Steps
  <2>5. FdMeant(c)'
    BY <1>1, <2>1, <2>4 DEF FdMeant
  <2>6. SlotMeant(c)'
    BY <1>1, <2>1, <2>3, <2>4 DEF SlotMeant, InTable
  <2>7. MutexMeant(c)'
    BY <1>1, <2>1, <2>4 DEF MutexMeant, Timing
  <2>. QED BY <2>5, <2>6, <2>7
<1>. QED BY <1>1, <1>2, ActsInv

\* A thread that has a slot changes nothing but its state.
LEMMA StateActs ==
  ASSUME IInv, NEW c \in Conns, Uses(c), NEW x \in {OPEN, CLOSING, CLOSED}, set_client_state(idx[c], x)
  PROVE  /\ slot'[idx[c]].state = x
         /\ slot'[idx[c]].client_sock = slot[idx[c]].client_sock
         /\ slot'[idx[c]].close_thrd = slot[idx[c]].close_thrd
         /\ slot'[idx[c]].thrd_tout = slot[idx[c]].thrd_tout
         /\ \A j \in Slots : /\ slot'[j].port_index = slot[j].port_index
                             /\ slot[j].state # -1 => slot'[j].state # -1
                             /\ slot'[j].client_sock = slot[j].client_sock
         /\ \A j \in Slots \ {idx[c]} : slot'[j] = slot[j]
<1>1. idx[c] \in Slots /\ x \in -1 .. 3 /\ x # -1
  BY Mine, NumbersTyped DEF OPEN, CLOSING, CLOSED
<1>2. slot \in [Slots -> SlotType]
  BY DEF IInv, TypeInv, Typed, TypeOK, SlotType
<1>3. Becomes(idx[c], slot[idx[c]].client_sock, slot[idx[c]].port_index, x, slot[idx[c]].close_thrd,
              slot[idx[c]].thrd_tout)
  BY <1>1, <1>2, StateSet
<1>. QED BY <1>1, <1>3 DEF Becomes

\* SetOpen, SetClosing and SetClosed: the state of the slot is set by its client
\* thread.
LEMMA StateInv ==
  ASSUME IInv, TypeInv', NEW c \in Conns, NEW from, NEW to, NEW x,
         \/ from = "set_open" /\ to = "read" /\ x = OPEN
         \/ from = "set_closing" /\ to = "closed" /\ x = CLOSING
         \/ from = "emptied" /\ to = "set_closed" /\ x = CLOSED,
         Goto(c, from, to), set_client_state(idx[c], x),
         UNCHANGED <<mutexes, tenant, kernel, locals, tout, caller, mixed>>
  PROVE  IInv'
<1>1. /\ pc[c] = from /\ pc' = [pc EXCEPT ![c] = to]
      /\ UNCHANGED <<ready, locked, tenant, owner, port_index, sock, port, idx, clse_thrd, tout, caller,
                     mixed>>
  BY DEF Goto, mutexes, kernel, locals
<1>0. /\ from \in WithSlot /\ to \in WithSlot /\ from \in WithSock
      /\ x \in {OPEN, CLOSING, CLOSED}
      /\ OPEN # CLOSED /\ CLOSING # CLOSED /\ CLOSING # OPEN /\ CONNECTING # OPEN
      /\ CONNECTING # CLOSING /\ CONNECTING # CLOSED
      /\ from # "accepted" /\ to # "accepted"
      /\ from \in Ending <=> x = CLOSED
      /\ to \in Ending <=> x = CLOSED
      /\ from \in Serving <=> x # CLOSED
      /\ to \in Serving <=> x # CLOSED
  BY DEF WithSlot, WithSock, Serving, Active, Ending, Running, CONNECTING, OPEN, CLOSING, CLOSED
<1>2. pc'[c] = to /\ \A d \in Conns \ {c} : pc'[d] = pc[d]
  BY <1>1 DEF IInv, TypeInv, Typed, TypeOK
<1>3. Uses(c)
  BY <1>0, <1>1 DEF Uses
<1>4. /\ slot'[idx[c]].state = x
      /\ slot'[idx[c]].client_sock = slot[idx[c]].client_sock
      /\ slot'[idx[c]].close_thrd = slot[idx[c]].close_thrd
      /\ slot'[idx[c]].thrd_tout = slot[idx[c]].thrd_tout
      /\ \A j \in Slots : /\ slot'[j].port_index = slot[j].port_index
                          /\ slot[j].state # -1 => slot'[j].state # -1
                          /\ slot'[j].client_sock = slot[j].client_sock
      /\ \A j \in Slots \ {idx[c]} : slot'[j] = slot[j]
  BY <1>0, <1>3, StateActs
<1>5. Acts(c)
  BY <1>0, <1>1, <1>2, <1>3, <1>4 DEF Acts
<1>6. ASSUME c \in Unmixed PROVE FdMeant(c)' /\ SlotMeant(c)' /\ MutexMeant(c)'
  <2>1. FdMeant(c) /\ SlotMeant(c) /\ MutexMeant(c) /\ idx[c] \in Slots
    BY <1>3, <1>6, Mine
  <2>2. FdMeant(c)'
    BY <1>0, <1>1, <1>2, <1>4, <2>1 DEF FdMeant
  <2>3. SlotMeant(c)'
    <3>1. x = OPEN => tout[c] = "none"
      BY <1>0, <1>1, <2>1 DEF SlotMeant
    <3>2. InTable(idx[c]) => x # CLOSED
      BY <1>0, <1>1, <2>1 DEF SlotMeant
    <3>3. /\ to \in {"set_closed", "join", "destroy", "done"} => x = CLOSED
          /\ to \notin {"start", "handshake", "set_open", "destroy", "done"}
          /\ x # CONNECTING
      BY <1>0 DEF Ending
    <3>. QED BY <1>0, <1>1, <1>2, <1>4, <2>1, <3>1, <3>2, <3>3 DEF SlotMeant, InTable
  <2>4. MutexMeant(c)'
    BY <1>0, <1>1, <1>2, <1>4, <2>1 DEF MutexMeant
  <2>. QED BY <2>2, <2>3, <2>4
<1>. QED BY <1>5, <1>6, ActsInv

\* The slot of a thread is emptied.
LEMMA EmptyActs ==
  ASSUME IInv, NEW c \in Conns, Uses(c), slot' = [slot EXCEPT ![idx[c]].client_sock = NoFd]
  PROVE  /\ slot'[idx[c]].client_sock = NoFd
         /\ slot'[idx[c]].state = slot[idx[c]].state
         /\ slot'[idx[c]].close_thrd = slot[idx[c]].close_thrd
         /\ slot'[idx[c]].thrd_tout = slot[idx[c]].thrd_tout
         /\ \A j \in Slots : /\ slot'[j].port_index = slot[j].port_index
                             /\ slot[j].state # -1 => slot'[j].state # -1
                             /\ slot'[j].client_sock \in {slot[j].client_sock, NoFd}
         /\ \A j \in Slots \ {idx[c]} : slot'[j] = slot[j]
<1>1. idx[c] \in Slots
  BY Mine
<1>2. slot \in [Slots -> SlotType]
  BY DEF IInv, TypeInv, Typed, TypeOK, SlotType
<1>3. Becomes(idx[c], NoFd, slot[idx[c]].port_index, slot[idx[c]].state, slot[idx[c]].close_thrd,
              slot[idx[c]].thrd_tout)
  BY <1>1, <1>2, EntryEmptied
<1>. QED BY <1>1, <1>3 DEF Becomes

\* The client thread locks the mutex of its slot, if it has it, and empties it.
LEMMA EmptySlotInv ==
  ASSUME IInv, TypeInv', NEW c \in Conns, EmptySlot(c)
  PROVE  IInv'
<1>1. /\ pc[c] = "closed" /\ pc' = [pc EXCEPT ![c] = "emptied"]
      /\ clse_thrd' = [clse_thrd EXCEPT ![c] = slot[idx[c]].close_thrd]
      /\ slot' = [slot EXCEPT ![idx[c]].client_sock = NoFd]
      /\ idx[c] \notin locked /\ locked' = locked \cup ({idx[c]} \cap ready)
      /\ slot[idx[c]].state # CLOSED
      /\ UNCHANGED <<ready, tenant, owner, port_index, sock, port, idx, tout, caller, mixed>>
  BY DEF EmptySlot, Goto, Lock, Unlocked, MySlot, kernel
<1>0. /\ {"closed", "emptied"} \subseteq WithSlot /\ "closed" \in WithSock
      /\ "closed" \in Serving /\ "closed" \notin Ending
      /\ "emptied" \in Ending /\ "emptied" \notin Serving
  BY DEF WithSlot, WithSock, Running, Serving, Active, Ending
<1>2. /\ pc'[c] = "emptied" /\ clse_thrd'[c] = slot[idx[c]].close_thrd
      /\ \A d \in Conns \ {c} : pc'[d] = pc[d] /\ clse_thrd'[d] = clse_thrd[d]
  BY <1>1 DEF IInv, TypeInv, Typed, TypeOK
<1>3. Uses(c)
  BY <1>0, <1>1 DEF Uses
<1>4. /\ slot'[idx[c]].client_sock = NoFd
      /\ slot'[idx[c]].state = slot[idx[c]].state
      /\ slot'[idx[c]].close_thrd = slot[idx[c]].close_thrd
      /\ slot'[idx[c]].thrd_tout = slot[idx[c]].thrd_tout
      /\ \A j \in Slots : /\ slot'[j].port_index = slot[j].port_index
                          /\ slot[j].state # -1 => slot'[j].state # -1
                          /\ slot'[j].client_sock \in {slot[j].client_sock, NoFd}
      /\ \A j \in Slots \ {idx[c]} : slot'[j] = slot[j]
  BY <1>1, <1>3, EmptyActs
<1>5. Acts(c)
  BY <1>0, <1>1, <1>2, <1>3, <1>4 DEF Acts
<1>6. ASSUME c \in Unmixed PROVE FdMeant(c)' /\ SlotMeant(c)' /\ MutexMeant(c)'
  <2>1. FdMeant(c) /\ SlotMeant(c) /\ MutexMeant(c) /\ idx[c] \in Slots /\ idx[c] \in ready /\ c \in Conns
    BY <1>0, <1>1, <1>3, <1>6, Mine DEF IInv, MutexAlive
  <2>2. tout[c] \notin {"fd_closed", "emptied"}
    BY <1>1, <2>1 DEF MutexMeant
  <2>3. tout[c] = "fired" => \A f \in Fds : owner[f] # c
    BY <1>0, <1>1, <2>1, ValuesTyped DEF SlotMeant, FdMeant, InTable
  <2>4. tout[c] # "fired" => sock[c] \in Fds /\ owner[sock[c]] = c
    <3>. SUFFICES ASSUME tout[c] # "fired" PROVE sock[c] \in Fds /\ owner[sock[c]] = c
      OBVIOUS
    <3>1. InTable(idx[c]) /\ owner[slot[idx[c]].client_sock] = c
      BY <1>0, <1>1, <2>1, <2>2 DEF SlotMeant
    <3>2. slot[idx[c]].client_sock \in Fds
      BY <2>1, <3>1 DEF InTable, IInv, TypeInv, Typed, TypeOK
    <3>. QED BY <2>1, <3>1, <3>2 DEF FdMeant
  <2>5. FdMeant(c)'
    BY <1>0, <1>1, <1>2, <2>1, <2>3, <2>4 DEF FdMeant
  <2>6. SlotMeant(c)'
    BY <1>0, <1>1, <1>2, <1>4, <2>1 DEF SlotMeant, InTable
  <2>7. MutexMeant(c)'
    <3>1. tout[c] \in Timing => slot[idx[c]].close_thrd
      BY <2>1 DEF SlotMeant
    <3>. QED BY <1>0, <1>1, <1>2, <2>1, <2>2, <3>1 DEF MutexMeant
  <2>. QED BY <2>5, <2>6, <2>7
<1>. QED BY <1>5, <1>6, ActsInv

\* The client thread closes the descriptor and unlocks the mutex.
LEMMA CloseSocketInv ==
  ASSUME IInv, TypeInv', NEW c \in Conns, CloseSocket(c)
  PROVE  IInv'
<1>. DEFINE to == IF clse_thrd[c] THEN "join" ELSE "destroy"
<1>1. /\ pc[c] = "set_closed" /\ pc' = [pc EXCEPT ![c] = to]
      /\ owner' = [g \in Fds |-> IF g = sock[c] THEN NoConn ELSE owner[g]]
      /\ locked' = locked \ {idx[c]}
      /\ UNCHANGED <<slot, ready, tenant, port_index, sock, port, idx, clse_thrd, tout, caller, mixed>>
  BY DEF CloseSocket, Goto, Unlock, close_socket, locals
<1>0. /\ "set_closed" \in WithSlot /\ "set_closed" \in WithSock
      /\ to \in WithSlot /\ to \notin WithSock /\ to # "accepted"
      /\ "set_closed" \in Ending /\ "set_closed" \notin Serving
      /\ to \notin Ending /\ to \notin Serving
      /\ to \in {"join", "destroy"} /\ (to = "destroy" => ~ clse_thrd[c])
  BY DEF WithSlot, WithSock, Running, Serving, Active, Ending
<1>. HIDE DEF to
<1>2. pc'[c] = to /\ \A d \in Conns \ {c} : pc'[d] = pc[d]
  BY <1>1 DEF IInv, TypeInv, Typed, TypeOK
<1>3. Uses(c)
  BY <1>0, <1>1 DEF Uses
<1>4. \A f \in Fds : \/ owner'[f] = owner[f]
                     \/ owner'[f] = NoConn /\ HasNumber(c, f)
  BY <1>0, <1>1 DEF HasNumber
<1>5. Acts(c)
  BY <1>0, <1>1, <1>2, <1>3, <1>4 DEF Acts
<1>6. ASSUME c \in Unmixed PROVE FdMeant(c)' /\ SlotMeant(c)' /\ MutexMeant(c)'
  <2>1. FdMeant(c) /\ SlotMeant(c) /\ MutexMeant(c) /\ c # NoConn
    BY <1>3, <1>6, Mine, NoConnAssumption
  <2>2. \A f \in Fds : owner'[f] # c
    BY <1>1, <2>1 DEF FdMeant
  <2>3. FdMeant(c)'
    BY <1>0, <1>2, <2>2 DEF FdMeant
  <2>4. SlotMeant(c)'
    <3>1. /\ ~ InTable(idx[c]) /\ slot[idx[c]].state = CLOSED
          /\ tout[c] \in Timing => clse_thrd[c]
      BY <1>0, <1>1, <2>1 DEF SlotMeant, MutexMeant
    <3>. QED BY <1>0, <1>1, <1>2, <2>1, <3>1 DEF SlotMeant, InTable
  <2>5. MutexMeant(c)'
    BY <1>0, <1>1, <1>2, <2>1 DEF MutexMeant
  <2>. QED BY <2>3, <2>4, <2>5
<1>. QED BY <1>5, <1>6, ActsInv

\* A step of the time-out thread of c leaves the client threads alone.
LEMMA TimeoutActs ==
  ASSUME IInv, NEW c \in Conns, tout[c] \in Timing, NEW x \in Timing \cup {"quit", "fired"},
         tout' = [tout EXCEPT ![c] = x]
  PROVE  /\ Uses(c) /\ tout'[c] = x /\ x # "none"
         /\ \A d \in Conns \ {c} : tout'[d] = tout[d]
BY DEF Uses, IInv, TypeInv, Typed, TypeOK, Timing

\* close_timeout finds the connection closed.
LEMMA TimeoutQuitsInv ==
  ASSUME IInv, TypeInv', NEW c \in Conns, TimeoutQuits(c)
  PROVE  IInv'
<1>1. /\ tout[c] = "waiting" /\ tout' = [tout EXCEPT ![c] = "quit"]
      /\ UNCHANGED <<slot, ready, locked, tenant, owner, port_index, pc, sock, port, idx, clse_thrd, caller,
                     mixed>>
  BY DEF TimeoutQuits, table, mutexes, kernel, thread, locals
<1>0. "waiting" \in Timing /\ "quit" \notin Timing
  BY DEF Timing
<1>2. Uses(c) /\ tout'[c] = "quit" /\ \A d \in Conns \ {c} : tout'[d] = tout[d]
  BY <1>0, <1>1, TimeoutActs
<1>3. Acts(c)
  BY <1>0, <1>1, <1>2 DEF Acts
<1>4. ASSUME c \in Unmixed PROVE FdMeant(c)' /\ SlotMeant(c)' /\ MutexMeant(c)'
  <2>1. FdMeant(c) /\ SlotMeant(c) /\ MutexMeant(c)
    BY <1>2, <1>4, Mine
  <2>2. FdMeant(c)'
    BY <1>1, <1>2, <2>1 DEF FdMeant
  <2>3. SlotMeant(c)'
    BY <1>0, <1>1, <1>2, <2>1 DEF SlotMeant, InTable
  <2>4. MutexMeant(c)'
    BY <1>0, <1>1, <1>2, <2>1 DEF MutexMeant
  <2>. QED BY <2>2, <2>3, <2>4
<1>. QED BY <1>3, <1>4, ActsInv

\* close_timeout locks the mutex and closes the descriptor in the slot: its own,
\* if nobody mixed it up.
LEMMA TimeoutFiresInv ==
  ASSUME IInv, TypeInv', NEW c \in Conns, TimeoutFires(c)
  PROVE  IInv'
<1>1. /\ tout[c] = "waiting" /\ tout' = [tout EXCEPT ![c] = "fd_closed"]
      /\ idx[c] \notin locked /\ locked' = locked \cup ({idx[c]} \cap ready)
      /\ slot[idx[c]].state # CLOSED
      /\ owner' = [g \in Fds |-> IF g = slot[idx[c]].client_sock THEN NoConn ELSE owner[g]]
      /\ UNCHANGED <<slot, ready, tenant, port_index, pc, sock, port, idx, clse_thrd, caller, mixed>>
  BY DEF TimeoutFires, Lock, Unlocked, MySlot, close_socket, thread, locals
<1>0. "waiting" \in Timing /\ "fd_closed" \in Timing
  BY DEF Timing
<1>2. Uses(c) /\ tout'[c] = "fd_closed" /\ \A d \in Conns \ {c} : tout'[d] = tout[d]
  BY <1>0, <1>1, TimeoutActs
<1>3. Acts(c)
  BY <1>0, <1>1, <1>2 DEF Acts
<1>4. ASSUME c \in Unmixed PROVE FdMeant(c)' /\ SlotMeant(c)' /\ MutexMeant(c)'
  <2>1. /\ FdMeant(c) /\ SlotMeant(c) /\ MutexMeant(c) /\ Own(c) /\ c # NoConn /\ idx[c] \in Slots
        /\ idx[c] \in ready
    BY <1>0, <1>1, <1>2, <1>4, Mine, NoConnAssumption DEF IInv, MutexAlive
  <2>2. pc[c] \notin Ending /\ pc[c] \notin {"set_closed", "join", "destroy", "done"}
    BY <1>1, <2>1 DEF SlotMeant, MutexMeant
  <2>3. pc[c] \in Serving
    <3>1. pc[c] \in WithSlot
      BY <2>1, <2>2 DEF Own, Seated
    <3>. QED BY <2>2, <3>1 DEF Serving, Active, WithSlot, WithSock, Running
  <2>4. InTable(idx[c])
    BY <1>1, <2>1, <2>3 DEF SlotMeant
  <2>5. slot[idx[c]].client_sock \in Fds
    BY <2>1, <2>4 DEF InTable, IInv, TypeInv, Typed, TypeOK
  <2>6. pc[c] # "accepted"
    BY <2>3, Steps
  <2>7. FdMeant(c)'
    BY <1>1, <1>2, <2>1, <2>2, <2>3, <2>6 DEF FdMeant
  <2>8. SlotMeant(c)'
    BY <1>0, <1>1, <1>2, <2>1, <2>2, <2>3, <2>4, <2>5 DEF SlotMeant, InTable
  <2>9. MutexMeant(c)'
    BY <1>0, <1>1, <1>2, <2>1, <2>3 DEF MutexMeant
  <2>. QED BY <2>7, <2>8, <2>9
<1>. QED BY <1>3, <1>4, ActsInv

\* close_timeout empties the slot
LEMMA TimeoutEmptiesSlotInv ==
  ASSUME IInv, TypeInv', NEW c \in Conns, TimeoutEmptiesSlot(c)
  PROVE  IInv'
<1>1. /\ tout[c] = "fd_closed" /\ tout' = [tout EXCEPT ![c] = "emptied"]
      /\ slot' = [slot EXCEPT ![idx[c]].client_sock = NoFd]
      /\ UNCHANGED <<ready, locked, tenant, owner, port_index, pc, sock, port, idx, clse_thrd, caller, mixed>>
  BY DEF TimeoutEmptiesSlot, mutexes, kernel, thread, locals
<1>0. "fd_closed" \in Timing /\ "emptied" \in Timing
  BY DEF Timing
<1>2. Uses(c) /\ tout'[c] = "emptied" /\ \A d \in Conns \ {c} : tout'[d] = tout[d]
  BY <1>0, <1>1, TimeoutActs
<1>3. /\ slot'[idx[c]].client_sock = NoFd
      /\ slot'[idx[c]].state = slot[idx[c]].state
      /\ slot'[idx[c]].close_thrd = slot[idx[c]].close_thrd
      /\ slot'[idx[c]].thrd_tout = slot[idx[c]].thrd_tout
      /\ \A j \in Slots : /\ slot'[j].port_index = slot[j].port_index
                          /\ slot[j].state # -1 => slot'[j].state # -1
                          /\ slot'[j].client_sock \in {slot[j].client_sock, NoFd}
      /\ \A j \in Slots \ {idx[c]} : slot'[j] = slot[j]
  BY <1>1, <1>2, EmptyActs
<1>4. Acts(c)
  BY <1>0, <1>1, <1>2, <1>3 DEF Acts
<1>5. ASSUME c \in Unmixed PROVE FdMeant(c)' /\ SlotMeant(c)' /\ MutexMeant(c)'
  <2>1. FdMeant(c) /\ SlotMeant(c) /\ MutexMeant(c) /\ c # NoConn
    BY <1>2, <1>5, Mine, NoConnAssumption
  <2>2. pc[c] \in Serving /\ pc[c] \notin Ending /\ pc[c] # "accepted" /\ idx[c] \in locked
    BY <1>1, <2>1, Steps DEF MutexMeant
  <2>3. \A f \in Fds : owner[f] # c
    BY <1>1, <2>1, <2>2, ValuesTyped DEF FdMeant, SlotMeant, InTable
  <2>4. FdMeant(c)'
    BY <1>1, <2>2, <2>3 DEF FdMeant
  <2>5. SlotMeant(c)'
    BY <1>0, <1>1, <1>2, <1>3, <2>1 DEF SlotMeant, InTable
  <2>6. MutexMeant(c)'
    BY <1>0, <1>1, <1>2, <2>1, <2>2 DEF MutexMeant
  <2>. QED BY <2>4, <2>5, <2>6
<1>. QED BY <1>4, <1>5, ActsInv

\* and sets the state.
LEMMA TimeoutSetsClosedInv ==
  ASSUME IInv, TypeInv', NEW c \in Conns, TimeoutSetsClosed(c)
  PROVE  IInv'
<1>1. /\ tout[c] = "emptied" /\ tout' = [tout EXCEPT ![c] = "fired"]
      /\ set_client_state(idx[c], CLOSED)
      /\ locked' = locked \ {idx[c]}
      /\ UNCHANGED <<ready, tenant, owner, port_index, pc, sock, port, idx, clse_thrd, caller, mixed>>
  BY DEF TimeoutSetsClosed, Unlock, kernel, thread, locals
<1>0. "emptied" \in Timing /\ "fired" \notin Timing
  BY DEF Timing
<1>2. Uses(c) /\ tout'[c] = "fired" /\ \A d \in Conns \ {c} : tout'[d] = tout[d]
  BY <1>0, <1>1, TimeoutActs
<1>3. /\ slot'[idx[c]].state = CLOSED
      /\ slot'[idx[c]].client_sock = slot[idx[c]].client_sock
      /\ slot'[idx[c]].close_thrd = slot[idx[c]].close_thrd
      /\ slot'[idx[c]].thrd_tout = slot[idx[c]].thrd_tout
      /\ \A j \in Slots : /\ slot'[j].port_index = slot[j].port_index
                          /\ slot[j].state # -1 => slot'[j].state # -1
                          /\ slot'[j].client_sock = slot[j].client_sock
      /\ \A j \in Slots \ {idx[c]} : slot'[j] = slot[j]
  BY <1>1, <1>2, StateActs
<1>4. Acts(c)
  BY <1>0, <1>1, <1>2, <1>3 DEF Acts
<1>5. ASSUME c \in Unmixed PROVE FdMeant(c)' /\ SlotMeant(c)' /\ MutexMeant(c)'
  <2>1. FdMeant(c) /\ SlotMeant(c) /\ MutexMeant(c)
    BY <1>2, <1>5, Mine
  <2>2. pc[c] \in Serving /\ pc[c] \notin Ending
    BY <1>1, <2>1, Steps DEF MutexMeant
  <2>3. pc[c] \notin {"start", "handshake", "set_open"} /\ ~ InTable(idx[c]) /\ CLOSED \notin {CONNECTING, OPEN}
    BY <1>1, <2>1 DEF SlotMeant, CONNECTING, OPEN, CLOSED
  <2>4. FdMeant(c)'
    BY <1>1, <1>3, <2>1, <2>2 DEF FdMeant
  <2>5. SlotMeant(c)'
    BY <1>0, <1>1, <1>2, <1>3, <2>1, <2>2, <2>3 DEF SlotMeant, InTable
  <2>6. MutexMeant(c)'
    BY <1>0, <1>1, <1>2, <2>2 DEF MutexMeant
  <2>. QED BY <2>4, <2>5, <2>6
<1>. QED BY <1>4, <1>5, ActsInv

\* The client thread destroys the mutex of its slot, or fails to, and ends.
LEMMA DestroyInv ==
  ASSUME IInv, TypeInv', NEW c \in Conns, Destroy(c)
  PROVE  IInv'
<1>. USE DEF IInv
<1>. DEFINE i == idx[c]
<1>1. /\ pc[c] = "destroy" /\ pc' = [pc EXCEPT ![c] = "done"]
      /\ sock' = [sock EXCEPT ![c] = NoFd]
      /\ clse_thrd' = [clse_thrd EXCEPT ![c] = FALSE]
      /\ ready \ {i} \subseteq ready' /\ locked \ {i} \subseteq locked'
      /\ UNCHANGED <<tenant, owner, port_index, port, idx, tout, caller, mixed>>
  BY DEF Destroy, Goto, Unlock, mutexes, kernel
<1>0. i \in Slots /\ Uses(c) /\ (c \in Unmixed => Own(c) /\ FdMeant(c) /\ SlotMeant(c) /\ MutexMeant(c))
  BY <1>1, Steps, Mine DEF Uses
<1>3. /\ slot'[i].client_sock = slot[i].client_sock /\ slot'[i].port_index = slot[i].port_index
      /\ slot'[i].state = slot[i].state /\ slot'[i].thrd_tout = slot[i].thrd_tout
      /\ \A j \in Slots \ {i} : slot'[j] = slot[j]
  <2>1. slot' = [slot EXCEPT ![i].close_thrd = FALSE]
    BY DEF Destroy
  <2>2. Becomes(i, slot[i].client_sock, slot[i].port_index, slot[i].state, FALSE, slot[i].thrd_tout)
    BY <1>0, <2>1, EntryLeft DEF TypeInv, Typed, TypeOK, SlotType
  <2>. QED BY <2>2 DEF Becomes
<1>2. /\ \A d \in Conns \ {c} : pc'[d] = pc[d] /\ sock'[d] = sock[d] /\ clse_thrd'[d] = clse_thrd[d]
      /\ pc'[c] = "done"
      /\ \A d \in Conns : Seated(d)' <=> Seated(d)
      /\ \A d \in Conns : Own(d)' <=> Own(d)
      /\ \A d \in Conns : Uses(d)' => Uses(d)
      /\ Unmixed' = Unmixed /\ Unmixed \subseteq Conns
      /\ \A j \in Slots : slot'[j].client_sock = slot[j].client_sock
      /\ \A j \in Slots : slot'[j].port_index = slot[j].port_index
      /\ \A j \in Slots : slot'[j].state = slot[j].state
      /\ \A j \in Slots : InTable(j)' <=> InTable(j)
  <2>1. /\ pc'[c] = "done"
        /\ \A d \in Conns \ {c} : pc'[d] = pc[d] /\ sock'[d] = sock[d] /\ clse_thrd'[d] = clse_thrd[d]
    BY <1>1 DEF TypeInv, Typed, TypeOK
  <2>. QED BY <1>1, <1>3, <2>1, Steps DEF Seated, Own, Uses, Unmixed, InTable
<1>s. \A d \in Conns : /\ pc'[d] \in WithSlot => pc'[d] = pc[d] /\ d # c
                       /\ pc'[d] \in WithSock => pc'[d] = pc[d] /\ sock'[d] = sock[d]
  BY <1>1, <1>2, Steps
<1>n. \A d \in Conns, f \in Fds : HasNumber(d, f)' => HasNumber(d, f)
  BY <1>1, <1>2, <1>s DEF HasNumber
<1>4. SeatInv'
  BY <1>1, <1>2, <1>s, Steps DEF SeatInv
<1>5. TenantInv' /\ TableInv'
  BY <1>1, <1>2, <1>s, Steps DEF TenantInv, TableInv
<1>7. CallerInv'
  BY <1>1, <1>2 DEF CallerInv, Means, TypeInv, Typed, AtWork
<1>8. SeatsApart'
  BY <1>1, <1>2 DEF SeatsApart
<1>9. FdsApart'
  BY <1>1, <1>2, <1>n DEF FdsApart
\* Nobody but c uses slot i.
<1>u. ASSUME NEW d \in Unmixed, d # c, Own(d) PROVE idx[d] \in Slots \ {i}
  <2>1. idx[d] \in Slots
    BY <1>2, <1>u DEF Own, SeatInv
  <2>. QED BY <1>0, <1>2, <1>u, <2>1, SoleUser
<1>10. ConnInv'
  <2>1. ASSUME NEW d \in Unmixed, d # c PROVE FdMeant(d)'
    <3>1. FdMeant(d) /\ d \in Conns /\ pc'[d] = pc[d] /\ sock'[d] = sock[d]
      BY <1>2, <2>1 DEF ConnInv
    <3>2. pc[d] \in Serving => idx[d] \in Slots
      BY <3>1, Steps, Mine DEF Uses
    <3>. QED BY <1>1, <1>2, <3>1, <3>2 DEF FdMeant
  <2>2. ASSUME NEW d \in Unmixed, d # c, Own(d) PROVE SlotMeant(d)' /\ MutexMeant(d)'
    <3>1. /\ SlotMeant(d) /\ MutexMeant(d) /\ d \in Conns
          /\ pc'[d] = pc[d] /\ clse_thrd'[d] = clse_thrd[d]
          /\ idx[d] \in Slots \ {i} /\ slot'[idx[d]] = slot[idx[d]]
      BY <1>2, <1>3, <1>u, <2>2 DEF ConnInv
    <3>. QED BY <1>1, <3>1 DEF SlotMeant, MutexMeant, InTable
  <2>3. ASSUME c \in Unmixed PROVE FdMeant(c)' /\ SlotMeant(c)' /\ MutexMeant(c)'
    <3>1. FdMeant(c) /\ SlotMeant(c) /\ MutexMeant(c)
      BY <1>0, <2>3
    <3>2. "destroy" \notin Serving \cup Ending /\ "done" \notin Serving \cup Ending
      BY Steps
    <3>3. tout[c] \notin Timing /\ tout[c] \notin {"fd_closed", "emptied"}
      BY <1>1, <3>1, <3>2 DEF SlotMeant, MutexMeant
    <3>4. FdMeant(c)'
      BY <1>1, <1>2, <3>1, <3>2 DEF FdMeant
    <3>5. SlotMeant(c)'
      BY <1>0, <1>1, <1>2, <3>1, <3>2, <3>3 DEF SlotMeant
    <3>6. MutexMeant(c)'
      BY <1>1, <1>2, <3>2, <3>3 DEF MutexMeant
    <3>. QED BY <3>4, <3>5, <3>6
  <2>. QED BY <1>2, <2>1, <2>2, <2>3 DEF ConnInv
<1>11. MutexAlive'
  <2>1. c \in Unmixed => tout[c] \notin Timing
    BY <1>0, <1>1 DEF SlotMeant
  <2>2. ASSUME NEW d \in Unmixed, pc'[d] \in WithSlot \/ tout[d] \in Timing PROVE idx[d] \in ready'
    <3>1. d # c /\ Uses(d) /\ d \in Conns /\ idx[d] \in ready
      BY <1>2, <1>s, <2>1, <2>2 DEF Uses, MutexAlive
    <3>2. idx[d] # i
      BY <1>u, <2>2, <3>1, Mine
    <3>. QED BY <1>1, <3>1, <3>2
  <2>. QED BY <1>1, <1>2, <2>2 DEF MutexAlive
<1>12. CallerFds'
  <2>1. \A k \in Callers : caller[k].at \in {"sent", "broadcast"} => caller[k].fd \in Fds
    BY DEF CallerInv, Means
  <2>. QED BY <1>1, <1>2, <1>n, <2>1 DEF CallerFds, FdsMeant
<1>13. PortInv'
  BY <1>1, <1>2 DEF PortInv, PortsMeant
<1>14. BroadcastStaysOnPort' /\ BroadcastReachesAll'
  BY <1>1, <1>2 DEF BroadcastStaysOnPort, BroadcastReachesAll
<1>. QED BY <1>4, <1>5, <1>7, <1>8, <1>9, <1>10, <1>11, <1>12, <1>13, <1>14

\* The client thread reads its slot; if nobody mixed it up, it finds what the
\* accept thread put there.
LEMMA StartThreadInv ==
  ASSUME IInv, TypeInv', NEW c \in Conns, StartThread(c)
  PROVE  IInv'
<1>. USE DEF IInv
<1>. DEFINE i == idx[c]
            g == slot[i].client_sock
<1>1. /\ pc[c] = "start" /\ pc' = [pc EXCEPT ![c] = "handshake"]
      /\ sock' = [sock EXCEPT ![c] = g]
      /\ port' = [port EXCEPT ![c] = slot[i].port_index]
      /\ UNCHANGED <<slot, ready, locked, tenant, owner, port_index, idx, clse_thrd, tout, caller, mixed>>
  BY DEF StartThread, Goto, MySlot, table, mutexes, kernel
<1>0. /\ i \in Slots /\ Uses(c) /\ Seated(c)
      /\ c \in Unmixed => Own(c) /\ FdMeant(c) /\ SlotMeant(c) /\ MutexMeant(c)
  BY <1>1, Steps, Mine DEF Uses
<1>2. /\ \A d \in Conns \ {c} : pc'[d] = pc[d] /\ sock'[d] = sock[d] /\ port'[d] = port[d]
      /\ pc'[c] = "handshake" /\ sock'[c] = g /\ port'[c] = slot[i].port_index
      /\ \A d \in Conns : pc'[d] \in WithSlot <=> pc[d] \in WithSlot
      /\ \A d \in Conns : pc'[d] \in WithSock <=> pc[d] \in WithSock
      /\ \A d \in Conns : pc[d] # "new" => pc'[d] # "new"
      /\ \A d \in Conns : pc'[d] = "accepted" => pc[d] = "accepted"
      /\ \A d \in Conns : Seated(d)' <=> Seated(d)
      /\ \A d \in Conns : Own(d)' <=> Own(d)
      /\ \A d \in Conns : Uses(d)' <=> Uses(d)
      /\ Unmixed' = Unmixed /\ Unmixed \subseteq Conns
      /\ \A j : InTable(j)' <=> InTable(j)
  <2>2. /\ \A d \in Conns \ {c} : pc'[d] = pc[d] /\ sock'[d] = sock[d] /\ port'[d] = port[d]
        /\ pc'[c] = "handshake" /\ sock'[c] = g /\ port'[c] = slot[i].port_index
    BY <1>1 DEF TypeInv, Typed, TypeOK
  <2>1. /\ \A d \in Conns : pc'[d] \in WithSlot <=> pc[d] \in WithSlot
        /\ \A d \in Conns : pc'[d] \in WithSock <=> pc[d] \in WithSock
        /\ \A d \in Conns : pc[d] # "new" => pc'[d] # "new"
        /\ \A d \in Conns : pc'[d] = "accepted" => pc[d] = "accepted"
        /\ \A d \in Conns : pc'[d] = "done" <=> pc[d] = "done"
    BY <1>1, <2>2, Steps
  <2>. QED BY <1>1, <2>1, <2>2 DEF Seated, Own, Uses, Unmixed, InTable
<1>s. /\ {"start", "handshake"} \cap Ending = {} /\ {"start", "handshake"} \subseteq Serving
      /\ "start" \in WithSlot /\ "accepted" # "handshake"
  BY Steps
\* Only the connection itself finds its number there.
<1>3. ASSUME NEW d \in Unmixed, g \in Fds, \A e \in Conns : HasNumber(e, g) => e = d
      PROVE  c = d
  <2>1. tenant[i] \in Conns /\ HasNumber(tenant[i], g)
    BY <1>0, <1>3, ValuesTyped DEF TableInv, InTable, HasNumber
  <2>2. tenant[i] = d /\ Own(d) /\ idx[d] = i
    BY <1>0, <1>3, <2>1 DEF TenantInv, Own
  <2>. QED BY <1>0, <1>2, <1>3, <2>2, SoleUser
<1>n. \A d \in Conns, f \in Fds : HasNumber(d, f)' => HasNumber(d, f) \/ (d = c /\ f = g)
  BY <1>1, <1>2 DEF HasNumber
<1>4. \A d \in Unmixed : port'[d] = port[d]
  BY <1>0, <1>2 DEF TenantInv, Own
<1>5. SeatInv'
  BY <1>1, <1>2, <1>s DEF SeatInv
<1>6. TenantInv'
  BY <1>1, <1>2 DEF TenantInv
<1>7. TableInv'
  BY <1>1, <1>2 DEF TableInv
<1>8. CallerInv'
  BY <1>1, <1>2 DEF CallerInv, Means
<1>9. SeatsApart'
  BY <1>1, <1>2 DEF SeatsApart
<1>10. FdsApart'
  <2>. SUFFICES ASSUME NEW f \in Fds, owner[f] \in Unmixed, NEW d \in Conns, HasNumber(d, f)'
                PROVE  d = owner[f]
    BY <1>1, <1>2 DEF FdsApart
  <2>1. CASE HasNumber(d, f)
    BY <2>1 DEF FdsApart
  <2>2. CASE d = c /\ f = g
    BY <1>3, <2>2 DEF FdsApart
  <2>. QED BY <1>n, <2>1, <2>2
<1>11. ConnInv'
  <2>1. ASSUME NEW d \in Unmixed, d # c PROVE FdMeant(d)' /\ (Own(d) => SlotMeant(d)' /\ MutexMeant(d)')
    <3>1. /\ FdMeant(d) /\ (Own(d) => SlotMeant(d) /\ MutexMeant(d)) /\ d \in Conns
          /\ pc'[d] = pc[d] /\ sock'[d] = sock[d]
      BY <1>2, <2>1 DEF ConnInv
    <3>2. FdMeant(d)'
      BY <1>1, <3>1 DEF FdMeant
    <3>3. Own(d) => SlotMeant(d)' /\ MutexMeant(d)'
      BY <1>1, <3>1 DEF SlotMeant, MutexMeant, InTable
    <3>. QED BY <3>2, <3>3
  <2>2. ASSUME c \in Unmixed PROVE FdMeant(c)' /\ SlotMeant(c)' /\ MutexMeant(c)'
    <3>1. FdMeant(c) /\ SlotMeant(c) /\ MutexMeant(c)
      BY <1>0, <2>2
    <3>2. FdMeant(c)'
      BY <1>1, <1>2, <1>s, <3>1 DEF FdMeant
    <3>3. SlotMeant(c)'
      BY <1>1, <1>2, <1>s, <3>1 DEF SlotMeant, InTable
    <3>4. MutexMeant(c)'
      BY <1>1, <1>2, <1>s, <3>1 DEF MutexMeant
    <3>. QED BY <3>2, <3>3, <3>4
  <2>. QED BY <1>2, <2>1, <2>2 DEF ConnInv
<1>12. MutexAlive'
  BY <1>1, <1>2 DEF MutexAlive
<1>13. CallerFds'
  <2>1. ASSUME NEW k \in Callers, caller[k].from \in Unmixed, caller[k].at \in {"sent", "broadcast"},
               NEW f \in Fds, f = caller[k].fd, NEW d \in Conns, HasNumber(d, f)'
        PROVE  d = caller[k].from
    <3>1. \A e \in Conns : HasNumber(e, f) => e = caller[k].from
      BY <2>1 DEF CallerFds, FdsMeant
    <3>2. CASE d = c /\ f = g
      BY <1>3, <2>1, <3>1, <3>2
    <3>. QED BY <1>n, <2>1, <3>1, <3>2
  <2>2. \A k \in Callers : caller[k].at \in {"sent", "broadcast"} => caller[k].fd \in Fds
    BY DEF CallerInv, Means
  <2>. QED BY <1>1, <1>2, <2>1, <2>2 DEF CallerFds, FdsMeant
<1>14. PortInv'
  BY <1>1, <1>2, <1>4 DEF PortInv, PortsMeant
<1>15. BroadcastStaysOnPort' /\ BroadcastReachesAll'
  BY <1>1, <1>2, <1>4 DEF BroadcastStaysOnPort, BroadcastReachesAll
<1>. QED BY <1>5, <1>6, <1>7, <1>8, <1>9, <1>10, <1>11, <1>12, <1>13, <1>14, <1>15

\* The table is full.
LEMMA RefuseInv ==
  ASSUME IInv, TypeInv', NEW c \in Conns, Refuse(c)
  PROVE  IInv'
<1>. USE DEF IInv
<1>. DEFINE g == sock[c]
<1>1. /\ pc[c] = "accepted" /\ pc' = [pc EXCEPT ![c] = "refused"]
      /\ UNCHANGED <<slot, ready, locked, tenant, port_index, sock, port, idx, clse_thrd, tout, caller, mixed>>
  BY DEF Refuse, Goto, table, mutexes, locals
<1>3. /\ \A f \in Fds : f # g => owner'[f] = owner[f]
      /\ g \in Fds => owner'[g] = NoConn
      /\ \A f \in Fds : owner'[f] = owner[f] \/ owner'[f] = NoConn
      /\ NoConn \notin Unmixed
  BY NoConnAssumption DEF Refuse, close_socket, Unmixed
<1>2. /\ \A d \in Conns : d # c => pc'[d] = pc[d]
      /\ pc'[c] = "refused"
      /\ \A d \in Conns : Seated(d)' <=> Seated(d)
      /\ \A d \in Conns : Own(d)' <=> Own(d)
      /\ \A d \in Conns : Uses(d)' <=> Uses(d)
      /\ Unmixed' = Unmixed /\ Unmixed \subseteq Conns
      /\ \A j : InTable(j)' <=> InTable(j)
      /\ ~ Seated(c)
  <2>1. pc'[c] = "refused" /\ \A d \in Conns : d # c => pc'[d] = pc[d]
    BY <1>1 DEF TypeInv, Typed, TypeOK
  <2>. QED BY <1>1, <2>1, Steps DEF Seated, Own, Uses, Unmixed, InTable
<1>s. \A d \in Conns : /\ pc'[d] \in WithSock => pc[d] \in WithSock
                       /\ pc'[d] \in WithSlot <=> pc[d] \in WithSlot
                       /\ pc[d] # "new" => pc'[d] # "new"
  BY <1>1, <1>2, Steps
<1>n. \A d \in Conns, f \in Fds : HasNumber(d, f)' => HasNumber(d, f)
  BY <1>1, <1>s DEF HasNumber
\* The descriptor was that of c, if it was of one that is not mixed up.
<1>o. ASSUME NEW f \in Fds, owner[f] \in Unmixed, owner[f] # c PROVE owner'[f] = owner[f]
  <2>1. f # g
    BY <1>1, <1>o, Steps DEF FdsApart, HasNumber
  <2>. QED BY <1>3, <2>1
<1>5. SeatInv'
  BY <1>1, <1>2 DEF SeatInv
<1>6. TenantInv' /\ TableInv'
  BY <1>1, <1>2, <1>s DEF TenantInv, TableInv
<1>8. CallerInv'
  BY <1>1, <1>2, <1>s DEF CallerInv, Means
<1>9. SeatsApart'
  BY <1>1, <1>2 DEF SeatsApart
<1>10. FdsApart'
  BY <1>1, <1>2, <1>3, <1>n DEF FdsApart
<1>11. ConnInv'
  <2>1. ASSUME NEW d \in Unmixed, d # c PROVE FdMeant(d)' /\ (Own(d) => SlotMeant(d)' /\ MutexMeant(d)')
    <3>1. /\ FdMeant(d) /\ (Own(d) => SlotMeant(d) /\ MutexMeant(d)) /\ d \in Conns
          /\ pc'[d] = pc[d]
      BY <1>2, <2>1 DEF ConnInv
    <3>2. \A f \in Fds : /\ owner'[f] = d <=> owner[f] = d
                         /\ owner[f] \in {d, NoConn} => owner'[f] = owner[f]
      BY <1>3, <1>o, <2>1
    <3>3. FdMeant(d)'
      BY <1>1, <3>1, <3>2 DEF FdMeant
    <3>4. ASSUME Own(d) PROVE SlotMeant(d)' /\ MutexMeant(d)'
      <4>1. InTable(idx[d]) => slot[idx[d]].client_sock \in Fds
        BY <3>1, <3>4 DEF Own, SeatInv, InTable, TypeInv, Typed, TypeOK
      <4>2. SlotMeant(d)'
        BY <1>1, <3>1, <3>2, <3>4, <4>1 DEF SlotMeant, InTable
      <4>3. MutexMeant(d)'
        BY <1>1, <3>1, <3>4 DEF MutexMeant
      <4>. QED BY <4>2, <4>3
    <3>. QED BY <3>3, <3>4
  <2>2. ASSUME c \in Unmixed PROVE FdMeant(c)'
    <3>1. FdMeant(c) /\ c # NoConn
      BY <2>2, NoConnAssumption DEF ConnInv
    <3>2. \A f \in Fds : owner'[f] # c
      BY <1>3, <3>1 DEF FdMeant
    <3>. QED BY <1>2, <3>2, Steps DEF FdMeant, Ending
  <2>. QED BY <1>2, <2>1, <2>2 DEF ConnInv, Own
<1>12. MutexAlive'
  BY <1>1, <1>2, <1>s DEF MutexAlive
<1>13. CallerFds'
  <2>1. \A k \in Callers : caller[k].at \in {"sent", "broadcast"} => caller[k].fd \in Fds
    BY DEF CallerInv, Means
  <2>. QED BY <1>1, <1>2, <1>3, <1>n, <2>1, NoConnAssumption DEF CallerFds, FdsMeant
<1>14. PortInv'
  BY <1>1, <1>2, <1>3, NoConnAssumption DEF PortInv, PortsMeant
<1>15. BroadcastStaysOnPort' /\ BroadcastReachesAll'
  BY <1>1, <1>2 DEF BroadcastStaysOnPort, BroadcastReachesAll
<1>. QED BY <1>5, <1>6, <1>8, <1>9, <1>10, <1>11, <1>12, <1>13, <1>14, <1>15

\* Whoever else uses what c gets is mixed up with c from then on.
LEMMA MixesMeans ==
  ASSUME NEW c, NEW users, Mixes(c, users)
  PROVE  /\ Unmixed' \subseteq Unmixed /\ Unmixed \subseteq Conns
         /\ \A d \in users : d # c => d \notin Unmixed' /\ c \notin Unmixed'
BY DEF Mixes, Unmixed

\* accept returns a descriptor for a new connection. Connections that still use
\* the number are mixed up with it, so the others keep theirs.
LEMMA AcceptInv ==
  ASSUME IInv, TypeInv', NEW c \in Conns, NEW p \in Ports, Accept(c, p)
  PROVE  IInv'
<1>. USE DEF IInv
<1>0. PICK g \in Fds :
        /\ owner[g] = NoConn
        /\ owner' = [owner EXCEPT ![g] = c]
        /\ sock' = [sock EXCEPT ![c] = g]
        /\ Mixes(c, FdUsers(g))
  BY DEF Accept
<1>1. /\ pc[c] = "new" /\ pc' = [pc EXCEPT ![c] = "accepted"]
      /\ port' = [port EXCEPT ![c] = p]
      /\ UNCHANGED <<slot, ready, locked, tenant, port_index, idx, clse_thrd, tout, caller>>
  BY DEF Accept, Goto, table, mutexes
<1>2. /\ \A d \in Conns : d # c => pc'[d] = pc[d] /\ sock'[d] = sock[d] /\ port'[d] = port[d]
      /\ pc'[c] = "accepted" /\ sock'[c] = g /\ port'[c] = p
      /\ \A f \in Fds : f # g => owner'[f] = owner[f]
      /\ owner'[g] = c
      /\ \A d \in Conns : Seated(d)' <=> Seated(d)
      /\ \A d \in Conns : Own(d)' <=> Own(d)
      /\ \A d \in Conns : Uses(d)' <=> Uses(d)
      /\ Unmixed' \subseteq Unmixed /\ Unmixed \subseteq Conns
      /\ \A j : InTable(j)' <=> InTable(j)
  <2>1. /\ \A d \in Conns : d # c => pc'[d] = pc[d] /\ sock'[d] = sock[d] /\ port'[d] = port[d]
        /\ pc'[c] = "accepted" /\ sock'[c] = g /\ port'[c] = p
        /\ \A f \in Fds : f # g => owner'[f] = owner[f]
        /\ owner'[g] = c
    BY <1>0, <1>1 DEF TypeInv, Typed, TypeOK
  <2>. QED BY <1>0, <1>1, <2>1, Steps, MixesMeans DEF Seated, Own, Uses, InTable
<1>s. \A d \in Conns : /\ pc'[d] \in WithSlot <=> pc[d] \in WithSlot
                       /\ pc[d] # "new" => d # c /\ pc'[d] # "new"
                       /\ Seated(d) => d # c
  BY <1>1, <1>2, Steps DEF Seated
<1>n. \A d \in Conns, f \in Fds : HasNumber(d, f)' => HasNumber(d, f) \/ (d = c /\ f = g)
  BY <1>1, <1>2 DEF HasNumber
<1>3. \A d \in Conns : d # c /\ HasNumber(d, g) => d \notin Unmixed' /\ c \notin Unmixed'
  BY <1>0, MixesMeans DEF FdUsers
<1>3c. \A k \in Callers, d \in Conns :
         \/ caller[k].fd = g /\ caller[k].from = d
         \/ caller[k].sock = g /\ caller[k].to = d
         => d = c \/ (d \notin Unmixed' /\ c \notin Unmixed')
  BY <1>0, MixesMeans DEF FdUsers
\* Nobody had the descriptor, and c had none.
<1>4. /\ \A d \in Conns : owner[g] # d
      /\ \A f \in Fds : owner[f] # c
  BY <1>0, <1>1, NoConnAssumption DEF TypeInv, Accepted
<1>5. SeatInv'
  BY <1>1, <1>2, <1>s DEF SeatInv
<1>6. TenantInv'
  BY <1>1, <1>2, <1>s DEF TenantInv
<1>7. TableInv'
  BY <1>1, <1>2 DEF TableInv
<1>8. CallerInv'
  BY <1>1, <1>2, <1>s DEF CallerInv, Means
<1>9. SeatsApart'
  BY <1>1, <1>2, <1>s DEF SeatsApart
<1>10. FdsApart'
  <2>. SUFFICES ASSUME NEW f \in Fds, owner'[f] \in Unmixed', NEW d \in Conns, HasNumber(d, f)'
                PROVE  d = owner'[f]
    BY DEF FdsApart
  <2>1. CASE f = g
    <3>1. owner'[f] = c
      BY <1>2, <2>1
    <3>2. CASE d # c
      BY <1>3, <1>n, <2>1, <3>1, <3>2
    <3>. QED BY <3>1, <3>2
  <2>2. CASE f # g
    BY <1>2, <1>n, <2>2 DEF FdsApart
  <2>. QED BY <2>1, <2>2
<1>11. ConnInv'
  <2>1. ASSUME NEW d \in Unmixed', d # c PROVE FdMeant(d)' /\ (Own(d) => SlotMeant(d)' /\ MutexMeant(d)')
    <3>1. /\ FdMeant(d) /\ (Own(d) => SlotMeant(d) /\ MutexMeant(d)) /\ d \in Conns /\ d \in Unmixed
          /\ pc'[d] = pc[d] /\ sock'[d] = sock[d]
      BY <1>2, <2>1 DEF ConnInv
    <3>2. \A f \in Fds : owner'[f] = d <=> owner[f] = d
      BY <1>2, <1>4, <2>1, <3>1
    <3>3. FdMeant(d)'
      BY <1>1, <3>1, <3>2 DEF FdMeant
    <3>4. ASSUME Own(d) PROVE SlotMeant(d)' /\ MutexMeant(d)'
      <4>1. InTable(idx[d]) => slot[idx[d]].client_sock \in Fds /\ HasNumber(d, slot[idx[d]].client_sock)
        BY <3>1, <3>4 DEF Own, SeatInv, InTable, HasNumber, TypeInv, Typed, TypeOK
      <4>2. InTable(idx[d]) => slot[idx[d]].client_sock # g
        BY <1>3, <2>1, <3>1, <4>1
      <4>3. SlotMeant(d)'
        BY <1>1, <1>2, <3>1, <3>4, <4>1, <4>2 DEF SlotMeant, InTable
      <4>4. MutexMeant(d)'
        BY <1>1, <3>1, <3>4 DEF MutexMeant
      <4>. QED BY <4>3, <4>4
    <3>. QED BY <3>3, <3>4
  <2>2. FdMeant(c)'
    <3>1. \A f \in Fds : owner'[f] = c <=> f = g
      BY <1>2, <1>4
    <3>. QED BY <1>2, <3>1, Steps DEF FdMeant, Ending
  <2>3. ~ Own(c)
    BY <1>s DEF Own
  <2>. QED BY <1>2, <2>1, <2>2, <2>3 DEF ConnInv
<1>12. MutexAlive'
  BY <1>1, <1>2, <1>s DEF MutexAlive
<1>13. CallerFds'
  <2>1. ASSUME NEW k \in Callers, NEW f \in Fds, NEW d, d \in {caller[k].from, caller[k].to}, d \in Conns,
               owner'[f] = d
        PROVE  f # g /\ owner[f] = d
    <3>1. d # c
      BY <1>1, <2>1 DEF CallerInv, Means
    <3>. QED BY <1>2, <2>1, <3>1
  <2>2. ASSUME NEW k \in Callers, caller[k].from \in Unmixed', caller[k].at \in {"sent", "broadcast"},
               NEW f \in Fds, f = caller[k].fd, NEW d \in Conns, HasNumber(d, f)'
        PROVE  d = caller[k].from
    <3>1. \A e \in Conns : HasNumber(e, f) => e = caller[k].from
      BY <1>2, <2>2 DEF CallerFds, FdsMeant
    <3>2. CASE d = c /\ f = g
      <4>1. caller[k].from # c /\ caller[k].from \in Conns
        BY <1>1, <1>2, <2>2 DEF CallerInv, Means
      <4>. QED BY <1>3c, <2>2, <3>2, <4>1
    <3>. QED BY <1>n, <2>2, <3>1, <3>2
  <2>3. \A k \in Callers : caller[k].at \in {"sent", "broadcast"} => caller[k].fd \in Fds
    BY DEF CallerInv, Means
  <2>. QED BY <1>1, <1>2, <2>1, <2>2, <2>3 DEF CallerFds, FdsMeant
<1>14. PortInv'
  <2>1. \A d \in Conns : pc[d] # "new" => port'[d] = port[d]
    BY <1>1, <1>2
  <2>2. ASSUME NEW k \in Callers, caller[k].from \in Unmixed', caller[k].at = "broadcast"
        PROVE  caller[k].port \in {NoPort, port'[caller[k].from]}
    BY <1>2, <2>1, <2>2 DEF PortInv, PortsMeant, CallerInv, Means
  <2>3. ASSUME NEW k \in Callers, caller[k].from \in Unmixed', caller[k].at = "broadcast",
               NEW f \in Fds, f = caller[k].sock, owner'[f] \in Unmixed'
        PROVE  owner'[f] # caller[k].from /\ port'[owner'[f]] = caller[k].port
    <3>1. CASE f = g
      <4>1. caller[k].to \in Conns /\ caller[k].to # c
        BY <1>1, <2>3, ValuesTyped DEF CallerInv, Means
      <4>2. c \notin Unmixed'
        BY <1>3c, <2>3, <3>1, <4>1
      <4>3. owner'[f] = c
        BY <1>2, <3>1
      <4>. QED BY <2>3, <4>2, <4>3
    <3>2. CASE f # g
      <4>1. owner'[f] = owner[f] /\ owner[f] \in Unmixed
        BY <1>2, <2>3, <3>2
      <4>2. pc[owner[f]] # "new"
        BY <1>2, <4>1 DEF TypeInv, Accepted
      <4>. QED BY <1>2, <2>1, <2>3, <4>1, <4>2 DEF PortInv, PortsMeant
    <3>. QED BY <3>1, <3>2
  <2>. QED BY <1>1, <1>2, <2>2, <2>3 DEF PortInv, PortsMeant
<1>15. BroadcastStaysOnPort'
  <2>1. \A d \in Conns : pc[d] # "new" => port'[d] = port[d]
    BY <1>1, <1>2
  <2>2. \A k \in Callers : \A d \in caller[k].reached \cup {caller[k].from} : d \in Conns => pc[d] # "new"
    BY DEF CallerInv, Means
  <2>. QED BY <1>1, <1>2, <2>1, <2>2 DEF BroadcastStaysOnPort
<1>16. BroadcastReachesAll'
  BY <1>1, <1>2 DEF BroadcastReachesAll
<1>. QED BY <1>5, <1>6, <1>7, <1>8, <1>9, <1>10, <1>11, <1>12, <1>13, <1>14, <1>15, <1>16

\* The connection gets a slot. Connections whose threads still use the slot are
\* mixed up with it, so the others keep theirs.
LEMMA AddToTableInv ==
  ASSUME IInv, TypeInv', NEW c \in Conns, AddToTable(c)
  PROVE  IInv'
<1>. USE DEF IInv
<1>0. PICK i \in Free :
        /\ slot' = [slot EXCEPT ![i] = [client_sock |-> sock[c], port_index |-> port[c],
                                        state |-> CONNECTING, close_thrd |-> FALSE,
                                        thrd_tout |-> @.thrd_tout]]
        /\ ready' = ready \cup {i}
        /\ locked' = locked \ {i}
        /\ tenant' = [tenant EXCEPT ![i] = c]
        /\ idx' = [idx EXCEPT ![c] = i]
        /\ Mixes(c, SlotUsers(i))
  BY DEF AddToTable, Unlock
<1>1. /\ pc[c] = "accepted" /\ pc' = [pc EXCEPT ![c] = "start"]
      /\ MutexFree
      /\ UNCHANGED <<owner, port_index, sock, port, clse_thrd, tout, caller>>
  BY DEF AddToTable, Goto, kernel
<1>2. /\ i \in Slots /\ slot[i].client_sock = NoFd
      /\ \A d \in Conns : d # c => pc'[d] = pc[d] /\ idx'[d] = idx[d]
      /\ pc'[c] = "start" /\ idx'[c] = i
      /\ \A j \in Slots \ {i} : slot'[j] = slot[j] /\ tenant'[j] = tenant[j]
      /\ slot'[i].client_sock = sock[c] /\ slot'[i].port_index = port[c]
      /\ slot'[i].state = CONNECTING
      /\ tenant'[i] = c
      /\ Unmixed' \subseteq Unmixed /\ Unmixed \subseteq Conns
  BY <1>0, <1>1, MixesMeans DEF Free, TypeInv, Typed, TypeOK
<1>3. \A d \in SlotUsers(i) : d # c => d \notin Unmixed' /\ c \notin Unmixed'
  BY <1>0, MixesMeans
<1>4. /\ tout[c] = "none" /\ ~ Seated(c)
      /\ CONNECTING # CLOSED /\ CONNECTING # -1
      /\ \A j \in Slots : tenant[j] \in Conns => tenant[j] # c
      /\ \A k \in Callers : caller[k].at \in {"send_close", "start_timeout"} => caller[k].from # c
      /\ \A k \in Callers : caller[k].at # "broadcast" /\ caller[k].sock = NoFd /\ caller[k].reached = {}
  <2>1. ~ Seated(c)
    BY <1>1, Steps DEF Seated
  <2>. QED BY <1>1, <2>1 DEF SeatInv, TenantInv, CallerInv, Means, MutexFree, CONNECTING, CLOSED
<1>5. /\ \A d \in Conns : d # c => (Seated(d)' <=> Seated(d))
      /\ Seated(c)' /\ Uses(c)'
      /\ \A d \in Conns : d # c => (Uses(d)' <=> Uses(d))
      /\ \A j \in Slots \ {i} : InTable(j)' <=> InTable(j)
      /\ ~ InTable(i)
  BY <1>1, <1>2, Steps DEF Seated, Uses, InTable
<1>s. /\ \A d \in Conns : d # c => (pc'[d] \in WithSlot <=> pc[d] \in WithSlot)
      /\ \A d \in Conns : /\ pc'[d] \in WithSock <=> pc[d] \in WithSock
                          /\ pc[d] # "new" => pc'[d] # "new"
                          /\ pc'[d] = "accepted" => d # c
      /\ pc[c] \in WithSock /\ "start" \in Serving /\ "start" \notin Ending
  BY <1>1, <1>2, Steps
\* The slot gets the number of its thread.
<1>n. \A d \in Conns, f \in Fds : HasNumber(d, f)' => HasNumber(d, f)
  <2>. SUFFICES ASSUME NEW d \in Conns, NEW f \in Fds, HasNumber(d, f)' PROVE HasNumber(d, f)
    OBVIOUS
  <2>1. CASE pc'[d] \in WithSock /\ sock'[d] = f
    BY <1>1, <1>s, <2>1 DEF HasNumber
  <2>2. ASSUME NEW j \in Slots, tenant'[j] = d, slot'[j].client_sock = f PROVE HasNumber(d, f)
    <3>1. CASE j = i
      BY <1>2, <1>s, <2>2, <3>1 DEF HasNumber
    <3>2. CASE j # i
      BY <1>2, <2>2, <3>2 DEF HasNumber
    <3>. QED BY <3>1, <3>2
  <2>. QED BY <2>1, <2>2 DEF HasNumber
\* Nobody who is not mixed up uses slot i.
<1>6. ASSUME NEW d \in Conns, d # c, Uses(d), idx[d] = i PROVE d \notin Unmixed' /\ c \notin Unmixed'
  <2>1. d \in SlotUsers(i)
    BY <1>6 DEF Uses, SlotUsers, CallerInv, Means
  <2>. QED BY <1>3, <1>6, <2>1
\* Who has another slot to itself keeps it.
<1>o. ASSUME NEW d \in Unmixed', d # c, Own(d)'
      PROVE  d \in Unmixed /\ d \in Conns /\ Own(d) /\ idx'[d] = idx[d] /\ idx[d] \in Slots \ {i} /\ pc'[d] = pc[d]
  <2>1. d \in Conns /\ Seated(d)' /\ tenant'[idx'[d]] = d /\ idx'[d] = idx[d] /\ Seated(d)
    BY <1>2, <1>5, <1>o DEF Own
  <2>2. idx[d] \in Slots /\ idx[d] # i
    BY <1>2, <1>o, <2>1 DEF SeatInv
  <2>. QED BY <1>2, <1>o, <2>1, <2>2 DEF Own
<1>7. SeatInv'
  BY <1>0, <1>1, <1>2, <1>4, <1>5, <1>s DEF SeatInv
<1>8. TenantInv'
  <2>1. port[c] \in Ports
    BY <1>1 DEF SeatInv
  <2>. QED BY <1>1, <1>2, <1>4, <1>5, <2>1 DEF TenantInv
<1>9. TableInv'
  BY <1>1, <1>2, <1>4, <1>5, <1>s DEF TableInv, TenantInv, InTable
<1>10. CallerInv'
  <2>1. ASSUME NEW k \in Callers, caller[k].at \in {"send_close", "start_timeout"}, caller[k].from \in Conns
        PROVE  Seated(caller[k].from)' /\ caller[k].i = idx'[caller[k].from]
    BY <1>1, <1>2, <1>4, <1>5, <2>1 DEF CallerInv, Means
  <2>. QED BY <1>1, <1>4, <1>s, <2>1 DEF CallerInv, Means
<1>11. SeatsApart'
  <2>1. ASSUME NEW d \in Unmixed', Uses(d)' PROVE tenant'[idx'[d]] = d
    <3>1. CASE d = c
      BY <1>2, <3>1
    <3>2. CASE d # c
      <4>1. Uses(d) /\ d \in Unmixed /\ d \in Conns /\ idx'[d] = idx[d] /\ tenant[idx[d]] = d
        BY <1>2, <1>5, <2>1, <3>2 DEF SeatsApart
      <4>2. idx[d] # i
        BY <1>6, <2>1, <3>2, <4>1
      <4>3. idx[d] \in Slots
        BY <4>1, Mine
      <4>. QED BY <1>2, <4>1, <4>2, <4>3
    <3>. QED BY <3>1, <3>2
  <2>2. ASSUME NEW d \in Unmixed', Own(d)', NEW e \in Conns \ {d}, idx'[e] = idx'[d], Uses(e)'
        PROVE  FALSE
    <3>1. CASE d = c
      BY <1>2, <1>5, <1>6, <2>2, <3>1
    <3>2. CASE d # c
      <4>1. d \in Unmixed /\ d \in Conns /\ Own(d) /\ idx'[d] = idx[d] /\ idx[d] \in Slots \ {i}
        BY <1>o, <2>2, <3>2
      <4>2. e # c /\ Uses(e) /\ idx[e] = idx[d]
        BY <1>2, <1>5, <2>2, <4>1
      <4>. QED BY <2>2, <4>1, <4>2 DEF SeatsApart
    <3>. QED BY <3>1, <3>2
  <2>. QED BY <2>1, <2>2 DEF SeatsApart
<1>12. FdsApart'
  BY <1>1, <1>2, <1>n DEF FdsApart
<1>13. ConnInv'
  <2>1. ASSUME NEW d \in Unmixed', d # c PROVE FdMeant(d)'
    <3>1. FdMeant(d) /\ d \in Conns /\ pc'[d] = pc[d] /\ idx'[d] = idx[d]
      BY <1>2, <2>1 DEF ConnInv
    <3>2. ASSUME pc[d] \in Serving PROVE slot'[idx[d]] = slot[idx[d]]
      <4>1. Uses(d)
        BY <3>2, Steps DEF Uses
      <4>2. idx[d] \in Slots \ {i}
        BY <1>6, <2>1, <3>1, <4>1, Mine
      <4>. QED BY <1>2, <4>2
    <3>. QED BY <1>1, <3>1, <3>2 DEF FdMeant
  <2>2. ASSUME NEW d \in Unmixed', d # c, Own(d)' PROVE SlotMeant(d)' /\ MutexMeant(d)'
    <3>1. /\ SlotMeant(d) /\ MutexMeant(d) /\ idx'[d] = idx[d] /\ pc'[d] = pc[d]
          /\ slot'[idx[d]] = slot[idx[d]] /\ (idx[d] \in locked => idx[d] \in locked')
      BY <1>0, <1>2, <1>o, <2>2 DEF ConnInv
    <3>. QED BY <1>1, <3>1 DEF SlotMeant, MutexMeant, InTable
  <2>3. ASSUME c \in Unmixed' PROVE FdMeant(c)' /\ SlotMeant(c)' /\ MutexMeant(c)'
    <3>1. FdMeant(c) /\ sock[c] \in Fds /\ owner[sock[c]] = c /\ sock[c] # NoFd
      BY <1>1, <1>2, <2>3, ValuesTyped DEF ConnInv, FdMeant
    <3>2. FdMeant(c)'
      BY <1>1, <1>2, <1>s, <3>1 DEF FdMeant
    <3>3. SlotMeant(c)'
      BY <1>1, <1>2, <1>4, <1>s, <3>1 DEF SlotMeant, InTable, Timing
    <3>4. MutexMeant(c)'
      BY <1>1, <1>2, <1>4, <1>s DEF MutexMeant, Timing
    <3>. QED BY <3>2, <3>3, <3>4
  <2>. QED BY <2>1, <2>2, <2>3 DEF ConnInv
<1>15. MutexAlive'
  BY <1>0, <1>1, <1>2, <1>4, <1>s DEF MutexAlive
<1>16. CallerFds'
  <2>1. \A k \in Callers : caller[k].at \in {"sent", "broadcast"} => caller[k].fd \in Fds
    BY DEF CallerInv, Means
  <2>. QED BY <1>1, <1>2, <1>n, <2>1 DEF CallerFds, FdsMeant
<1>17. PortInv'
  BY <1>1, <1>4 DEF PortInv, PortsMeant
<1>18. BroadcastStaysOnPort' /\ BroadcastReachesAll'
  BY <1>1, <1>4 DEF BroadcastStaysOnPort, BroadcastReachesAll
<1>. QED BY <1>7, <1>8, <1>9, <1>10, <1>11, <1>12, <1>13, <1>15, <1>16, <1>17, <1>18

\* Ports are opened when nobody has a slot.
LEMMA ListenInv ==
  ASSUME LatePorts = FALSE, IInv, TypeInv', Listen
  PROVE  IInv'
<1>. USE DEF IInv
<1>1. /\ \A i \in Slots : slot[i] = Unused /\ slot'[i] = Unused
      /\ UNCHANGED <<tenant, owner, pc, sock, port, idx, clse_thrd, tout, caller, mixed>>
  BY DEF Listen, thread, locals
<1>2. Unused.client_sock = NoFd /\ Unused.state = -1
  BY DEF Unused
<1>3. \A i \in Slots : tenant[i] \notin Conns
  BY <1>1, <1>2 DEF TenantInv
<1>4. \A d \in Conns : ~ Seated(d) /\ tout[d] = "none" /\ pc[d] \notin Serving /\ pc[d] \notin WithSlot
  BY <1>3, Steps DEF SeatInv, Seated
<1>5. /\ \A d \in Conns : Seated(d)' <=> Seated(d)
      /\ \A d \in Conns : Own(d)' <=> Own(d)
      /\ \A d \in Conns : Uses(d)' <=> Uses(d)
      /\ Unmixed' = Unmixed /\ Unmixed \subseteq Conns
      /\ \A i \in Slots : ~ InTable(i) /\ ~ InTable(i)'
      /\ \A d \in Conns, f \in Fds : HasNumber(d, f)' <=> HasNumber(d, f)
  BY <1>1, <1>2 DEF Seated, Own, Uses, Unmixed, InTable, HasNumber
<1>6. SeatInv' /\ TenantInv'
  BY <1>1, <1>3, <1>5 DEF SeatInv, TenantInv
<1>7. TableInv'
  BY <1>1, <1>2, <1>5 DEF TableInv
<1>8. CallerInv'
  BY <1>1, <1>5 DEF CallerInv, Means, TypeInv, Typed, AtWork
<1>9. SeatsApart'
  BY <1>1, <1>5 DEF SeatsApart
<1>10. FdsApart'
  BY <1>1, <1>5 DEF FdsApart
<1>11. ConnInv'
  BY <1>1, <1>4, <1>5 DEF ConnInv, FdMeant, Own
<1>12. MutexAlive'
  BY <1>1, <1>4, <1>5 DEF MutexAlive, Timing
<1>13. CallerFds' /\ PortInv'
  <2>1. \A k \in Callers : caller[k].at \in {"sent", "broadcast"} => caller[k].fd \in Fds
    BY DEF CallerInv, Means
  <2>. QED BY <1>1, <1>5, <2>1 DEF CallerFds, FdsMeant, PortInv, PortsMeant
<1>14. BroadcastStaysOnPort' /\ BroadcastReachesAll'
  BY <1>1, <1>5 DEF BroadcastStaysOnPort, BroadcastReachesAll
<1>. QED BY <1>6, <1>7, <1>8, <1>9, <1>10, <1>11, <1>12, <1>13, <1>14

\* What the invariant says of the broadcast of a caller, and that the slot of a
\* connection it is about to close is that of the connection.
Stays(r) ==
  r.from \in Unmixed =>
    \A d \in r.reached \cap Unmixed : d # r.from /\ port[d] = port[r.from]
Passed(r) ==
  r.at = "broadcast" /\ r.from \in Unmixed =>
    \A i \in Slots :
      /\ i < r.i
      /\ InTable(i)
      /\ tenant[i] \in Unmixed \ {r.from}
      /\ slot[i].port_index = r.port
      => tenant[i] \in r.reached
ClosesTenant(r) ==
  r.at \in {"send_close", "start_timeout"} /\ r.from \in Conns =>
    Uses(r.from) \/ tenant[idx[r.from]] = r.from

\* A caller goes on with the variables q, and nothing else changes.
LEMMA CallInv ==
  ASSUME IInv, TypeInv', NEW k \in Callers, NEW q, Sets(k, q),
         UNCHANGED <<table, kernel, thread, tout, mixed>>,
         Means(q), FdsMeant(q), PortsMeant(q), Stays(q), Passed(q), ClosesTenant(q)
  PROVE  IInv'
<1>. USE DEF IInv
<1>1. UNCHANGED <<slot, ready, locked, tenant, owner, port_index, pc, sock, port, idx, clse_thrd, tout,
                  mixed>>
  BY DEF table, mutexes, kernel, thread, locals
<1>2. /\ caller'[k] = q
      /\ \A m \in Callers : m # k => caller'[m] = caller[m]
  BY DEF Sets, TypeInv, Typed, TypeOK
<1>3. /\ \A d \in Conns : Seated(d)' <=> Seated(d)
      /\ \A d \in Conns : Own(d)' <=> Own(d)
      /\ \A d \in Conns : Uses(d)' => Uses(d) \/ (Seated(d) => tenant[idx[d]] = d)
      /\ Unmixed' = Unmixed /\ Unmixed \subseteq Conns
      /\ \A j : InTable(j)' <=> InTable(j)
      /\ \A d \in Conns : \A f : HasNumber(d, f)' <=> HasNumber(d, f)
  BY <1>1, <1>2 DEF Seated, Own, Uses, Unmixed, InTable, ClosesTenant, HasNumber
<1>4. SeatInv' /\ TenantInv' /\ TableInv'
  BY <1>1, <1>3 DEF SeatInv, TenantInv, TableInv
<1>5. CallerInv'
  <2>1. \A r : Means(r)' <=> Means(r)
    BY <1>1, <1>3 DEF Means
  <2>2. \A m \in Callers : Means(caller'[m])
    BY <1>2 DEF CallerInv
  <2>. QED BY <2>1, <2>2 DEF CallerInv
<1>6. SeatsApart'
  <2>1. ASSUME NEW c \in Conns, Uses(c)' PROVE Seated(c)
    <3>1. \A m \in Callers : Means(caller'[m])
      BY <1>2 DEF CallerInv
    <3>. QED BY <1>1, <2>1, <3>1 DEF Uses, Means, SeatInv, Seated, Timing
  <2>. QED BY <1>1, <1>3, <2>1 DEF SeatsApart, Own
<1>7. FdsApart'
  BY <1>1, <1>3 DEF FdsApart
<1>8. ConnInv' /\ MutexAlive'
  BY <1>1, <1>3 DEF ConnInv, FdMeant, SlotMeant, MutexMeant, InTable, MutexAlive
<1>9. CallerFds'
  <2>1. \A r : FdsMeant(r)' <=> FdsMeant(r)
    BY <1>1, <1>3 DEF FdsMeant
  <2>. QED BY <1>2, <2>1 DEF CallerFds
<1>10. PortInv'
  <2>1. \A r : PortsMeant(r)' <=> PortsMeant(r)
    BY <1>1, <1>3 DEF PortsMeant
  <2>. QED BY <1>2, <2>1 DEF PortInv
<1>11. BroadcastStaysOnPort'
  BY <1>1, <1>2, <1>3 DEF BroadcastStaysOnPort, Stays
<1>12. BroadcastReachesAll'
  BY <1>1, <1>2, <1>3 DEF BroadcastReachesAll, Passed
<1>. QED BY <1>4, <1>5, <1>6, <1>7, <1>8, <1>9, <1>10, <1>11, <1>12

\* A call that has ended means nothing.
LEMMA IdleMeans ==
  /\ Means(Idle) /\ FdsMeant(Idle) /\ PortsMeant(Idle)
  /\ Stays(Idle) /\ Passed(Idle) /\ ClosesTenant(Idle)
<1>1. /\ Idle.at = "idle" /\ Idle.from = NoConn /\ Idle.to = NoConn /\ Idle.sock = NoFd
      /\ Idle.reached = {}
      /\ NoConn \notin Conns /\ NoConn \notin Unmixed
  BY NoConnAssumption DEF Idle, Unmixed
<1>. QED BY <1>1 DEF Means, FdsMeant, PortsMeant, Stays, Passed, ClosesTenant

\* What the fields of a caller are after it set some of them.
LEMMA CallSets ==
  ASSUME NEW r \in CallerType
  PROVE  /\ \A f, i, c : LET q == [r EXCEPT !.at = "send_close", !.fd = f, !.i = i, !.from = c]
                         IN  /\ q.at = "send_close" /\ q.fd = f /\ q.i = i /\ q.from = c
                             /\ q.sock = r.sock /\ q.to = r.to /\ q.reached = r.reached
         /\ LET q == [r EXCEPT !.at = "start_timeout"]
            IN  /\ q.at = "start_timeout" /\ q.fd = r.fd /\ q.i = r.i /\ q.from = r.from
                /\ q.sock = r.sock /\ q.to = r.to /\ q.reached = r.reached
         /\ \A f, c : LET q == [r EXCEPT !.at = "sent", !.fd = f, !.from = c]
                      IN  /\ q.at = "sent" /\ q.fd = f /\ q.from = c
                          /\ q.port = r.port /\ q.sock = r.sock /\ q.to = r.to
                          /\ q.reached = r.reached
         /\ LET q == [r EXCEPT !.at = "broadcast", !.i = 1]
            IN  /\ q.at = "broadcast" /\ q.i = 1 /\ q.fd = r.fd /\ q.from = r.from
                /\ q.port = r.port /\ q.sock = r.sock /\ q.to = r.to /\ q.reached = r.reached
         /\ \A p : LET q == [r EXCEPT !.at = "broadcast", !.i = 1, !.port = p]
                   IN  /\ q.at = "broadcast" /\ q.i = 1 /\ q.fd = r.fd /\ q.from = r.from
                       /\ q.port = p /\ q.sock = r.sock /\ q.to = r.to /\ q.reached = r.reached
         /\ \A f, c : LET q == [r EXCEPT !.sock = f, !.to = c]
                      IN  /\ q.at = r.at /\ q.i = r.i /\ q.fd = r.fd /\ q.from = r.from
                          /\ q.port = r.port /\ q.sock = f /\ q.to = c /\ q.reached = r.reached
         /\ \A i : LET q == [r EXCEPT !.i = i]
                   IN  /\ q.at = r.at /\ q.i = i /\ q.fd = r.fd /\ q.from = r.from
                       /\ q.port = r.port /\ q.sock = r.sock /\ q.to = r.to /\ q.reached = r.reached
         /\ \A i, S : LET q == [r EXCEPT !.i = i, !.sock = NoFd, !.to = NoConn, !.reached = S]
                      IN  /\ q.at = r.at /\ q.i = i /\ q.fd = r.fd /\ q.from = r.from
                          /\ q.port = r.port /\ q.sock = NoFd /\ q.to = NoConn /\ q.reached = S
BY DEF CallerType

\* A connection that is in the table has no descriptor but the one there.
LEMMA TenantFd ==
  ASSUME IInv, NEW j \in Slots, InTable(j), tenant[j] \in Unmixed
  PROVE  /\ \A f \in Fds : owner[f] = tenant[j] => f = slot[j].client_sock
         /\ owner[slot[j].client_sock] \in {tenant[j], NoConn}
<1>1. PICK d \in Conns : d = tenant[j]
  BY DEF Unmixed
<1>2. Own(d) /\ idx[d] = j /\ FdMeant(d) /\ SlotMeant(d)
  BY <1>1 DEF IInv, TenantInv, Own, ConnInv
<1>3. pc[d] \in Serving /\ pc[d] # "accepted" /\ pc[d] \notin Ending
  BY <1>2, Steps DEF SlotMeant
<1>. QED BY <1>1, <1>2, <1>3 DEF FdMeant, SlotMeant

\* get_client_index finds the slot and the connection of a descriptor.
LEMMA CloseClientInv ==
  ASSUME IInv, TypeInv', NEW k \in Callers, NEW f, CloseClient(k, f)
  PROVE  IInv'
<1>. USE DEF IInv
<1>1. PICK j \in Slots :
        /\ slot[j].client_sock = f
        /\ Sets(k, [Idle EXCEPT !.at = "send_close", !.fd = f, !.i = j, !.from = tenant[j]])
  BY DEF CloseClient
<1>. DEFINE q == [Idle EXCEPT !.at = "send_close", !.fd = f, !.i = j, !.from = tenant[j]]
<1>2. /\ q.at = "send_close" /\ q.fd = f /\ q.i = j /\ q.from = tenant[j]
      /\ q.sock = NoFd /\ q.to = NoConn /\ q.reached = {}
  BY ValuesTyped, CallSets DEF Idle
<1>3. Sets(k, q) /\ UNCHANGED <<table, kernel, thread, tout, mixed>>
  BY <1>1 DEF CloseClient
<1>. HIDE DEF q
<1>4. NoConn \notin Conns /\ Unmixed \subseteq Conns
  BY NoConnAssumption DEF Unmixed
<1>5. tenant[j] \in Conns => Seated(tenant[j]) /\ pc[tenant[j]] # "new" /\ pc[tenant[j]] # "accepted"
                             /\ idx[tenant[j]] = j
  BY Steps DEF TenantInv, Seated
<1>6. f \in Fds => tenant[j] \in Conns
  BY <1>1, ValuesTyped DEF TableInv, InTable
<1>7. Means(q)
  BY <1>2, <1>4, <1>5, <1>6 DEF Means
<1>8. FdsMeant(q)
  BY <1>1, <1>2, <1>4, TenantFd, ValuesTyped DEF FdsMeant, InTable
<1>9. PortsMeant(q) /\ Stays(q) /\ Passed(q) /\ ClosesTenant(q)
  BY <1>2, <1>5 DEF PortsMeant, Stays, Passed, ClosesTenant
<1>. QED BY <1>3, <1>7, <1>8, <1>9, CallInv

\* The CLOSE frame is sent, or is not.
LEMMA SendCloseFrameInv ==
  ASSUME IInv, TypeInv', NEW k \in Callers, SendCloseFrame(k)
  PROVE  IInv'
<1>. USE DEF IInv
<1>. DEFINE r == caller[k]
            q == [r EXCEPT !.at = "start_timeout"]
<1>1. /\ r \in CallerType /\ r.at = "send_close"
      /\ Means(r) /\ FdsMeant(r)
      /\ UNCHANGED <<table, kernel, thread, tout, mixed>>
  BY DEF SendCloseFrame, TypeInv, Typed, TypeOK, CallerInv, CallerFds
<1>2. CASE Sets(k, Idle)
  BY <1>1, <1>2, IdleMeans, CallInv
<1>3. CASE Peer(r.fd) # NoConn /\ Sets(k, q)
  <2>1. /\ q.at = "start_timeout" /\ q.fd = r.fd /\ q.i = r.i /\ q.from = r.from
        /\ q.sock = r.sock /\ q.to = r.to /\ q.reached = r.reached
    BY <1>1, CallSets
  <2>2. r.from \in Conns => Uses(r.from)
    BY <1>1 DEF Uses
  <2>. HIDE DEF q, r
  <2>3. r.fd \in Fds
    BY <1>3 DEF Peer
  <2>4. Means(q)
    BY <1>1, <2>1, <2>3 DEF Means
  <2>5. FdsMeant(q) /\ PortsMeant(q) /\ Stays(q) /\ Passed(q) /\ ClosesTenant(q)
    BY <1>1, <2>1, <2>2 DEF Means, FdsMeant, PortsMeant, Stays, Passed, ClosesTenant
  <2>. QED BY <1>1, <1>3, <2>4, <2>5, CallInv
<1>. QED BY <1>2, <1>3 DEF SendCloseFrame

\* A broadcast begins with the frame for the client it was asked for.
LEMMA SendFrameInv ==
  ASSUME IInv, TypeInv', NEW k \in Callers, NEW f, SendFrame(k, f)
  PROVE  IInv'
<1>. USE DEF IInv
<1>. DEFINE q == [Idle EXCEPT !.at = "sent", !.fd = f, !.from = Peer(f)]
<1>1. /\ q.at = "sent" /\ q.fd = f /\ q.from = Peer(f)
      /\ q.port = NoPort /\ q.sock = NoFd /\ q.to = NoConn /\ q.reached = {}
  BY ValuesTyped, CallSets DEF Idle
<1>2. Sets(k, q) /\ UNCHANGED <<table, kernel, thread, tout, mixed>>
  BY DEF SendFrame
<1>. HIDE DEF q
<1>3. f \in Fds /\ q.from = owner[f] /\ owner[f] \in Conns /\ pc[owner[f]] # "new"
  BY <1>1 DEF SendFrame, Peer, TypeInv, Typed, TypeOK, Accepted
<1>4. NoConn \notin Conns /\ NoConn \notin Unmixed
  BY NoConnAssumption DEF Unmixed
<1>5. Means(q)
  BY <1>1, <1>3, <1>4 DEF Means
<1>6. FdsMeant(q)
  <2>1. owner[f] \in Unmixed => \A g \in Fds : owner[g] = owner[f] => g = f
    BY <1>3 DEF ConnInv, FdMeant
  <2>. QED BY <1>1, <1>3, <1>4, <2>1 DEF FdsMeant, FdsApart
<1>7. PortsMeant(q) /\ Stays(q) /\ Passed(q) /\ ClosesTenant(q)
  BY <1>1 DEF PortsMeant, Stays, Passed, ClosesTenant
<1>. QED BY <1>2, <1>5, <1>6, <1>7, CallInv

\* The port of the client is looked up; its descriptor may be closed by now, but
\* nobody else has the number.
LEMMA LockTableInv ==
  ASSUME IInv, TypeInv', NEW k \in Callers, LockTable(k)
  PROVE  IInv'
<1>. USE DEF IInv
<1>. DEFINE r == caller[k]
<1>1. /\ r \in CallerType /\ r.at = "sent"
      /\ Means(r) /\ FdsMeant(r)
      /\ UNCHANGED <<table, kernel, thread, tout, mixed>>
  BY DEF LockTable, TypeInv, Typed, TypeOK, CallerInv, CallerFds
<1>2. PICK q :
        /\ Sets(k, q)
        /\ \/ q = [r EXCEPT !.at = "broadcast", !.i = 1]
           \/ \E j \in Slots : /\ slot[j].client_sock = r.fd
                               /\ q = [r EXCEPT !.at = "broadcast", !.i = 1,
                                                !.port = slot[j].port_index]
  BY DEF LockTable
<1>3. /\ q.at = "broadcast" /\ q.i = 1 /\ q.fd = r.fd /\ q.from = r.from
      /\ q.sock = r.sock /\ q.to = r.to /\ q.reached = r.reached
      /\ \/ q.port = r.port
         \/ \E j \in Slots : slot[j].client_sock = r.fd /\ q.port = slot[j].port_index
  <2>1. CASE q = [r EXCEPT !.at = "broadcast", !.i = 1]
    BY <1>1, <2>1, CallSets
  <2>2. ASSUME NEW j \in Slots, slot[j].client_sock = r.fd,
               q = [r EXCEPT !.at = "broadcast", !.i = 1, !.port = slot[j].port_index]
        PROVE  /\ q.at = "broadcast" /\ q.i = 1 /\ q.fd = r.fd /\ q.from = r.from
               /\ q.sock = r.sock /\ q.to = r.to /\ q.reached = r.reached
               /\ q.port = slot[j].port_index
    <3>. DEFINE p == slot[j].port_index
    <3>. HIDE DEF p
    <3>. QED BY <1>1, <2>2, CallSets DEF p
  <2>. QED BY <1>2, <2>1, <2>2
<1>. HIDE DEF r
<1>4. /\ r.fd \in Fds /\ r.from \in Conns /\ r.sock = NoFd /\ r.reached = {} /\ r.port = NoPort
  BY <1>1 DEF Means
<1>5. ASSUME r.from \in Unmixed PROVE q.port \in {NoPort, port[r.from]}
  <2>1. CASE q.port = r.port
    BY <1>4, <2>1
  <2>2. ASSUME NEW j \in Slots, slot[j].client_sock = r.fd, q.port = slot[j].port_index
        PROVE  q.port = port[r.from]
    <3>1. tenant[j] \in Conns /\ HasNumber(tenant[j], r.fd)
      BY <1>4, <2>2, ValuesTyped DEF TableInv, InTable, HasNumber
    <3>2. tenant[j] = r.from
      BY <1>1, <1>5, <3>1 DEF FdsMeant
    <3>. QED BY <1>4, <2>2, <3>2 DEF TenantInv
  <2>. QED BY <1>3, <2>1, <2>2
<1>6. Means(q) /\ FdsMeant(q)
  BY <1>1, <1>3, <1>4 DEF Means, FdsMeant
<1>7. PortsMeant(q)
  BY <1>3, <1>4, <1>5, ValuesTyped DEF PortsMeant
<1>8. Stays(q) /\ Passed(q) /\ ClosesTenant(q)
  BY <1>3, <1>4 DEF Stays, Passed, ClosesTenant, Slots
<1>. QED BY <1>1, <1>2, <1>6, <1>7, <1>8, CallInv

\* A slot is looked at: it is passed if it is that of the sender, of another
\* port or free.
LEMMA NextClientInv ==
  ASSUME IInv, TypeInv', NEW k \in Callers, NextClient(k)
  PROVE  IInv'
<1>. USE DEF IInv
<1>. DEFINE r == caller[k]
            i == r.i
            s == slot[i].client_sock
            Found == s # NoFd /\ s # r.fd /\ slot[i].port_index = r.port
<1>1. /\ r \in CallerType /\ r.at = "broadcast" /\ r.sock = NoFd /\ i \in Slots
      /\ Means(r) /\ FdsMeant(r) /\ PortsMeant(r) /\ Stays(r) /\ Passed(r)
      /\ UNCHANGED <<table, kernel, thread, tout, mixed>>
  BY DEF NextClient, Looping, TypeInv, Typed, TypeOK, CallerInv, CallerFds, PortInv,
     BroadcastStaysOnPort, BroadcastReachesAll, Stays, Passed
<1>2. s # NoFd => /\ s \in Fds /\ tenant[i] \in Conns
                  /\ HasNumber(tenant[i], s) /\ pc[tenant[i]] # "new"
                  /\ slot[i].port_index = port[tenant[i]]
                  /\ slot[i].port_index \in Ports
  BY <1>1, Steps DEF TableInv, TenantInv, Seated, InTable, HasNumber, TypeInv, Typed, TypeOK
<1>3. CASE Found
  <2>. DEFINE q == [r EXCEPT !.sock = s, !.to = tenant[i]]
  <2>1. /\ q.at = r.at /\ q.i = i /\ q.fd = r.fd /\ q.from = r.from
        /\ q.port = r.port /\ q.sock = s /\ q.to = tenant[i] /\ q.reached = r.reached
    BY <1>1, CallSets
  <2>2. Sets(k, q)
    BY <1>3 DEF NextClient
  <2>. HIDE DEF q, r
  <2>3. Means(q)
    BY <1>1, <1>2, <1>3, <2>1, Steps DEF Means
  <2>4. FdsMeant(q)
    BY <1>1, <1>2, <1>3, <2>1, TenantFd DEF FdsMeant, InTable
  <2>5. PortsMeant(q)
    <3>. SUFFICES ASSUME r.from \in Unmixed
                  PROVE  /\ r.port \in {NoPort, port[r.from]}
                         /\ r.port # NoPort
                         /\ owner[s] \in Unmixed => owner[s] # r.from /\ port[owner[s]] = r.port
      BY <2>1 DEF PortsMeant
    <3>1. r.port \in {NoPort, port[r.from]} /\ r.port # NoPort
      BY <1>1, <1>2, <1>3, ValuesTyped DEF PortsMeant
    <3>2. ASSUME owner[s] \in Unmixed PROVE owner[s] # r.from /\ port[owner[s]] = r.port
      <4>1. tenant[i] = owner[s]
        BY <1>2, <1>3, <3>2, Steps DEF FdsApart
      <4>2. owner[s] # r.from
        BY <1>1, <1>2, <1>3 DEF FdsMeant, Means
      <4>. QED BY <1>2, <1>3, <4>1, <4>2
    <3>. QED BY <3>1, <3>2
  <2>6. Stays(q) /\ Passed(q) /\ ClosesTenant(q)
    BY <1>1, <2>1 DEF Stays, Passed, ClosesTenant
  <2>. QED BY <1>1, <2>2, <2>3, <2>4, <2>5, <2>6, CallInv
<1>4. CASE ~ Found
  <2>. DEFINE q == [r EXCEPT !.i = i + 1]
  <2>1. /\ q.at = r.at /\ q.i = i + 1 /\ q.fd = r.fd /\ q.from = r.from
        /\ q.port = r.port /\ q.sock = r.sock /\ q.to = r.to /\ q.reached = r.reached
    BY <1>1, CallSets
  <2>2. Sets(k, q)
    BY <1>4 DEF NextClient
  <2>. HIDE DEF q, r
  <2>3. Means(q) /\ FdsMeant(q) /\ PortsMeant(q) /\ Stays(q) /\ ClosesTenant(q)
    BY <1>1, <2>1 DEF Means, FdsMeant, PortsMeant, Stays, ClosesTenant
  <2>4. Passed(q)
    <3>. SUFFICES ASSUME r.from \in Unmixed, NEW j \in Slots, j < i + 1, InTable(j),
                         tenant[j] \in Unmixed \ {r.from}, slot[j].port_index = r.port
                  PROVE  tenant[j] \in r.reached
      BY <2>1 DEF Passed
    <3>1. CASE j = i
      <4>1. s # NoFd /\ s = r.fd
        BY <1>4, <3>1 DEF InTable
      <4>2. tenant[i] = r.from
        BY <1>1, <1>2, <4>1, Steps DEF FdsMeant
      <4>. QED BY <3>1, <4>2
    <3>2. CASE j # i
      <4>1. j < i
        BY <1>1, <3>2 DEF Slots
      <4>. QED BY <1>1, <4>1 DEF Passed
    <3>. QED BY <3>1, <3>2
  <2>. QED BY <1>1, <2>2, <2>3, <2>4, CallInv
<1>. QED BY <1>3, <1>4

\* A client is sent the frame, or the broadcast ends.
LEMMA SendToClientInv ==
  ASSUME IInv, TypeInv', NEW k \in Callers, SendToClient(k)
  PROVE  IInv'
<1>. USE DEF IInv
<1>. DEFINE r == caller[k]
            i == r.i
            d == Peer(r.sock)
            q == [r EXCEPT !.i = i + 1, !.sock = NoFd, !.to = NoConn, !.reached = r.reached \cup {d}]
<1>1. /\ r \in CallerType /\ r.at = "broadcast" /\ r.sock # NoFd /\ i \in Slots
      /\ Means(r) /\ FdsMeant(r) /\ PortsMeant(r) /\ Stays(r) /\ Passed(r)
      /\ UNCHANGED <<table, kernel, thread, tout, mixed>>
  BY DEF SendToClient, TypeInv, Typed, TypeOK, AtWork, CallerInv, CallerFds, PortInv,
     BroadcastStaysOnPort, BroadcastReachesAll, Stays, Passed
<1>2. CASE Sets(k, Idle)
  BY <1>1, <1>2, IdleMeans, CallInv
<1>3. CASE d # NoConn /\ Sets(k, q)
  <2>1. /\ q.at = r.at /\ q.i = i + 1 /\ q.fd = r.fd /\ q.from = r.from
        /\ q.port = r.port /\ q.sock = NoFd /\ q.to = NoConn /\ q.reached = r.reached \cup {d}
    BY <1>1, CallSets
  <2>2. r.sock \in Fds /\ d = owner[r.sock] /\ d \in Conns /\ pc[d] # "new"
    BY <1>3 DEF Peer, TypeInv, Typed, TypeOK, Accepted
  <2>3. NoConn \notin Conns /\ NoConn \notin Unmixed
    BY NoConnAssumption DEF Unmixed
  <2>. HIDE DEF q, r, d
  <2>4. Means(q)
    BY <1>1, <2>1, <2>2, <2>3 DEF Means
  <2>5. FdsMeant(q)
    BY <1>1, <2>1, <2>3 DEF FdsMeant
  <2>6. PortsMeant(q) /\ ClosesTenant(q)
    BY <1>1, <2>1, ValuesTyped DEF PortsMeant, ClosesTenant
  <2>7. Stays(q)
    BY <1>1, <2>1, <2>2 DEF Stays, PortsMeant
  <2>8. Passed(q)
    <3>. SUFFICES ASSUME r.from \in Unmixed, NEW j \in Slots, j < i + 1, InTable(j),
                         tenant[j] \in Unmixed \ {r.from}, slot[j].port_index = r.port
                  PROVE  tenant[j] \in r.reached \cup {d}
      BY <2>1 DEF Passed
    <3>1. CASE j = i
      <4>1. slot[i].client_sock = r.sock
        BY <1>1, <3>1 DEF Means
      <4>. QED BY <1>1, <1>3, <2>2, <3>1, <4>1, TenantFd
    <3>2. CASE j # i
      <4>1. j < i
        BY <1>1, <3>2 DEF Slots
      <4>. QED BY <1>1, <4>1 DEF Passed
    <3>. QED BY <3>1, <3>2
  <2>. QED BY <1>1, <1>3, <2>4, <2>5, <2>6, <2>7, <2>8, CallInv
<1>. QED BY <1>2, <1>3 DEF SendToClient

\* A time-out thread is started for the connection in the slot. Its client thread
\* has not come to the join: the state is OPEN.
LEMMA StartCloseTimeoutInv ==
  ASSUME IInv, TypeInv', NEW k \in Callers, StartCloseTimeout(k)
  PROVE  IInv'
<1>. USE DEF IInv
<1>. DEFINE i == caller[k].i
<1>1. /\ caller[k].at = "start_timeout" /\ Sets(k, Idle) /\ i \notin locked
      /\ UNCHANGED <<ready, locked, tenant, owner, port_index, pc, sock, port, idx, clse_thrd, mixed>>
  BY DEF StartCloseTimeout, Unlocked, mutexes, kernel, thread, locals
<1>2. CASE slot[i].state # OPEN
  BY <1>1, <1>2, IdleMeans, CallInv DEF StartCloseTimeout, table, kernel, thread
<1>3. CASE slot[i].state = OPEN
  <2>0. i \in Slots /\ tenant[i] \in Conns
    <3>1. /\ caller[k].from \in Conns /\ Seated(caller[k].from) /\ i = idx[caller[k].from]
      BY <1>1 DEF CallerInv, Means
    <3>. QED BY <3>1 DEF SeatInv
  <2>t. PICK t \in Conns : t = tenant[i]
    BY <2>0
  <2>1. /\ i \in Slots /\ t \in Conns /\ t = tenant[i]
        /\ idx[t] = i /\ Seated(t) /\ pc[t] # "new"
        /\ OPEN # CLOSED /\ CLOSING # CLOSED /\ CLOSING # -1
        /\ OPEN # CONNECTING /\ CLOSING \notin {CONNECTING, OPEN}
    BY <2>0, <2>t, Steps DEF TenantInv, Seated, CONNECTING, OPEN, CLOSING, CLOSED
  <2>2. /\ tout' = [tout EXCEPT ![t] = "waiting"]
        /\ slot' = [slot EXCEPT ![i].state = CLOSING, ![i].close_thrd = TRUE, ![i].thrd_tout = t]
    BY <1>3, <2>t DEF StartCloseTimeout
  <2>3. /\ slot'[i].client_sock = slot[i].client_sock /\ slot'[i].port_index = slot[i].port_index
        /\ slot'[i].state = CLOSING /\ slot'[i].close_thrd /\ slot'[i].thrd_tout = t
        /\ \A j \in Slots \ {i} : slot'[j] = slot[j]
    <3>1. slot \in [Slots -> SlotType]
      BY DEF TypeInv, Typed, TypeOK, SlotType
    <3>2. Becomes(i, slot[i].client_sock, slot[i].port_index, CLOSING, TRUE, t)
      BY <2>1, <2>2, <3>1, EntryTimed, NumbersTyped
    <3>. QED BY <3>2 DEF Becomes
  <2>4. /\ tout'[t] = "waiting"
        /\ \A d \in Conns \ {t} : tout'[d] = tout[d]
        /\ caller'[k] = Idle
        /\ \A m \in Callers : m # k => caller'[m] = caller[m]
    <3>1. tout \in [Conns -> Timing \cup {"none", "fired", "quit"}]
          /\ caller \in [Callers -> CallerType]
      BY DEF TypeInv, Typed, TypeOK
    <3>2. /\ tout'[t] = "waiting"
          /\ \A d \in Conns \ {t} : tout'[d] = tout[d]
      BY <2>1, <2>2, <3>1
    <3>3. /\ caller'[k] = Idle
          /\ \A m \in Callers : m # k => caller'[m] = caller[m]
      BY <1>1, <3>1 DEF Sets
    <3>. QED BY <3>2, <3>3
  <2>5. /\ \A d \in Conns : Seated(d)' <=> Seated(d)
        /\ \A d \in Conns : Own(d)' <=> Own(d)
        /\ \A d \in Conns : Uses(d)' => Uses(d) \/ d = t
        /\ Unmixed' = Unmixed /\ Unmixed \subseteq Conns
        /\ \A j \in Slots : slot'[j].client_sock = slot[j].client_sock
        /\ \A j \in Slots : slot'[j].port_index = slot[j].port_index
        /\ \A j \in Slots : InTable(j)' <=> InTable(j)
        /\ \A d \in Conns : \A f : HasNumber(d, f)' <=> HasNumber(d, f)
    BY <1>1, <2>3, <2>4, ValuesTyped DEF Seated, Own, Uses, Unmixed, InTable, HasNumber
  <2>6. SeatInv'
    BY <1>1, <2>1, <2>4, <2>5 DEF SeatInv
  <2>7. TenantInv' /\ TableInv'
    BY <1>1, <2>1, <2>3, <2>5 DEF TenantInv, TableInv
  <2>8. CallerInv'
    <3>1. \A m \in Callers : caller[m].sock # NoFd => caller[m].i \in Slots
      BY DEF TypeInv, Typed, AtWork
    <3>2. ASSUME NEW m \in Callers, m # k PROVE Means(caller[m])'
      BY <1>1, <2>4, <2>5, <3>1, <3>2 DEF CallerInv, Means
    <3>3. Means(caller[k])'
      BY <1>1, <2>4, IdleMeans, ValuesTyped, NoConnAssumption DEF Means, Idle
    <3>. QED BY <3>2, <3>3 DEF CallerInv
  <2>9. SeatsApart'
    BY <1>1, <2>1, <2>5 DEF SeatsApart, Own
  <2>10. FdsApart'
    BY <1>1, <2>5 DEF FdsApart
  <2>11. t \in Unmixed => /\ SlotMeant(t) /\ MutexMeant(t)
                          /\ tout[t] = "none"
                          /\ pc[t] \notin Ending
                          /\ pc[t] \notin {"set_closed", "join", "destroy", "done"}
                          /\ pc[t] \notin {"start", "handshake", "set_open"}
    BY <1>1, <1>3, <2>1 DEF ConnInv, Own, SlotMeant, MutexMeant
  <2>12. ConnInv'
    <3>1. ASSUME NEW d \in Unmixed PROVE FdMeant(d)'
      <4>1. FdMeant(d) /\ d \in Conns
        BY <2>5, <3>1 DEF ConnInv
      <4>2. pc[d] \in Serving => idx[d] \in Slots
        BY <4>1, Steps, Mine DEF Uses
      <4>3. pc[d] \in Ending => tout'[d] = tout[d]
        BY <2>4, <2>11, <3>1, <4>1
      <4>. QED BY <1>1, <2>5, <4>1, <4>2, <4>3 DEF FdMeant
    <3>2. ASSUME NEW d \in Unmixed, Own(d), d # t PROVE SlotMeant(d)' /\ MutexMeant(d)'
      <4>1. /\ SlotMeant(d) /\ MutexMeant(d) /\ d \in Conns
            /\ tout'[d] = tout[d] /\ idx[d] \in Slots /\ idx[d] # i
        BY <2>1, <2>4, <2>5, <3>2 DEF ConnInv, Own, SeatInv
      <4>2. slot'[idx[d]] = slot[idx[d]]
        BY <2>3, <4>1
      <4>. QED BY <1>1, <4>1, <4>2 DEF SlotMeant, MutexMeant, InTable
    <3>3. ASSUME t \in Unmixed PROVE SlotMeant(t)' /\ MutexMeant(t)'
      <4>1. SlotMeant(t)'
        BY <1>1, <2>1, <2>3, <2>4, <2>11, <3>3 DEF SlotMeant, InTable
      <4>2. MutexMeant(t)'
        BY <1>1, <2>1, <2>4, <2>11, <3>3 DEF MutexMeant
      <4>. QED BY <4>1, <4>2
    <3>. QED BY <2>5, <3>1, <3>2, <3>3 DEF ConnInv
  <2>13. MutexAlive'
    <3>1. t \in Unmixed => pc[t] \in WithSlot
      BY <2>1, <2>11 DEF Seated
    <3>. QED BY <1>1, <2>4, <2>5, <3>1 DEF MutexAlive
  <2>14. CallerFds' /\ PortInv'
    <3>1. NoConn \notin Unmixed /\ Idle.from = NoConn /\ Idle.to = NoConn
      BY NoConnAssumption DEF Unmixed, Idle
    <3>2. \A m \in Callers : caller[m].at \in {"sent", "broadcast"} => caller[m].fd \in Fds
      BY DEF CallerInv, Means
    <3>. QED BY <1>1, <2>4, <2>5, <3>1, <3>2 DEF CallerFds, FdsMeant, PortInv, PortsMeant
  <2>15. BroadcastStaysOnPort' /\ BroadcastReachesAll'
    BY <1>1, <2>4, <2>5, ValuesTyped DEF BroadcastStaysOnPort, BroadcastReachesAll, Idle
  <2>. QED BY <2>6, <2>7, <2>8, <2>9, <2>10, <2>12, <2>13, <2>14, <2>15
<1>. QED BY <1>2, <1>3

\* Every step of a program that opens its ports first keeps the invariant.
LEMMA NextInv ==
  ASSUME LatePorts = FALSE
  PROVE  IInv /\ [Next]_vars => IInv'
<1>. SUFFICES ASSUME IInv, [Next]_vars PROVE IInv'
  OBVIOUS
<1>1. TypeInv'
  BY NextTyped DEF IInv
<1>2. CASE UNCHANGED vars
  <2>1. UNCHANGED <<slot, ready, locked, tenant, owner, port_index, pc, sock, port, idx, clse_thrd, tout,
                    caller, mixed>>
    BY <1>2 DEF vars, table, mutexes, kernel, thread, locals
  <2>2. SeatInv' /\ TenantInv' /\ TableInv'
    BY <2>1 DEF IInv, SeatInv, TenantInv, TableInv, Seated, InTable
  <2>3. CallerInv' /\ SeatsApart'
    BY <2>1 DEF IInv, CallerInv, Means, SeatsApart, Uses, Seated, Own, InTable, Unmixed
  <2>4. FdsApart' /\ MutexAlive'
    BY <2>1 DEF IInv, FdsApart, HasNumber, MutexAlive, Unmixed
  <2>5. ConnInv'
    BY <2>1 DEF IInv, ConnInv, FdMeant, SlotMeant, MutexMeant, Own, Seated, InTable, Unmixed
  <2>6. CallerFds' /\ PortInv'
    BY <2>1 DEF IInv, CallerFds, FdsMeant, HasNumber, PortInv, PortsMeant, Unmixed
  <2>7. BroadcastStaysOnPort' /\ BroadcastReachesAll'
    BY <2>1 DEF IInv, BroadcastStaysOnPort, BroadcastReachesAll, InTable, Unmixed
  <2>. QED BY <1>1, <2>2, <2>3, <2>4, <2>5, <2>6, <2>7 DEF IInv
<1>3. CASE Listen
  BY <1>1, <1>3, ListenInv
<1>s. /\ {"handshake", "set_open", "closed", "read", "got_close", "set_closing"} \subseteq Serving
      /\ \A x \in {"closed", "read", "got_close", "set_closing"} : x \notin {"start", "handshake", "set_open"}
  BY DEF Serving, Active, Ending, WithSock, Running
<1>4. ASSUME NEW c \in Conns, Client(c) PROVE IInv'
  <2>1. \A p \in Ports : Accept(c, p) => IInv'
    BY <1>1, AcceptInv
  <2>2. Handshake(c) => IInv'
    BY <1>1, <1>s, MovesInv DEF Handshake
  <2>3. HandshakeFails(c) \/ RecvClose(c) \/ RecvFails(c) => IInv'
    BY <1>1, <1>s, MovesInv DEF HandshakeFails, RecvClose, RecvFails
  <2>. QED BY <1>4, <2>1, <2>2, <2>3 DEF Client
<1>5. ASSUME NEW c \in Conns, AcceptThread(c) PROVE IInv'
  BY <1>1, <1>5, AddToTableInv, RefuseInv DEF AcceptThread
<1>6. ASSUME NEW c \in Conns, ClientThread(c) PROVE IInv'
  <2>1. RecvOnClosed(c) \/ GetState(c) => IInv'
    BY <1>1, <1>s, MovesInv DEF RecvOnClosed, GetState
  <2>2. SetOpen(c) => IInv'
    BY <1>1, StateInv DEF SetOpen
  <2>3. SetClosing(c) => IInv'
    BY <1>1, StateInv DEF SetClosing
  <2>4. SetClosed(c) => IInv'
    BY <1>1, StateInv DEF SetClosed
  <2>. QED
    BY <1>1, <1>6, <2>1, <2>2, <2>3, <2>4, StartThreadInv, AlreadyClosedInv, EmptySlotInv,
       CloseSocketInv, JoinInv, DestroyInv
       DEF ClientThread
<1>7. ASSUME NEW c \in Conns, Timeout(c) PROVE IInv'
  BY <1>1, <1>7, TimeoutQuitsInv, TimeoutFiresInv, TimeoutEmptiesSlotInv, TimeoutSetsClosedInv
     DEF Timeout
<1>8. ASSUME NEW k \in Callers, Call(k) PROVE IInv'
  BY <1>1, <1>8, CloseClientInv, SendFrameInv DEF Call
<1>9. ASSUME NEW k \in Callers, Caller(k) PROVE IInv'
  <2>1. EndBroadcast(k) => IInv'
    BY <1>1, IdleMeans, CallInv DEF EndBroadcast
  <2>. QED
    BY <1>1, <1>9, <2>1, SendCloseFrameInv, StartCloseTimeoutInv, LockTableInv, NextClientInv,
       SendToClientInv
       DEF Caller
<1>. QED BY <1>2, <1>3, <1>4, <1>5, <1>6, <1>7, <1>8, <1>9 DEF Next

\* The inductive invariant holds in every state of such a program.
LEMMA Invariance == ASSUME LatePorts = FALSE PROVE Spec => []IInv
<1>1. Init => IInv
  BY InitInv
<1>2. IInv /\ [Next]_vars => IInv'
  BY NextInv
<1>. QED BY <1>1, <1>2, PTL DEF Spec

----------------------------------------------------------------------------
(* What follows *)

\* Nobody locks or waits on a mutex of ws.c that is not initialised or already
\* destroyed: the join comes first, however the time-outs and the calls fall.
THEOREM MutexesAlive == ASSUME LatePorts = FALSE PROVE Spec => []MutexAlive
<1>1. IInv => MutexAlive
  BY DEF IInv
<1>. QED BY <1>1, Invariance, PTL

\* No descriptor leaks and no entry of the table stays dead, whoever of client
\* thread and time-out thread closes the connection: outside the critical section
\* of the slot the table and the open descriptors agree, and inside they differ
\* only as the order of the three stores of ws.c says.
THEOREM SlotsHoldDescriptors == ASSUME LatePorts = FALSE PROVE Spec => []SlotHoldsDescriptor
<1>1. ASSUME IInv PROVE SlotHoldsDescriptor
  <2>1. ASSUME NEW c \in Unmixed, pc[c] \in WithSlot
        PROVE  CASE tout[c] = "fd_closed" -> InTable(idx[c]) /\ ~ HasFd(c)
                 [] pc[c] \in {"emptied", "set_closed"} ->
                      ~ InTable(idx[c]) /\ (HasFd(c) <=> tout[c] # "fired")
                 [] OTHER -> HasFd(c) <=> InTable(idx[c])
    <3>1. /\ c \in Conns /\ c # NoConn /\ Uses(c)
          /\ FdMeant(c) /\ SlotMeant(c) /\ MutexMeant(c) /\ idx[c] \in Slots
      BY <1>1, <2>1, Mine, NoConnAssumption DEF Unmixed, Uses
    <3>2. InTable(idx[c]) => slot[idx[c]].client_sock \in Fds
      BY <1>1, <3>1 DEF IInv, TypeInv, Typed, TypeOK, InTable
    <3>3. "accepted" \notin WithSlot /\ Serving \cap Ending = {} /\ Ending = {"emptied", "set_closed"}
      BY Steps DEF Ending
    <3>4. CASE tout[c] = "fd_closed"
      <4>1. pc[c] \in Serving
        BY <3>1, <3>4 DEF MutexMeant
      <4>2. InTable(idx[c]) /\ owner[slot[idx[c]].client_sock] = NoConn
        BY <3>1, <3>4, <4>1 DEF SlotMeant
      <4>3. ~ HasFd(c)
        BY <2>1, <3>1, <3>3, <4>1, <4>2 DEF FdMeant, HasFd
      <4>. QED BY <3>3, <3>4, <4>1, <4>2, <4>3
    <3>5. CASE tout[c] # "fd_closed" /\ pc[c] \in {"emptied", "set_closed"}
      <4>1. ~ InTable(idx[c])
        BY <3>1, <3>3, <3>5 DEF SlotMeant
      <4>2. HasFd(c) <=> tout[c] # "fired"
        BY <2>1, <3>1, <3>3, <3>5 DEF FdMeant, HasFd
      <4>. QED BY <3>5, <4>1, <4>2
    <3>6. CASE tout[c] # "fd_closed" /\ pc[c] \notin {"emptied", "set_closed"}
      <4>1. InTable(idx[c]) => HasFd(c)
        BY <3>1, <3>2, <3>6 DEF SlotMeant, HasFd
      <4>2. HasFd(c) => InTable(idx[c])
        BY <2>1, <3>1, <3>3, <3>6, ValuesTyped DEF FdMeant, HasFd, InTable
      <4>. QED BY <3>6, <4>1, <4>2
    <3>. QED BY <3>4, <3>5, <3>6
  <2>2. ASSUME NEW c \in Unmixed, pc[c] \in {"join", "destroy", "done", "refused"} PROVE ~ HasFd(c)
    <3>1. FdMeant(c)
      BY <1>1 DEF IInv, ConnInv
    <3>2. pc[c] \notin Serving \cup Ending \cup {"accepted"}
      BY <2>2, Steps DEF Ending
    <3>. QED BY <3>1, <3>2 DEF FdMeant, HasFd
  <2>. QED BY <2>1, <2>2 DEF SlotHoldsDescriptor
<1>2. IInv => SlotHoldsDescriptor
  BY <1>1
<1>. QED BY <1>2, Invariance, PTL

\* A broadcast of ws_sendframe reaches the clients of its port that are in the
\* table and stay there, those whose handshake has not ended included, and
\* nobody else, with clients coming and going meanwhile.
THEOREM BroadcastsReachPort == ASSUME LatePorts = FALSE PROVE Spec => []BroadcastReachesPort
<1>1. IInv => BroadcastReachesPort
  BY DEF IInv, BroadcastReachesPort
<1>. QED BY <1>1, Invariance, PTL

\* Nobody is given the descriptor or the slot of a connection before one of its
\* own threads has begun to end it: what is mixed up is new, has lost its
\* descriptor, or is being taken out of the table by its client thread.
THEOREM ServedStayUndisturbed == ASSUME LatePorts = FALSE PROVE Spec => ServedUndisturbed
<1>. DEFINE Undisturbed ==
              \A c \in mixed' \ mixed : \/ pc[c] \in {"new", "accepted", "emptied", "set_closed"}
                                        \/ ~ HasFd(c)
<1>1. ASSUME IInv, [Next]_vars PROVE Undisturbed
  <2>. SUFFICES ASSUME NEW d \in Unmixed, d \in mixed', HasFd(d),
                       pc[d] \notin {"new", "accepted", "emptied", "set_closed"}
                PROVE  FALSE
    <3>1. mixed' \subseteq Conns
      BY <1>1, NextTyped DEF IInv, TypeInv, Typed, TypeOK
    <3>. QED BY <3>1 DEF Unmixed
  <2>1. PICK f \in Fds : owner[f] = d
    BY DEF HasFd
  <2>2. /\ d \in Conns /\ d \notin mixed
        /\ sock[d] = f /\ slot[idx[d]].client_sock = f
    BY <1>1, <2>1 DEF IInv, ConnInv, FdMeant, Ending, Unmixed
  <2>3. ASSUME NEW c \in Conns, NEW users, Mixes(c, users) PROVE d \in users \cup {c}
    BY <2>2, <2>3 DEF Mixes
  <2>4. CASE mixed' = mixed
    BY <2>2, <2>4
  <2>5. ASSUME NEW c \in Conns, NEW p \in Ports, Accept(c, p) PROVE FALSE
    <3>1. PICK g \in Fds : owner[g] = NoConn /\ Mixes(c, FdUsers(g))
      BY <2>5 DEF Accept
    <3>2. d \in FdUsers(g)
      BY <2>3, <2>5, <3>1 DEF Accept, Goto
    <3>3. f # g
      BY <2>1, <2>2, <3>1, NoConnAssumption
    <3>4. ~ HasNumber(d, g)
      BY <1>1, <2>2, <3>3 DEF HasNumber, IInv, TenantInv
    <3>. QED BY <1>1, <2>1, <2>2, <3>2, <3>3, <3>4 DEF FdUsers, IInv, CallerFds, FdsMeant
  <2>6. ASSUME NEW c \in Conns, AddToTable(c) PROVE FALSE
    <3>1. PICK i \in Free : Mixes(c, SlotUsers(i))
      BY <2>6 DEF AddToTable
    <3>2. d \in SlotUsers(i)
      BY <2>3, <2>6, <3>1 DEF AddToTable, Goto
    <3>. QED BY <2>2, <3>1, <3>2, ValuesTyped DEF SlotUsers, Free
  <2>7. CASE \/ Listen \/ UNCHANGED vars
             \/ \E k \in Callers : Call(k) \/ Caller(k)
    BY <2>4, <2>7
       DEF Listen, vars, Call, Caller, CloseClient, SendFrame, SendCloseFrame, StartCloseTimeout,
           LockTable, NextClient, SendToClient, EndBroadcast
  <2>8. ASSUME NEW c \in Conns,
               \/ Refuse(c) \/ ClientThread(c) \/ Timeout(c)
               \/ Handshake(c) \/ HandshakeFails(c) \/ RecvClose(c) \/ RecvFails(c)
        PROVE  FALSE
    BY <2>4, <2>8
       DEF Refuse, ClientThread, Timeout, Handshake, HandshakeFails, RecvClose, RecvFails, StartThread,
           SetOpen, RecvOnClosed, GetState, SetClosing, AlreadyClosed, EmptySlot, SetClosed, CloseSocket,
           Join, Destroy, TimeoutQuits, TimeoutFires, TimeoutEmptiesSlot, TimeoutSetsClosed, Moves
  <2>. QED BY <1>1, <2>5, <2>6, <2>7, <2>8 DEF Next, Client, AcceptThread
<1>2. IInv /\ [Next]_vars => [Undisturbed]_vars
  BY <1>1
<1>. QED BY <1>2, Invariance, PTL DEF Spec, ServedUndisturbed

=============================================================================
