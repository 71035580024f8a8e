-------------------------------- MODULE EcsWs --------------------------------
(***************************************************************************)
(* test_ws: ecs_ws.c and main_custom.c, sockets as components of entities. *)
(* The main program makes an entity of a server socket; setting its        *)
(* components runs the observers that open the socket and start the accept *)
(* thread. For each connection that thread sets the socket and copies the  *)
(* components of a prefab, always to the entity named "Bob"; setting those *)
(* runs the observer that starts a thread to read the socket of Bob.       *)
(*                                                                         *)
(* Connections are numbered in the order in which they are accepted. The   *)
(* calls of flecs, which is modelled by what these files need of it, are   *)
(* steps: that two threads use the world without a lock is left out.       *)
(***************************************************************************)
EXTENDS Integers, Sequences

CONSTANTS MaxConns, \* bound: connections
          MaxBytes  \* bound: bytes a client sends

ASSUME BoundsAssumption == MaxConns \in Nat /\ MaxBytes \in Nat

VARIABLES has,      \* the components of MyEntity and of Bob
          sock,     \* EgSocket of both
          bound,    \* what became of the server socket
          script,   \* what main has still to do
          acceptor, \* the accept thread
          lsock,    \* its variable sock
          todo,     \* the components it has still to set
          accepted, \* the connections so far
          reader,   \* the threads of eg_wsreader
          sent,     \* bytes sent and not yet received, for each connection
          total     \* bytes sent

entities == <<has, sock>>
accepting == <<acceptor, lsock, todo, accepted>>
stream == <<sent, total>>
vars == <<entities, bound, script, accepting, reader, stream>>

MyEntity == "MyEntity"
Bob == "Bob"
Components == {"EgSocket", "EgTCP", "EgPort", "EgMaxconn", "EgAcceptThread", "EgWS", "EgReqHTTP"}

Conns == 1 .. MaxConns
Listener == 0
NoSock == -1

Do(event, component) == [event |-> event, component |-> component]

\* Mutant of Script: starts the accept thread before the port is known.
AcceptsFirst ==
  <<Do("add", "EgSocket"), Do("add", "EgTCP"), Do("set", "EgAcceptThread"),
    Do("set", "EgPort"), Do("set", "EgMaxconn")>>

\* What main does with MyEntity.
Script ==
  <<Do("add", "EgSocket"), Do("add", "EgTCP"), Do("set", "EgPort"),
    Do("set", "EgMaxconn"), Do("set", "EgAcceptThread")>>

\* The type of the prefab, in the order of its ids
Prefab == <<"EgWS", "EgReqHTTP", "Prefab", "Identifier">>

\* Mutant of eg_copy_components: does not skip the prefab tag.
CopiesTag ==
  LET upto[n \in 0 .. Len(Prefab)] ==
        IF n = 0 THEN <<>>
        ELSE IF Prefab[n] # "Identifier" THEN Append(upto[n - 1], Prefab[n]) ELSE upto[n - 1]
  IN upto[Len(Prefab)]

\* The components that are copied.
eg_copy_components ==
  LET upto[n \in 0 .. Len(Prefab)] ==
        IF n = 0 THEN <<>>
        ELSE IF Prefab[n] \notin {"Prefab", "Identifier"} THEN Append(upto[n - 1], Prefab[n])
        ELSE upto[n - 1]
  IN upto[Len(Prefab)]

\* The observers for EcsOnSet
EgSocketTCP == {"EgSocket", "EgTCP", "EgPort", "EgMaxconn"}
EgSocketAcceptThread == {"EgSocket", "EgTCP", "EgAcceptThread"}
EgWS == {"EgSocket", "EgWS", "EgReqHTTP"}

\* Mutant of Runs: once, when the last component is added.
RunsOnAdd(terms, e, component) ==
  component \in terms \ has[e] /\ terms \subseteq has[e] \cup {component}

\* Setting a component of e runs an observer if it is a term and e has all terms.
Runs(terms, e, component) == component \in terms /\ terms \subseteq has[e] \cup {component}

Init ==
  /\ has = [e \in {MyEntity, Bob} |-> {}]
  /\ sock = [e \in {MyEntity, Bob} |-> NoSock]
  /\ bound = "no"
  /\ script = Script
  /\ acceptor = "none"
  /\ lsock = NoSock
  /\ todo = <<>>
  /\ accepted = 0
  /\ reader = <<>>
  /\ sent = [c \in Conns |-> 0]
  /\ total = [c \in Conns |-> 0]

----------------------------------------------------------------------------
(* main and its observers *)

Fires(terms) ==
  Head(script).event = "set" /\ Runs(terms, MyEntity, Head(script).component)

\* sys_EgSocketTCP; if socket or bind fails EgSocket stays unset, and accept fails.
OpenSocket ==
  \/ bound' = "yes" /\ sock' = [sock EXCEPT ![MyEntity] = Listener]
  \/ bound' = "failed" /\ UNCHANGED sock

Main ==
  /\ script # <<>>
  /\ script' = Tail(script)
  /\ has' = [has EXCEPT ![MyEntity] = @ \cup {Head(script).component}]
  /\ IF Fires(EgSocketTCP) THEN OpenSocket ELSE UNCHANGED <<sock, bound>>
  /\ acceptor' = IF Fires(EgSocketAcceptThread) THEN "start" ELSE acceptor
  /\ UNCHANGED <<lsock, todo, accepted, reader, stream>>

----------------------------------------------------------------------------
(* eg_acceptor *)

StartAcceptor ==
  /\ acceptor = "start"
  /\ acceptor' = "accept"
  /\ lsock' = sock[MyEntity]
  /\ UNCHANGED <<entities, bound, script, todo, accepted, reader, stream>>

\* Mutant of Accept: copies the prefab before it sets the socket.
SocketLast ==
  /\ acceptor = "accept"
  /\ lsock = Listener
  /\ accepted < MaxConns
  /\ accepted' = accepted + 1
  /\ todo' = eg_copy_components \o <<"EgSocket">>
  /\ acceptor' = "set"
  /\ UNCHANGED <<entities, bound, script, lsock, reader, stream>>

Accept ==
  /\ acceptor = "accept"
  /\ lsock = Listener
  /\ accepted < MaxConns
  /\ accepted' = accepted + 1
  /\ todo' = <<"EgSocket">> \o eg_copy_components
  /\ acceptor' = "set"
  /\ UNCHANGED <<entities, bound, script, lsock, reader, stream>>

AcceptFails ==
  /\ acceptor = "accept"
  /\ acceptor' = "ended"
  /\ has' = [has EXCEPT ![MyEntity] = @ \ {"EgAcceptThread"}]
  /\ UNCHANGED <<sock, bound, script, lsock, todo, accepted, reader, stream>>

NewReader == [sock |-> NoSock, since |-> accepted, one |-> FALSE]

\* ecs_set of the next component of Bob, with the observer sys_EgWS.
SetComponent ==
  LET component == Head(todo) IN
  /\ acceptor = "set"
  /\ todo' = Tail(todo)
  /\ acceptor' = IF todo' = <<>> THEN "accept" ELSE "set"
  /\ has' = [has EXCEPT ![Bob] = @ \cup {component}]
  /\ sock' = IF component = "EgSocket" THEN [sock EXCEPT ![Bob] = accepted] ELSE sock
  /\ reader' = IF Runs(EgWS, Bob, component) THEN Append(reader, NewReader) ELSE reader
  /\ UNCHANGED <<bound, script, lsock, accepted, stream>>

----------------------------------------------------------------------------
(* eg_wsreader *)

StartReader(i) ==
  /\ reader[i].sock = NoSock
  /\ reader' = [reader EXCEPT ![i].sock = sock[Bob]]
  /\ UNCHANGED <<entities, bound, script, accepting, stream>>

\* The two recv of the loop: what there is, then one byte. They never end.
Recv(i) ==
  LET c == reader[i].sock IN
  /\ c \in Conns
  /\ \E n \in 1 .. sent[c] :
       /\ reader[i].one => n = 1
       /\ sent' = [sent EXCEPT ![c] = @ - n]
  /\ reader' = [reader EXCEPT ![i].one = ~ @]
  /\ UNCHANGED <<entities, bound, script, accepting, total>>

\* A client sends a byte.
Send(c) ==
  /\ c <= accepted
  /\ total[c] < MaxBytes
  /\ total' = [total EXCEPT ![c] = @ + 1]
  /\ sent' = [sent EXCEPT ![c] = @ + 1]
  /\ UNCHANGED <<entities, bound, script, accepting, reader>>

----------------------------------------------------------------------------
Reader(i) == StartReader(i) \/ Recv(i)

Next ==
  \/ Main
  \/ StartAcceptor \/ Accept \/ AcceptFails \/ SetComponent
  \/ \E i \in DOMAIN reader : Reader(i)
  \/ \E c \in Conns : Send(c)

Spec == Init /\ [][Next]_vars

\* Threads are scheduled. Nothing is assumed of clients.
MaxReaders == 3 * MaxConns
FairSpec ==
  /\ Spec
  /\ WF_vars(SetComponent)
  /\ \A i \in 1 .. MaxReaders : WF_vars(i \in DOMAIN reader /\ Reader(i))

----------------------------------------------------------------------------
TypeOK ==
  /\ has \in [{MyEntity, Bob} -> SUBSET Components]
  /\ sock \in [{MyEntity, Bob} -> {NoSock, Listener} \cup Conns]
  /\ bound \in {"no", "yes", "failed"}
  /\ acceptor \in {"none", "start", "accept", "set", "ended"}
  /\ lsock \in {NoSock, Listener}
  /\ todo \in Seq(Components)
  /\ accepted \in 0 .. MaxConns
  /\ reader \in Seq([sock : {NoSock} \cup Conns, since : Conns, one : BOOLEAN])
  /\ Len(reader) <= MaxReaders
  /\ sent \in [Conns -> 0 .. MaxBytes]
  /\ total \in [Conns -> 0 .. MaxBytes]

\* The accept thread waits on the socket that was opened for it, unless opening
\* failed: the order in which main sets the components has the one observer run
\* before the other.
AcceptsOnListener == acceptor \in {"accept", "set"} => lsock = Listener \/ bound = "failed"

\* A thread never reads a connection older than the one it was started for,
\* although every connection uses the same entity; it may read a newer one.
NeverReadsOlder ==
  \A i \in DOMAIN reader : reader[i].sock # NoSock => reader[i].sock >= reader[i].since

\* What the newest client sends is received until a newer one comes, although
\* the entity had all the components before.
NewestIsRead ==
  \A c \in Conns : accepted = c /\ sent[c] > 0 ~> sent[c] = 0 \/ accepted > c

=============================================================================
