---------------------------- MODULE EcsWs_proofs ----------------------------
(***************************************************************************)
(* Proofs about EcsWs, for any number of connections.                      *)
(***************************************************************************)
EXTENDS EcsWs, SequenceTheorems, TLAPS

----------------------------------------------------------------------------
(* What makes the invariants inductive *)

\* How far main is in its script: the components MyEntity has are those set
\* so far, and the socket is opened by the fourth call.
Done == Len(Script) - Len(script)
MainInv ==
  /\ script \in Seq([event : {"add", "set"}, component : Components])
  /\ Len(script) <= Len(Script)
  /\ \A k \in 1 .. Len(script) : script[k] = Script[Done + k]
  /\ Done >= 1 => "EgSocket" \in has[MyEntity]
  /\ Done >= 2 => "EgTCP" \in has[MyEntity]
  /\ Done >= 3 => "EgPort" \in has[MyEntity]
  /\ Done < 5 => acceptor = "none"
  /\ Done >= 4 => bound # "no"
  /\ bound = "yes" => sock[MyEntity] = Listener
  /\ sock[MyEntity] \in {NoSock, Listener}

\* The accept thread sets the socket of Bob before the other components.
TodoInv ==
  /\ acceptor = "set" =>
       /\ accepted >= 1
       /\ \/ todo = <<"EgSocket", "EgWS", "EgReqHTTP">>
          \/ todo = <<"EgWS", "EgReqHTTP">> /\ sock[Bob] = accepted
          \/ todo = <<"EgReqHTTP">> /\ sock[Bob] = accepted
  /\ acceptor # "set" => todo = <<>>
  /\ sock[Bob] \in {NoSock} \cup 1 .. accepted

\* A thread is started when the socket of Bob is that of its connection, and
\* that socket only becomes newer.
ReadersInv ==
  /\ \A i \in DOMAIN reader : reader[i].since <= sock[Bob]
  /\ Len(reader) + Len(todo) <= 3 * accepted

\* Only what was sent is waiting to be received.
StreamInv == \A c \in Conns : sent[c] <= total[c]

IInv ==
  /\ TypeOK
  /\ MainInv
  /\ AcceptsOnListener
  /\ TodoInv
  /\ ReadersInv
  /\ NeverReadsOlder
  /\ StreamInv

----------------------------------------------------------------------------
(* The constant sequences *)

\* Short sequences of components, written with the operators of the loops.
LEMMA PairOf ==
  ASSUME NEW S, NEW x \in S, NEW y \in S
  PROVE  Append(<<x>>, y) = <<x, y>>
<1>1. Append(<<x>>, y) \in Seq(S) /\ Len(Append(<<x>>, y)) = 2
  OBVIOUS
<1>2. <<x, y>> \in Seq(S) /\ Len(<<x, y>>) = 2
  OBVIOUS
<1>3. \A k \in 1 .. 2 : Append(<<x>>, y)[k] = <<x, y>>[k]
  OBVIOUS
<1>. QED BY <1>1, <1>2, <1>3, SeqEqual

\* The terms of a query that begins with one more than two, as a triple.
LEMMA TripleOf ==
  ASSUME NEW S, NEW x \in S, NEW y \in S, NEW z \in S
  PROVE  <<x>> \o <<y, z>> = <<x, y, z>>
<1>1. <<x>> \in Seq(S) /\ <<y, z>> \in Seq(S) /\ Len(<<x>>) = 1 /\ Len(<<y, z>>) = 2
  OBVIOUS
<1>2. <<x>> \o <<y, z>> \in Seq(S) /\ Len(<<x>> \o <<y, z>>) = 3
  BY <1>1
<1>3. <<x, y, z>> \in Seq(S) /\ Len(<<x, y, z>>) = 3
  OBVIOUS
<1>4. \A k \in 1 .. 3 : (<<x>> \o <<y, z>>)[k] = <<x, y, z>>[k]
  BY <1>1
<1>. QED BY <1>2, <1>3, <1>4, SeqEqual

\* What eg_copy_components copies of the prefab.
LEMMA Copied == eg_copy_components = <<"EgWS", "EgReqHTTP">>
<1>. DEFINE Item(f, n) == IF n = 0 THEN <<>>
                          ELSE IF Prefab[n] \notin {"Prefab", "Identifier"}
                            THEN Append(f[n - 1], Prefab[n])
                          ELSE f[n - 1]
            Upto(f) == [n \in 0 .. Len(Prefab) |-> Item(f, n)]
            upto == CHOOSE f : f = Upto(f)
            both == <<"EgWS", "EgReqHTTP">>
            all == [n \in 0 .. 4 |->
                      IF n = 0 THEN <<>> ELSE IF n = 1 THEN <<"EgWS">> ELSE both]
<1>1. /\ Len(Prefab) = 4
      /\ Prefab[1] = "EgWS" /\ Prefab[2] = "EgReqHTTP"
      /\ Prefab[3] = "Prefab" /\ Prefab[4] = "Identifier"
  BY DEF Prefab
<1>2. Append(<<>>, "EgWS") = <<"EgWS">> /\ Append(<<"EgWS">>, "EgReqHTTP") = both
  <2>1. "EgWS" \in Components /\ "EgReqHTTP" \in Components
    BY DEF Components
  <2>. QED BY <2>1, PairOf
<1>3. ASSUME NEW f
      PROVE  /\ Item(f, 0) = <<>>
             /\ Item(f, 1) = Append(f[0], "EgWS")
             /\ Item(f, 2) = Append(f[1], "EgReqHTTP")
             /\ Item(f, 3) = f[2]
             /\ Item(f, 4) = f[3]
  BY <1>1
<1>. HIDE DEF Item, both
<1>4. all = Upto(all)
  <2>1. /\ all[0] = <<>> /\ all[1] = <<"EgWS">>
        /\ all[2] = both /\ all[3] = both /\ all[4] = both
    OBVIOUS
  <2>2. /\ Item(all, 0) = all[0] /\ Item(all, 1) = all[1] /\ Item(all, 2) = all[2]
        /\ Item(all, 3) = all[3] /\ Item(all, 4) = all[4]
    BY <1>2, <1>3, <2>1
  <2>. HIDE DEF all
  <2>3. all = [n \in 0 .. 4 |-> all[n]]
    BY DEF all
  <2>4. \A n \in 0 .. 4 : Item(all, n) = all[n]
    BY <2>2
  <2>. QED BY <1>1, <2>3, <2>4
<1>5. upto = Upto(upto)
  BY <1>4
<1>. HIDE DEF upto
<1>6. /\ upto[0] = Item(upto, 0) /\ upto[1] = Item(upto, 1) /\ upto[2] = Item(upto, 2)
      /\ upto[3] = Item(upto, 3) /\ upto[4] = Item(upto, 4)
  BY <1>1, <1>5
<1>7. upto[0] = <<>> /\ upto[1] = <<"EgWS">>
  BY <1>2, <1>3, <1>6
<1>8. upto[2] = both /\ upto[3] = both /\ upto[4] = both
  BY <1>2, <1>3, <1>6, <1>7
<1>. QED BY <1>1, <1>8 DEF upto, both, Item, eg_copy_components

----------------------------------------------------------------------------
(* The inductive invariant *)

\* The sequences the accept thread works through.
LEMMA TodoShapes ==
  ASSUME acceptor = "set", TodoInv
  PROVE  /\ todo # <<>> /\ Head(todo) \in Components
         /\ Tail(todo) \in Seq(Components) /\ Len(Tail(todo)) = Len(todo) - 1
         /\ Head(todo) = "EgSocket" =>
              todo # <<"EgReqHTTP">> /\ Tail(todo) = <<"EgWS", "EgReqHTTP">>
         /\ Head(todo) # "EgSocket" =>
              sock[Bob] = accepted /\ Tail(todo) \in {<<>>, <<"EgReqHTTP">>}
<1>1. CASE todo = <<"EgSocket", "EgWS", "EgReqHTTP">>
  BY <1>1 DEF Components
<1>2. CASE todo = <<"EgWS", "EgReqHTTP">> /\ sock[Bob] = accepted
  BY <1>2 DEF Components
<1>3. CASE todo = <<"EgReqHTTP">> /\ sock[Bob] = accepted
  BY <1>3 DEF Components
<1>. QED BY <1>1, <1>2, <1>3 DEF TodoInv

\* What main has set when it comes to each of its calls.
LEMMA ScriptFacts ==
  /\ Len(Script) = 5
  /\ Script[1] = Do("add", "EgSocket") /\ Script[2] = Do("add", "EgTCP")
  /\ Script[3] = Do("set", "EgPort") /\ Script[4] = Do("set", "EgMaxconn")
  /\ Script[5] = Do("set", "EgAcceptThread")
BY DEF Script

\* No server, no connection and no thread: the invariant holds.
LEMMA InitInv == Init => IInv
<1>. SUFFICES ASSUME Init PROVE IInv
  OBVIOUS
<1>. USE DEF Init
<1>1. TypeOK
  <2>1. reader \in Seq([sock : {NoSock} \cup Conns, since : Conns, one : BOOLEAN])
        /\ Len(reader) = 0 /\ todo \in Seq(Components)
    OBVIOUS
  <2>. QED BY <2>1, BoundsAssumption DEF TypeOK, MaxReaders, MyEntity, Bob
<1>2. MainInv
  <2>1. Script \in Seq([event : {"add", "set"}, component : Components])
    BY DEF Script, Do, Components
  <2>. QED BY <2>1, ScriptFacts DEF MainInv, Done, MyEntity, Bob
<1>3. AcceptsOnListener /\ TodoInv /\ ReadersInv /\ NeverReadsOlder /\ StreamInv
  BY DEF AcceptsOnListener, TodoInv, ReadersInv, NeverReadsOlder, StreamInv, MyEntity, Bob
<1>. QED BY <1>1, <1>2, <1>3 DEF IInv

\* The calls of main: the observer that opens the socket runs at the fourth,
\* and only then, the one that starts the accept thread at the fifth.
LEMMA MainStep ==
  ASSUME IInv, Main
  PROVE  IInv'
<1>. USE DEF IInv
<1>0. /\ script # <<>> /\ script' = Tail(script)
      /\ has' = [has EXCEPT ![MyEntity] = @ \cup {Head(script).component}]
      /\ UNCHANGED <<lsock, todo, accepted, reader, stream>>
  BY DEF Main
<1>1. /\ Len(script) \in 1 .. 5 /\ Done \in 0 .. 4 /\ Len(script) = 5 - Done
      /\ script' \in Seq([event : {"add", "set"}, component : Components])
      /\ Len(script') = Len(script) - 1
      /\ \A k \in 1 .. Len(script') : script'[k] = script[k + 1]
  <2>. DEFINE Calls == [event : {"add", "set"}, component : Components]
  <2>1. script \in Seq(Calls) /\ Len(script) <= 5 /\ Done = 5 - Len(script)
    BY ScriptFacts DEF MainInv, Done
  <2>. HIDE DEF Calls
  <2>2. Len(script) \in Nat /\ Len(script) # 0
    BY <1>0, <2>1, EmptySeq
  <2>3. /\ script' \in Seq(Calls) /\ Len(script') = Len(script) - 1
        /\ \A k \in 1 .. Len(script') : script'[k] = script[k + 1]
    BY <1>0, <2>1, HeadTailProperties
  <2>. DEFINE left == Len(script)
  <2>4. left \in Nat /\ left # 0 /\ left <= 5 /\ Done = 5 - left
    BY <2>1, <2>2
  <2>. HIDE DEF left
  <2>5. left \in 1 .. 5 /\ Done \in 0 .. 4 /\ left = 5 - Done
    BY <2>4
  <2>. QED BY <2>3, <2>5 DEF Calls, left
<1>2. Head(script) = Script[Done + 1] /\ Head(script).component \in Components
  <2>. DEFINE Calls == [event : {"add", "set"}, component : Components]
  <2>1. Head(script) = script[1] /\ script[1] \in Calls
    <3>1. script \in Seq(Calls) /\ 1 \in 1 .. Len(script)
      BY <1>1 DEF MainInv
    <3>. HIDE DEF Calls
    <3>. QED BY <3>1, ElementOfSeq
  <2>. QED BY <1>1, <2>1 DEF MainInv
<1>3. Done' = Done + 1
  BY <1>1, ScriptFacts DEF Done
<1>4. /\ Done = 0 => Head(script) = Do("add", "EgSocket")
      /\ Done = 1 => Head(script) = Do("add", "EgTCP")
      /\ Done = 2 => Head(script) = Do("set", "EgPort")
      /\ Done = 3 => Head(script) = Do("set", "EgMaxconn")
      /\ Done = 4 => Head(script) = Do("set", "EgAcceptThread")
  BY <1>1, <1>2, ScriptFacts
<1>5. /\ has' \in [{MyEntity, Bob} -> SUBSET Components]
      /\ has'[MyEntity] = has[MyEntity] \cup {Head(script).component}
  BY <1>0, <1>2 DEF TypeOK
<1>6. /\ acceptor' \in {acceptor, "start"}
      /\ acceptor' # acceptor => Done = 4
  BY <1>1, <1>4 DEF Main, Fires, Runs, EgSocketAcceptThread, Do
<1>7. /\ sock'[Bob] = sock[Bob] /\ sock' \in [{MyEntity, Bob} -> {NoSock, Listener} \cup Conns]
      /\ sock'[MyEntity] \in {NoSock, Listener}
      /\ bound' \in {"no", "yes", "failed"}
      /\ bound # "no" => bound' # "no"
      /\ bound' = "yes" => sock'[MyEntity] = Listener
      /\ bound' # bound => bound' # "no"
  BY DEF Main, OpenSocket, TypeOK, MainInv, MyEntity, Bob
<1>8. Done = 3 => bound' # "no"
  BY <1>4 DEF Main, OpenSocket, Fires, Runs, EgSocketTCP, Do, MainInv
<1>9. TypeOK'
  BY <1>0, <1>5, <1>6, <1>7 DEF TypeOK, stream
<1>10. MainInv'
  BY <1>0, <1>1, <1>3, <1>4, <1>5, <1>6, <1>7, <1>8 DEF MainInv, Do
<1>11. AcceptsOnListener'
  BY <1>0, <1>6, <1>7, <1>1 DEF AcceptsOnListener, MainInv
<1>12. TodoInv' /\ ReadersInv' /\ NeverReadsOlder' /\ StreamInv'
  BY <1>0, <1>1, <1>6, <1>7 DEF MainInv, TodoInv, ReadersInv, NeverReadsOlder, StreamInv, stream
<1>. QED BY <1>9, <1>10, <1>11, <1>12

\* The accept thread between two accepts: it reads the socket of MyEntity once
\* main has opened it, and takes three components to set for each connection.
LEMMA AcceptorStep ==
  ASSUME IInv, StartAcceptor \/ Accept \/ AcceptFails
  PROVE  IInv'
<1>. USE DEF IInv, entities, stream
<1>1. CASE StartAcceptor
  <2>1. Done >= 4 /\ bound # "no" /\ sock[MyEntity] \in {NoSock, Listener}
    <3>1. Done \in Int
      BY ScriptFacts, LenProperties DEF MainInv, Done
    <3>. QED BY <1>1, <3>1 DEF StartAcceptor, MainInv
  <2>2. TypeOK'
    BY <1>1, <2>1 DEF StartAcceptor, TypeOK
  <2>3. AcceptsOnListener'
    BY <1>1, <2>1 DEF StartAcceptor, AcceptsOnListener, MainInv, TypeOK
  <2>4. MainInv'
    BY <1>1, <2>1 DEF StartAcceptor, MainInv, Done
  <2>. QED BY <1>1, <2>2, <2>3, <2>4
       DEF StartAcceptor, TodoInv, ReadersInv, NeverReadsOlder, StreamInv
<1>2. CASE Accept
  <2>1. todo = <<>> /\ acceptor = "accept" /\ accepted \in 0 .. MaxConns - 1
    BY <1>2, BoundsAssumption DEF Accept, TodoInv, TypeOK
  <2>2. todo' = <<"EgSocket", "EgWS", "EgReqHTTP">>
    <3>1. {"EgSocket", "EgWS", "EgReqHTTP"} \subseteq Components
      BY DEF Components
    <3>2. todo' = <<"EgSocket">> \o <<"EgWS", "EgReqHTTP">>
      BY <1>2, Copied DEF Accept
    <3>. QED BY <3>1, <3>2, TripleOf
  <2>3. todo' \in Seq(Components) /\ Len(todo') = 3 /\ Len(todo) = 0
    BY <2>1, <2>2 DEF Components
  <2>4. TypeOK'
    BY <1>2, <2>1, <2>3, BoundsAssumption DEF Accept, TypeOK
  <2>5. MainInv' /\ AcceptsOnListener'
    BY <1>2 DEF Accept, MainInv, Done, AcceptsOnListener
  <2>6. TodoInv'
    <3>1. accepted' = accepted + 1 /\ acceptor' = "set" /\ UNCHANGED sock
      BY <1>2 DEF Accept, entities
    <3>2. accepted \in Nat /\ sock[Bob] \in {NoSock} \cup 1 .. accepted
      BY <2>1 DEF TodoInv
    <3>3. sock[Bob] \in {NoSock} \cup 1 .. accepted + 1
      BY <3>2
    <3>. QED BY <2>2, <3>1, <3>2, <3>3 DEF TodoInv
  <2>7. ReadersInv' /\ NeverReadsOlder'
    <3>1. Len(reader) \in Nat
      BY LenProperties DEF TypeOK
    <3>. QED BY <1>2, <2>1, <2>3, <3>1 DEF Accept, ReadersInv, NeverReadsOlder
  <2>. QED BY <1>2, <2>4, <2>5, <2>6, <2>7 DEF Accept, StreamInv
<1>3. CASE AcceptFails
  <2>1. /\ has' \in [{MyEntity, Bob} -> SUBSET Components]
        /\ has'[MyEntity] = has[MyEntity] \ {"EgAcceptThread"}
    BY <1>3 DEF AcceptFails, TypeOK
  <2>2. TypeOK'
    BY <1>3, <2>1 DEF AcceptFails, TypeOK
  <2>3. MainInv'
    <3>1. Done \in Int
      BY ScriptFacts, LenProperties DEF MainInv, Done
    <3>. QED BY <1>3, <2>1, <3>1 DEF AcceptFails, MainInv, Done
  <2>. QED BY <1>3, <2>2, <2>3
       DEF AcceptFails, AcceptsOnListener, TodoInv, ReadersInv, NeverReadsOlder, StreamInv
<1>. QED BY <1>1, <1>2, <1>3

\* Setting a component of Bob: a thread it starts is started for the newest
\* connection, whose socket Bob has by then.
LEMMA SetComponentStep ==
  ASSUME IInv, SetComponent
  PROVE  IInv'
<1>. DEFINE Threads == [sock : {NoSock} \cup Conns, since : Conns, one : BOOLEAN]
<1>. USE DEF IInv
<1>0. /\ acceptor = "set" /\ todo' = Tail(todo)
      /\ acceptor' = IF todo' = <<>> THEN "accept" ELSE "set"
      /\ has' = [has EXCEPT ![Bob] = @ \cup {Head(todo)}]
      /\ sock' = IF Head(todo) = "EgSocket" THEN [sock EXCEPT ![Bob] = accepted] ELSE sock
      /\ reader' \in {reader, Append(reader, NewReader)}
      /\ UNCHANGED <<bound, script, lsock, accepted, stream>>
  BY DEF SetComponent
<1>1. /\ todo # <<>> /\ Head(todo) \in Components
      /\ todo' \in Seq(Components) /\ Len(todo') = Len(todo) - 1
      /\ Head(todo) = "EgSocket" => todo' = <<"EgWS", "EgReqHTTP">>
      /\ Head(todo) # "EgSocket" => sock[Bob] = accepted /\ todo' \in {<<>>, <<"EgReqHTTP">>}
  BY <1>0, TodoShapes
<1>2. accepted \in Conns /\ accepted \in Nat /\ MaxConns \in Nat
  BY <1>0, BoundsAssumption DEF TodoInv, TypeOK, Conns
<1>3. /\ sock' \in [{MyEntity, Bob} -> {NoSock, Listener} \cup Conns]
      /\ sock'[Bob] = accepted /\ sock'[MyEntity] = sock[MyEntity]
  BY <1>0, <1>1, <1>2 DEF TypeOK, MyEntity, Bob
<1>4. /\ has' \in [{MyEntity, Bob} -> SUBSET Components]
      /\ has'[MyEntity] = has[MyEntity]
  BY <1>0, <1>1 DEF TypeOK, MyEntity, Bob
<1>5. reader \in Seq(Threads) /\ NewReader \in Threads
  BY <1>2 DEF TypeOK, NewReader
<1>6. NewReader.sock = NoSock /\ NewReader.since = accepted
  BY DEF NewReader
<1>7. /\ reader' \in Seq(Threads) /\ Len(reader') \in Nat /\ Len(reader) \in Nat
      /\ Len(reader') <= Len(reader) + 1
      /\ \A i \in DOMAIN reader' :
           (i \in DOMAIN reader /\ reader'[i] = reader[i]) \/ reader'[i] = NewReader
  <2>. HIDE DEF Threads
  <2>1. CASE reader' = reader
    BY <1>5, <2>1, LenProperties
  <2>2. CASE reader' = Append(reader, NewReader)
    BY <1>5, <2>2, AppendProperties, LenProperties
  <2>. QED BY <1>0, <2>1, <2>2
<1>8. Len(reader') + Len(todo') <= 3 * accepted /\ Len(todo') \in Nat /\ accepted <= MaxConns
  <2>1. Len(todo) \in Nat /\ Len(todo') \in Nat /\ accepted <= MaxConns
    BY <1>1, <1>2, LenProperties DEF TypeOK, Conns
  <2>. QED BY <1>1, <1>2, <1>7, <2>1 DEF ReadersInv
<1>9. TypeOK'
  <2>1. Len(reader') <= MaxReaders
    BY <1>2, <1>7, <1>8 DEF MaxReaders
  <2>. QED BY <1>0, <1>1, <1>3, <1>4, <1>7, <2>1 DEF TypeOK, stream
<1>10. MainInv'
  BY <1>0, <1>3, <1>4 DEF MainInv, Done
<1>11. AcceptsOnListener' /\ TodoInv' /\ StreamInv'
  BY <1>0, <1>1, <1>2, <1>3 DEF AcceptsOnListener, TodoInv, StreamInv, stream
<1>12. ReadersInv' /\ NeverReadsOlder'
  <2>1. \A i \in DOMAIN reader' : reader'[i].since <= accepted
    <3>1. \A i \in DOMAIN reader : reader[i].since <= sock[Bob] /\ sock[Bob] \in {NoSock} \cup 1 .. accepted
      BY DEF ReadersInv, TodoInv
    <3>2. \A i \in DOMAIN reader : reader[i] \in Threads
      <4>. HIDE DEF Threads
      <4>. QED BY <1>5, ElementOfSeq, LenProperties
    <3>3. \A i \in DOMAIN reader : reader[i].since \in Nat
      BY <3>2 DEF Conns
    <3>4. \A i \in DOMAIN reader : reader[i].since <= accepted
      BY <1>2, <3>1, <3>3 DEF NoSock
    <3>. QED BY <1>2, <1>6, <1>7, <3>4
  <2>2. \A i \in DOMAIN reader' : reader'[i].sock # NoSock => reader'[i].sock >= reader'[i].since
    BY <1>6, <1>7 DEF NeverReadsOlder
  <2>. QED BY <1>0, <1>3, <1>8, <2>1, <2>2 DEF ReadersInv, NeverReadsOlder
<1>. QED BY <1>9, <1>10, <1>11, <1>12

\* The threads of eg_wsreader and the clients.
LEMMA ReaderStep ==
  ASSUME IInv,
         \/ \E i \in DOMAIN reader : Reader(i)
         \/ \E c \in Conns : Send(c)
  PROVE  IInv'
<1>. DEFINE Threads == [sock : {NoSock} \cup Conns, since : Conns, one : BOOLEAN]
<1>. USE DEF IInv
<1>0. reader \in Seq(Threads) /\ sock[Bob] \in {NoSock} \cup 1 .. accepted /\ accepted \in Nat
      /\ accepted <= MaxConns /\ MaxConns \in Nat /\ MaxBytes \in Nat
  BY BoundsAssumption DEF TypeOK, TodoInv
<1>1. \A i \in DOMAIN reader : i \in 1 .. Len(reader) /\ reader[i] \in Threads
  <2>. HIDE DEF Threads
  <2>. QED BY <1>0, ElementOfSeq, LenProperties
<1>2. ASSUME NEW i \in DOMAIN reader, StartReader(i)
      PROVE  IInv'
  <2>1. sock[Bob] \in Conns /\ sock[Bob] >= reader[i].since
    BY <1>0, <1>1, <1>2 DEF ReadersInv, Conns, NoSock
  <2>2. /\ reader' = [reader EXCEPT ![i].sock = sock[Bob]]
        /\ UNCHANGED <<has, sock, bound, script, acceptor, lsock, todo, accepted, sent, total>>
    BY <1>2 DEF StartReader, entities, accepting, stream
  <2>3. [reader[i] EXCEPT !.sock = sock[Bob]] \in Threads
    BY <1>1, <2>1
  <2>4. reader' = [reader EXCEPT ![i] = [reader[i] EXCEPT !.sock = sock[Bob]]]
    BY <2>2
  <2>5. reader' \in Seq(Threads) /\ Len(reader') = Len(reader)
    <3>. HIDE DEF Threads
    <3>. QED BY <1>0, <1>1, <2>3, <2>4, ExceptSeq
  <2>6. /\ DOMAIN reader' = DOMAIN reader
        /\ \A j \in DOMAIN reader : j # i => reader'[j] = reader[j]
        /\ reader'[i].sock = sock[Bob] /\ reader'[i].since = reader[i].since
    BY <1>1, <2>2
  <2>7. TypeOK'
    BY <2>2, <2>5 DEF TypeOK
  <2>8. ReadersInv' /\ NeverReadsOlder'
    BY <2>1, <2>2, <2>5, <2>6 DEF ReadersInv, NeverReadsOlder
  <2>. QED BY <2>2, <2>7, <2>8 DEF MainInv, Done, AcceptsOnListener, TodoInv, StreamInv
<1>3. ASSUME NEW i \in DOMAIN reader, Recv(i)
      PROVE  IInv'
  <2>1. /\ reader' = [reader EXCEPT ![i].one = ~ @]
        /\ UNCHANGED <<has, sock, bound, script, acceptor, lsock, todo, accepted, total>>
    BY <1>3 DEF Recv, entities, accepting
  <2>2. [reader[i] EXCEPT !.one = ~ @] \in Threads
    BY <1>1
  <2>3. reader' = [reader EXCEPT ![i] = [reader[i] EXCEPT !.one = ~ @]]
    BY <2>1
  <2>4. reader' \in Seq(Threads) /\ Len(reader') = Len(reader)
    <3>. HIDE DEF Threads
    <3>. QED BY <1>0, <1>1, <2>2, <2>3, ExceptSeq
  <2>5. /\ DOMAIN reader' = DOMAIN reader
        /\ \A j \in DOMAIN reader : j # i => reader'[j] = reader[j]
        /\ reader'[i].sock = reader[i].sock /\ reader'[i].since = reader[i].since
    BY <1>1, <2>1
  <2>6. sent' \in [Conns -> 0 .. MaxBytes] /\ StreamInv'
    <3>. DEFINE c == reader[i].sock
    <3>1. PICK n \in 1 .. sent[c] : c \in Conns /\ sent' = [sent EXCEPT ![c] = @ - n]
      BY <1>3 DEF Recv
    <3>2. sent[c] \in 0 .. MaxBytes
      BY <3>1 DEF TypeOK
    <3>3. sent[c] - n \in 0 .. MaxBytes /\ sent[c] - n <= sent[c]
      BY <1>0, <3>1, <3>2
    <3>4. sent' \in [Conns -> 0 .. MaxBytes]
      BY <3>1, <3>3 DEF TypeOK
    <3>5. total[c] \in Nat /\ sent[c] <= total[c]
      BY <3>1 DEF TypeOK, StreamInv
    <3>6. sent[c] - n <= total[c]
      BY <1>0, <3>1, <3>2, <3>5
    <3>7. StreamInv'
      BY <2>1, <3>1, <3>6 DEF TypeOK, StreamInv
    <3>. QED BY <3>4, <3>7
  <2>7. TypeOK'
    BY <2>1, <2>4, <2>6 DEF TypeOK
  <2>8. ReadersInv' /\ NeverReadsOlder'
    BY <2>1, <2>4, <2>5 DEF ReadersInv, NeverReadsOlder
  <2>. QED BY <2>1, <2>6, <2>7, <2>8 DEF MainInv, Done, AcceptsOnListener, TodoInv
<1>4. ASSUME NEW c \in Conns, Send(c)
      PROVE  IInv'
  <2>1. /\ UNCHANGED <<has, sock, bound, script, acceptor, lsock, todo, accepted, reader>>
        /\ total[c] < MaxBytes
        /\ total' = [total EXCEPT ![c] = @ + 1] /\ sent' = [sent EXCEPT ![c] = @ + 1]
    BY <1>4 DEF Send, entities, accepting
  <2>2. sent[c] \in 0 .. MaxBytes /\ total[c] \in 0 .. MaxBytes /\ sent[c] <= total[c]
    BY DEF TypeOK, StreamInv
  <2>3. total[c] + 1 \in 0 .. MaxBytes /\ sent[c] + 1 \in 0 .. MaxBytes /\ sent[c] + 1 <= total[c] + 1
    BY <1>0, <2>1, <2>2
  <2>4. sent' \in [Conns -> 0 .. MaxBytes] /\ total' \in [Conns -> 0 .. MaxBytes] /\ StreamInv'
    BY <2>1, <2>3 DEF TypeOK, StreamInv
  <2>5. TypeOK'
    BY <2>1, <2>4 DEF TypeOK
  <2>. QED BY <2>1, <2>4, <2>5
       DEF MainInv, Done, AcceptsOnListener, TodoInv, ReadersInv, NeverReadsOlder
<1>. QED BY <1>2, <1>3, <1>4 DEF Reader

----------------------------------------------------------------------------
(* The theorems *)

\* The order in which main sets components and eg_acceptor copies them keeps
\* the inductive invariant in every step of any thread.
LEMMA Inductive == Spec => []IInv
<1>1. IInv /\ [Next]_vars => IInv'
  <2>. SUFFICES ASSUME IInv, [Next]_vars PROVE IInv'
    OBVIOUS
  <2>1. CASE UNCHANGED vars
    <3>. USE <2>1 DEF vars, entities, accepting, stream
    <3>1. TypeOK' /\ MainInv'
      BY DEF IInv, TypeOK, MainInv, Done
    <3>2. AcceptsOnListener' /\ TodoInv'
      BY DEF IInv, AcceptsOnListener, TodoInv
    <3>3. ReadersInv' /\ NeverReadsOlder' /\ StreamInv'
      BY DEF IInv, ReadersInv, NeverReadsOlder, StreamInv
    <3>. QED BY <3>1, <3>2, <3>3 DEF IInv
  <2>2. CASE Next
    <3>1. \/ Main
          \/ StartAcceptor \/ Accept \/ AcceptFails \/ SetComponent
          \/ (\E i \in DOMAIN reader : Reader(i)) \/ (\E c \in Conns : Send(c))
      BY <2>2 DEF Next
    <3>2. CASE Main
      BY <3>2, MainStep
    <3>3. CASE StartAcceptor \/ Accept \/ AcceptFails
      BY <3>3, AcceptorStep
    <3>4. CASE SetComponent
      BY <3>4, SetComponentStep
    <3>5. CASE (\E i \in DOMAIN reader : Reader(i)) \/ (\E c \in Conns : Send(c))
      BY <3>5, ReaderStep
    <3>. QED BY <3>1, <3>2, <3>3, <3>4, <3>5
  <2>. QED BY <2>1, <2>2
<1>. QED BY <1>1, InitInv, PTL DEF Spec

\* main, eg_acceptor and the threads of eg_wsreader keep components, sockets
\* and byte counts in their sets; at most three readers start for a connection.
THEOREM TypeCorrect == Spec => []TypeOK
<1>1. IInv => TypeOK
  BY DEF IInv
<1>. QED BY <1>1, Inductive, PTL

\* The thread of eg_acceptor accepts on the socket that sys_EgSocketTCP opened,
\* unless opening failed, however main and the threads interleave.
THEOREM ListenerAccepted == Spec => []AcceptsOnListener
<1>1. IInv => AcceptsOnListener
  BY DEF IInv
<1>. QED BY <1>1, Inductive, PTL

\* A thread of eg_wsreader never reads a connection older than the one sys_EgWS
\* started it for, whatever becomes of the entity before it looks.
THEOREM ReadsNotOlder == Spec => []NeverReadsOlder
<1>1. IInv => NeverReadsOlder
  BY DEF IInv
<1>. QED BY <1>1, Inductive, PTL

=============================================================================
