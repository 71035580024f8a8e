----------------------------- MODULE MCWsFrame -----------------------------
EXTENDS WsFrame

FramesOf(ops, fins, payloads) ==
  [op : ops, fin : fins, rsv : {FALSE}, payload : payloads]

\* A client that cuts its messages: A, and the two halves of a character
Fragments ==
  FramesOf({TXT, CONT}, BOOLEAN, {<<65>>, <<195>>, <<169, 65>>})
  \cup FramesOf({TXT, CONT}, {TRUE}, {<<>>})
  \cup FramesOf({BIN}, {FALSE}, {<<195>>})
  \cup FramesOf({PING, PONG}, {TRUE}, {<<65>>})

\* One with every control frame, some of them wrong, CLOSE frames with no, a
\* cut, a good and a bad code, with a reason and with one that is not text
Controls ==
  FramesOf({TXT}, {FALSE}, {<<65>>}) \cup FramesOf({CONT}, {TRUE}, {<<65>>})
  \cup FramesOf({PING}, BOOLEAN, {<<>>, <<65>>, <<65, 65, 65, 65>>})
  \cup FramesOf({PONG}, {TRUE}, {<<65>>})
  \cup FramesOf({CLSE}, {TRUE}, {<<>>, <<3>>, <<3, 232>>, <<3, 237>>, <<3, 232, 65>>, <<3, 232, 195>>})
  \cup FramesOf({3}, {TRUE}, {<<>>})
  \cup {[op |-> TXT, fin |-> TRUE, rsv |-> TRUE, payload |-> <<65>>]}

\* One that sends a text byte by byte, with a byte of each type, and longer
\* characters in three pieces
Bytes ==
  FramesOf({TXT, CONT}, {FALSE}, {<<b>> : b \in {65, 128, 144, 160, 192, 194, 224, 225,
                                              237, 240, 241, 244}})
  \cup FramesOf({TXT}, {FALSE}, {<<240, 128>>, <<240, 144>>, <<241, 128>>, <<244, 128>>,
                             <<244, 144>>})

MCFrames == {Fragments, Controls, Bytes}

=============================================================================
