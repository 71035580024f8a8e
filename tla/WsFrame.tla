------------------------------- MODULE WsFrame -------------------------------
(***************************************************************************)
(* test_ws/src/ws.c, next_frame and what the client thread does with what  *)
(* it returns: messages in fragments, control frames between them, the     *)
(* limits, and the end of the connection.                                  *)
(*                                                                         *)
(* A frame is read in two steps: with its first byte the state of the      *)
(* connection is looked at, and then the rest is read and handled, while   *)
(* ws_close_client and its time-out may change the state. next_byte waits  *)
(* for bytes, however recv cuts them; a frame received before the          *)
(* descriptor was closed is read after that. A read of bytes that were     *)
(* never written ends in one of the ways it may, the end of the program    *)
(* among them. Masks are undone. Payloads are sequences of bytes, with     *)
(* limits scaled down.                                                     *)
(***************************************************************************)
EXTENDS Utf8

CONSTANTS Frames,            \* sets of frames: what one client sends
          MaxFrames,         \* bound: the frames it sends
          MAX_FRAME_LENGTH,
          MaxControlLength   \* 125

ASSUME LimitsAssumption == MAX_FRAME_LENGTH \in Nat /\ MaxControlLength \in Nat

\* What a header and a payload can hold
Byte == 0 .. 255
Frame == [op : 0 .. 15, fin : BOOLEAN, rsv : BOOLEAN, payload : Seq(Byte)]

ASSUME FramesAssumption == \A S \in Frames : S \subseteq Frame

VARIABLES repertoire,    \* the element of Frames this client uses
          validate,      \* is VALIDATE_UTF8 defined?
          state,         \* the state of the connection
          caller,        \* the thread that calls ws_close_client, and its time-out
          at,            \* where the client thread is with a frame
          seen,          \* the state when it had read the first byte
          late,          \* how often it called onmessage or sent in state CLOSING
          frame_type,
          msg,           \* the data read for the current message, frame_size its length
          utf8_state,
          onmessage,     \* the calls of onmessage
          sent,          \* the frames sent to the client
          accepted,      \* the frames of the client that were not refused
          refused        \* the one that was, if any

build == <<repertoire, validate>>
wfd == <<frame_type, msg, utf8_state>>
loop == <<at, seen>>
vars == <<build, state, caller, loop, late, wfd, onmessage, sent, accepted, refused>>

OPEN == 1
CLOSING == 2
CLOSED == 3

CONT == 0
TXT == 1
BIN == 2
CLSE == 8
PING == 9
PONG == 10

NONE == -1

NORMAL == 1000
PROTERR == 1002
INVUTF8 == 1007

is_control_frame(op) == op \in {CLSE, PING, PONG}
IsData(f) == f.op \in {TXT, BIN, CONT}

Reply(op, payload) == [op |-> op, payload |-> payload]
CloseWith(code) == Reply(CLSE, <<code \div 256, code % 256>>)

Init ==
  /\ repertoire \in Frames
  /\ validate \in BOOLEAN
  /\ state = OPEN
  /\ caller = "idle"
  /\ at = "header"
  /\ seen = OPEN
  /\ late = 0
  /\ frame_type = NONE
  /\ msg = <<>>
  /\ utf8_state = UTF8_ACCEPT
  /\ onmessage = <<>>
  /\ sent = <<>>
  /\ accepted = <<>>
  /\ refused = <<>>

----------------------------------------------------------------------------
(* What the code refuses *)

\* Mutant of BadHeader: takes a control frame for one that does not belong here.
NoControlInside(f) ==
  \/ f.rsv
  \/ frame_type = NONE /\ f.op = CONT
  \/ frame_type # NONE /\ f.op # CONT
  \/ ~ IsData(f) /\ ~ is_control_frame(f.op)
  \/ seen = CLOSING /\ f.op # CLSE
  \/ is_control_frame(f.op) /\ (~ f.fin \/ Len(f.payload) > MaxControlLength)

\* Mutant of BadHeader: does not look at the state.
IgnoresState(f) ==
  \/ f.rsv
  \/ frame_type = NONE /\ f.op = CONT
  \/ frame_type # NONE /\ ~ is_control_frame(f.op) /\ f.op # CONT
  \/ ~ IsData(f) /\ ~ is_control_frame(f.op)
  \/ is_control_frame(f.op) /\ (~ f.fin \/ Len(f.payload) > MaxControlLength)

\* Reserved bits, a CONT frame without a message, a message inside another, an
\* unknown opcode, a frame while closing, a control frame in fragments or too long
BadHeader(f) ==
  \/ f.rsv
  \/ frame_type = NONE /\ f.op = CONT
  \/ frame_type # NONE /\ ~ is_control_frame(f.op) /\ f.op # CONT
  \/ ~ IsData(f) /\ ~ is_control_frame(f.op)
  \/ seen = CLOSING /\ f.op # CLSE
  \/ is_control_frame(f.op) /\ (~ f.fin \/ Len(f.payload) > MaxControlLength)

TooLong(f) == IsData(f) /\ Len(msg) + Len(f.payload) > MAX_FRAME_LENGTH

TypeAfter(f) == IF f.op = CONT THEN frame_type ELSE f.op

Utf8After(f) == is_utf8_len_state(f.payload, utf8_state)

BadText(f) ==
  /\ validate
  /\ IsData(f)
  /\ TypeAfter(f) = TXT
  /\ IF f.fin THEN Utf8After(f) # UTF8_ACCEPT ELSE Utf8After(f) = UTF8_REJECT

BadReason(f) ==
  /\ validate
  /\ f.op = CLSE
  /\ Len(f.payload) > 2
  /\ is_utf8_len_state(SubSeq(f.payload, 3, Len(f.payload)), UTF8_ACCEPT) # UTF8_ACCEPT

----------------------------------------------------------------------------
Outputs == late' = IF state = CLOSING THEN late + 1 ELSE late

\* A send may fail, and does when the descriptor is closed.
Sends(frame) ==
  \/ state # CLOSED /\ sent' = Append(sent, frame) /\ Outputs
  \/ UNCHANGED <<sent, late>>

\* get_client_state, at the first byte of a frame
ReadHeader ==
  /\ at = "header"
  /\ at' = "body"
  /\ seen' = state
  /\ UNCHANGED <<build, state, caller, late, wfd, onmessage, sent, accepted, refused>>

\* The frame is f.
Reads(f) ==
  /\ at = "body"
  /\ Len(accepted) < MaxFrames
  /\ f \in repertoire

\* Nothing is read after that.
Refuse(f) ==
  /\ Reads(f)
  /\ refused' = <<f>>
  /\ UNCHANGED <<build, caller, state, seen, wfd, onmessage, accepted>>

\* The loop ends and next_frame returns -1.
EndsQuietly == at' = "ended" /\ UNCHANGED <<sent, late>>

EndsWith(frame) == at' = "ended" /\ Sends(frame)

Crashes == at' = "crashed" /\ UNCHANGED <<sent, late>>

RefuseHeader(f) == BadHeader(f) /\ Refuse(f) /\ EndsQuietly

\* The result of read_frame is not looked at: with VALIDATE_UTF8 the last
\* Len(f.payload) bytes of msg are validated, whatever they are, and the memory
\* before msg when it is shorter. Without any data msg_data is NULL.
RefuseTooLong(f) ==
  /\ ~ BadHeader(f)
  /\ TooLong(f)
  /\ Refuse(f)
  /\ IF validate /\ TypeAfter(f) = TXT
       THEN \/ msg # <<>> /\ EndsWith(CloseWith(INVUTF8))
            \/ msg # <<>> /\ EndsQuietly
            \/ Len(f.payload) > Len(msg) /\ Crashes
       ELSE EndsQuietly

RefuseText(f) ==
  /\ ~ BadHeader(f)
  /\ ~ TooLong(f)
  /\ BadText(f)
  /\ Refuse(f)
  /\ EndsWith(CloseWith(INVUTF8))

RefuseReason(f) ==
  ~ BadHeader(f) /\ BadReason(f) /\ Refuse(f) /\ EndsQuietly

Accepts(f) ==
  /\ Reads(f)
  /\ ~ (BadHeader(f) \/ TooLong(f) \/ BadText(f) \/ BadReason(f))
  /\ accepted' = Append(accepted, f)

\* The loop goes on, or ends.
Loops(next) == at' = next /\ UNCHANGED <<build, caller, state, seen, refused>>

\* Mutant of Fragment: a CONT frame changes the type.
ChangesType(f) ==
  /\ IsData(f)
  /\ ~ f.fin
  /\ Accepts(f)
  /\ frame_type' = f.op
  /\ msg' = msg \o f.payload
  /\ utf8_state' = IF validate /\ f.op = TXT THEN Utf8After(f) ELSE utf8_state
  /\ Loops("header")
  /\ UNCHANGED <<late, onmessage, sent>>

\* A data frame that is not the last of its message. Only here is utf8_state
\* carried on.
Fragment(f) ==
  /\ IsData(f)
  /\ ~ f.fin
  /\ Accepts(f)
  /\ frame_type' = TypeAfter(f)
  /\ msg' = msg \o f.payload
  /\ utf8_state' = IF validate /\ TypeAfter(f) = TXT THEN Utf8After(f) ELSE utf8_state
  /\ Loops("header")
  /\ UNCHANGED <<late, onmessage, sent>>

\* Mutant of Message: the next message begins with the data of this one.
KeepsData(f) ==
  /\ IsData(f)
  /\ f.fin
  /\ Accepts(f)
  /\ onmessage' = Append(onmessage, [op |-> TypeAfter(f), payload |-> msg \o f.payload])
  /\ Outputs
  /\ frame_type' = NONE
  /\ utf8_state' = UTF8_ACCEPT
  /\ Loops("header")
  /\ UNCHANGED <<msg, sent>>

\* The last one: next_frame returns, onmessage is called, and the next call
\* begins with the values of Init.
Message(f) ==
  /\ IsData(f)
  /\ f.fin
  /\ Accepts(f)
  /\ onmessage' = Append(onmessage, [op |-> TypeAfter(f), payload |-> msg \o f.payload])
  /\ Outputs
  /\ frame_type' = NONE
  /\ msg' = <<>>
  /\ utf8_state' = UTF8_ACCEPT
  /\ Loops("header")
  /\ UNCHANGED sent

\* skip_frame; is_fin is reset to stay in the loop.
Pong(f) ==
  /\ f.op = PONG
  /\ Accepts(f)
  /\ Loops("header")
  /\ UNCHANGED <<late, wfd, onmessage, sent>>

\* Mutant of Ping: answers with what was read of the message.
PongsMessage(f) ==
  /\ f.op = PING
  /\ Accepts(f)
  /\ Sends(Reply(PONG, msg))
  /\ Loops(IF sent' = sent THEN "ended" ELSE "header")
  /\ UNCHANGED <<wfd, onmessage>>

\* do_pong, which ends the loop if it fails; is_fin is reset.
Ping(f) ==
  /\ f.op = PING
  /\ Accepts(f)
  /\ Sends(Reply(PONG, f.payload))
  /\ Loops(IF sent' = sent THEN "ended" ELSE "header")
  /\ UNCHANGED <<wfd, onmessage>>

\* next_frame returns a CLOSE frame, and get_client_state is called again.
Close(f) ==
  /\ f.op = CLSE
  /\ Accepts(f)
  /\ Loops(IF state = CLOSING THEN "ended" ELSE "reply")
  /\ UNCHANGED <<late, wfd, onmessage, sent>>

\* do_close(wfd, -1): an empty payload and one with a reason are sent back, a
\* code alone if it is valid.
do_close(payload) ==
  LET cc == IF Len(payload) = 1 THEN payload[1] ELSE payload[1] * 256 + payload[2] IN
  IF Len(payload) \in {1, 2} /\ cc \notin (1000 .. 1003) \cup (1007 .. 1011) \cup (3000 .. 4999)
    THEN CloseWith(PROTERR)
    ELSE Reply(CLSE, payload)

ReplyToClose ==
  /\ at = "reply"
  /\ at' = "ended"
  /\ state' = CLOSING
  /\ Sends(do_close(Last(accepted).payload))
  /\ UNCHANGED <<build, caller, seen, wfd, onmessage, accepted, refused>>

\* A text frame that is being read and of which some bytes are missing: it is
\* validated like one that is too long.
CutsText ==
  /\ validate
  /\ \E f \in repertoire :
       Reads(f) /\ ~ BadHeader(f) /\ IsData(f) /\ TypeAfter(f) = TXT

\* recv fails or returns 0, between frames or inside one.
Disconnect ==
  /\ at \in {"header", "body"}
  /\ \/ EndsQuietly
     \/ CutsText /\ (EndsWith(CloseWith(INVUTF8)) \/ Crashes)
  /\ UNCHANGED <<build, caller, state, seen, wfd, onmessage, accepted, refused>>

----------------------------------------------------------------------------
(* A call of ws_close_client in another thread, and its time-out, see WsServer *)

SendCloseFrame ==
  /\ caller = "idle"
  /\ at # "crashed"
  /\ caller' = "sent"
  /\ sent' = Append(sent, CloseWith(NORMAL))
  /\ UNCHANGED <<build, state, loop, late, wfd, onmessage, accepted, refused>>

StartCloseTimeout ==
  /\ caller = "sent"
  /\ at # "crashed"
  /\ caller' = IF state = OPEN THEN "timeout" ELSE "done"
  /\ state' = IF state = OPEN THEN CLOSING ELSE state
  /\ UNCHANGED <<build, loop, late, wfd, onmessage, sent, accepted, refused>>

TimeoutFires ==
  /\ caller = "timeout"
  /\ at # "crashed"
  /\ caller' = "done"
  /\ state' = CLOSED
  /\ UNCHANGED <<build, loop, late, wfd, onmessage, sent, accepted, refused>>

----------------------------------------------------------------------------
RefuseFrame(f) == RefuseHeader(f) \/ RefuseTooLong(f) \/ RefuseText(f) \/ RefuseReason(f)

NextFrame(f) ==
  RefuseFrame(f) \/ Fragment(f) \/ Message(f) \/ Pong(f) \/ Ping(f) \/ Close(f)

Next ==
  \/ \E f \in repertoire : NextFrame(f)
  \/ ReadHeader \/ ReplyToClose \/ Disconnect
  \/ SendCloseFrame \/ StartCloseTimeout \/ TimeoutFires

Spec == Init /\ [][Next]_vars

----------------------------------------------------------------------------
TypeOK ==
  /\ repertoire \in Frames
  /\ validate \in BOOLEAN
  /\ state \in {OPEN, CLOSING, CLOSED}
  /\ caller \in {"idle", "sent", "timeout", "done"}
  /\ at \in {"header", "body", "reply", "ended", "crashed"}
  /\ seen \in {OPEN, CLOSING, CLOSED}
  /\ late \in Nat
  /\ frame_type \in {NONE, TXT, BIN}
  /\ Len(msg) <= MAX_FRAME_LENGTH
  /\ utf8_state \in 0 .. 8 \ {UTF8_REJECT}
  /\ \A i \in DOMAIN onmessage : onmessage[i].op \in {TXT, BIN}
  /\ \A i \in DOMAIN sent : sent[i].op \in {PONG, CLSE}
  /\ accepted \in Seq(repertoire)
  /\ Len(refused) <= 1

(* The reference: the messages in a sequence s of frames, by position *)

DataFrames(s) == {i \in DOMAIN s : IsData(s[i])}
Ends(s) == {i \in DataFrames(s) : s[i].fin}
Begin(s, i) == 1 + Max({0} \cup {j \in Ends(s) : j < i})

\* The data between two positions, and the type its first frame gives it
Joined(s, i, j) ==
  FlattenSeq([k \in 1 .. j - i + 1 |->
                IF IsData(s[i + k - 1]) THEN s[i + k - 1].payload ELSE <<>>])
TypeOf(s, i, j) ==
  LET data == {k \in DataFrames(s) : i <= k /\ k <= j}
  IN IF data = {} THEN NONE ELSE s[Min(data)].op

EndedBy(s, i) == [op |-> TypeOf(s, Begin(s, i), i), payload |-> Joined(s, Begin(s, i), i)]

\* The message that has not ended
OpenText == Joined(accepted, Begin(accepted, Len(accepted) + 1), Len(accepted))
OpenType == TypeOf(accepted, Begin(accepted, Len(accepted) + 1), Len(accepted))
Open == OpenType # NONE

\* The how manyth of S i is
Rank(S, i) == Cardinality({j \in S : j <= i})

\* onmessage is called for each message, whole, in order and with its type,
\* however it is cut into fragments and whatever control frames come between.
MessagesDelivered ==
  /\ Len(onmessage) = Cardinality(Ends(accepted))
  /\ \A i \in Ends(accepted) : onmessage[Rank(Ends(accepted), i)] = EndedBy(accepted, i)

With(s, op) == {i \in DOMAIN s : s[i].op = op}

\* Every PING is answered by a PONG with its payload, in order, except one whose
\* answer could not be sent, which is the last.
PingsAnswered ==
  LET pings == With(accepted, PING)
      pongs == With(sent, PONG)
  IN /\ \/ Cardinality(pongs) = Cardinality(pings)
        \/ at = "ended" /\ Cardinality(pongs) = Cardinality(pings) - 1
     /\ \A i \in pings, j \in pongs :
          Rank(pings, i) = Rank(pongs, j) => sent[j].payload = accepted[i].payload

\* With VALIDATE_UTF8 every text that is delivered is well-formed, and a text
\* frame that was read whole is refused only if nothing that could follow would
\* make the text so, however it is cut. (A text frame the client did not send
\* whole is not in `refused`.)
Continuations == UNION {[1 .. n -> {128, 144, 160}] : n \in 0 .. 3}
TextsWellFormed ==
  validate =>
    /\ \A i \in DOMAIN onmessage : onmessage[i].op = TXT => WellFormed(onmessage[i].payload)
    /\ Open /\ OpenType = TXT => \E t \in Continuations : WellFormed(OpenText \o t)
    /\ (refused # <<>> /\ CloseWith(INVUTF8) \in ToSet(sent)
        /\ Len(OpenText \o refused[1].payload) <= MAX_FRAME_LENGTH) =>
         \A t \in IF refused[1].fin THEN {<<>>} ELSE Continuations :
           ~ WellFormed(OpenText \o refused[1].payload \o t)

\* A client that keeps to the protocol is not refused before the connection is
\* being closed: it is refused for a reserved bit or opcode, a control frame in
\* fragments or too long, a frame out of its message, a message too long, or
\* text that is not UTF-8, and for nothing else.
OnlyViolationsRefused ==
  refused # <<>> /\ seen = OPEN =>
    LET f == refused[1]
        text == OpenText \o f.payload
    IN
    \/ f.rsv
    \/ f.op \notin {CONT, TXT, BIN, CLSE, PING, PONG}
    \/ is_control_frame(f.op) /\ ~ (f.fin /\ Len(f.payload) <= MaxControlLength)
    \/ IsData(f) /\ (f.op = CONT) # Open
    \/ IsData(f) /\ Len(text) > MAX_FRAME_LENGTH
    \/ validate /\ TXT \in {f.op, OpenType} /\ ~ WellFormed(text)
    \/ validate /\ f.op = CLSE /\ ~ WellFormed(SubSeq(f.payload, 3, Len(f.payload)))

\* ws.c:1112: "if CLOSING, we only accept close frames". While the state is
\* CLOSING, whoever made it so and when, the client thread delivers or sends at
\* most once, for the one frame it was reading. When the time-out has fired it is
\* CLOSED: then the test for CLOSING fails, and frames that were received before
\* are delivered, as many as there are, although the comment goes on "we should
\* terminate immediately".
OneLateWhileClosing == late <= 1

=============================================================================
