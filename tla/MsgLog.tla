------------------------------- MODULE MsgLog -------------------------------
(***************************************************************************)
(* What eg_cklog promises to the threads that log and to those that print: *)
(* a bounded first-in first-out log of messages.                           *)
(*                                                                         *)
(*   - eg_cklog_enqueue either puts the message at the end of the backlog  *)
(*     or, only if all Slots are in use at that moment, refuses it;        *)
(*   - eg_cklog_consume prints the oldest message of the backlog, as it    *)
(*     was given to eg_cklog_enqueue, and nobody else prints it.           *)
(*                                                                         *)
(* EgCkLog is shown to implement this specification.                       *)
(***************************************************************************)
EXTENDS Naturals, Sequences, FiniteSets

CONSTANTS Producers, Consumers, Messages, NoMessage,
          Slots      \* how many messages the log holds at once

VARIABLES backlog,   \* accepted and not yet taken, oldest first
          phase,     \* phase[t]: where t is in its call
          msg,       \* msg[p]: the message p is logging
          out        \* out[c]: the message c is printing

vars == <<backlog, phase, msg, out>>

Threads == Producers \cup Consumers

In(ph) == {t \in Threads : phase[t] = ph}

\* Messages being written, waiting, being printed or being disposed of.
InUse == Len(backlog) + Cardinality(In("writing"))
         + Cardinality(In("printing")) + Cardinality(In("disposing"))

Goto(t, from, to) == phase[t] = from /\ phase' = [phase EXCEPT ![t] = to]

Init ==
  /\ backlog = <<>>
  /\ phase = [t \in Threads |-> "idle"]
  /\ msg = [p \in Producers |-> NoMessage]
  /\ out = [c \in Consumers |-> NoMessage]

Ask(p, m) ==
  /\ Goto(p, "idle", "asking")
  /\ msg' = [msg EXCEPT ![p] = m]
  /\ UNCHANGED <<backlog, out>>

Admit(p) ==
  /\ Goto(p, "asking", "writing")
  /\ InUse < Slots
  /\ UNCHANGED <<backlog, msg, out>>

Refuse(p) ==
  /\ Goto(p, "asking", "idle")
  /\ InUse = Slots
  /\ msg' = [msg EXCEPT ![p] = NoMessage]
  /\ UNCHANGED <<backlog, out>>

Accept(p) ==
  /\ Goto(p, "writing", "accepted")
  /\ backlog' = Append(backlog, msg[p])
  /\ msg' = [msg EXCEPT ![p] = NoMessage]
  /\ UNCHANGED out

Return(p) ==
  /\ Goto(p, "accepted", "idle")
  /\ UNCHANGED <<backlog, msg, out>>

Wait(c) ==
  /\ Goto(c, "idle", "waiting")
  /\ UNCHANGED <<backlog, msg, out>>

Take(c) ==
  /\ Goto(c, "waiting", "printing")
  /\ backlog # <<>>
  /\ out' = [out EXCEPT ![c] = Head(backlog)]
  /\ backlog' = Tail(backlog)
  /\ UNCHANGED msg

Printed(c) ==
  /\ Goto(c, "printing", "disposing")
  /\ out' = [out EXCEPT ![c] = NoMessage]
  /\ UNCHANGED <<backlog, msg>>

Dispose(c) ==
  /\ Goto(c, "disposing", "idle")
  /\ UNCHANGED <<backlog, msg, out>>

Next ==
  \/ \E p \in Producers :
       \/ \E m \in Messages : Ask(p, m)
       \/ Admit(p) \/ Refuse(p) \/ Accept(p) \/ Return(p)
  \/ \E c \in Consumers : Wait(c) \/ Take(c) \/ Printed(c) \/ Dispose(c)

Spec == Init /\ [][Next]_vars
=============================================================================
