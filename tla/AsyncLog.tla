------------------------------ MODULE AsyncLog ------------------------------
(***************************************************************************)
(* What eg_log promises to the threads that log: each channel prints what  *)
(* was logged to it, whole, once, in the order of acceptance; and a        *)
(* message of the second channel is printed only when the first one had    *)
(* nothing to print the last time the printing thread looked.              *)
(*                                                                         *)
(* EgLog is shown to implement this specification.                         *)
(***************************************************************************)
EXTENDS Naturals, Sequences

CONSTANTS Loggers,     \* threads that log
          Texts,       \* what they log
          NoText,
          First, Second \* the channels, in the order the printer prefers

VARIABLES backlog,     \* backlog[q]: accepted and not yet taken
          visible,     \* visible[q]: how many of them the printer can see
          call,        \* call[t]: what t is logging, or NoCall
          printing,    \* the text being printed, or NoText
          sawNone      \* it saw nothing in First the last time it looked

vars == <<backlog, visible, call, printing, sawNone>>

Channels == {First, Second}
NoCall == [on |-> First, text |-> NoText]

Init ==
  /\ backlog = [q \in Channels |-> <<>>]
  /\ visible = [q \in Channels |-> 0]
  /\ call = [t \in Loggers |-> NoCall]
  /\ printing = NoText
  /\ sawNone = FALSE

Log(t, q, m) ==
  /\ call[t] = NoCall
  /\ call' = [call EXCEPT ![t] = [on |-> q, text |-> m]]
  /\ UNCHANGED <<backlog, visible, printing, sawNone>>

Accept(t) ==
  /\ call[t] # NoCall
  /\ backlog' = [backlog EXCEPT ![call[t].on] = Append(@, call[t].text)]
  /\ call' = [call EXCEPT ![t] = NoCall]
  /\ UNCHANGED <<visible, printing, sawNone>>

Show(q) ==
  /\ visible[q] < Len(backlog[q])
  /\ visible' = [visible EXCEPT ![q] = @ + 1]
  /\ UNCHANGED <<backlog, call, printing, sawNone>>

LookAtFirst ==
  /\ printing = NoText /\ ~ sawNone
  /\ visible[First] = 0
  /\ sawNone' = TRUE
  /\ UNCHANGED <<backlog, visible, call, printing>>

LookAtSecond ==
  /\ sawNone
  /\ visible[Second] = 0
  /\ sawNone' = FALSE
  /\ UNCHANGED <<backlog, visible, call, printing>>

Take(q) ==
  /\ printing = NoText
  /\ q = Second <=> sawNone
  /\ visible[q] > 0
  /\ printing' = Head(backlog[q])
  /\ backlog' = [backlog EXCEPT ![q] = Tail(@)]
  /\ visible' = [visible EXCEPT ![q] = @ - 1]
  /\ sawNone' = FALSE
  /\ UNCHANGED call

Printed ==
  /\ printing # NoText
  /\ printing' = NoText
  /\ UNCHANGED <<backlog, visible, call, sawNone>>

Next ==
  \/ \E t \in Loggers :
       \/ \E q \in Channels, m \in Texts : Log(t, q, m)
       \/ Accept(t)
  \/ \E q \in Channels : Show(q) \/ Take(q)
  \/ LookAtFirst \/ LookAtSecond \/ Printed

Spec == Init /\ [][Next]_vars
=============================================================================
