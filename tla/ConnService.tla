---------------------------- MODULE ConnService ----------------------------
(***************************************************************************)
(* What the event loop of select_poll_epoll/main.c promises its TCP        *)
(* clients, whichever way it waits: a connection is taken up once, its     *)
(* segments are consumed one at a time while it is taken up, and it is let *)
(* go only when its client has ended it and nothing of it is left unread.  *)
(* There are no descriptors here, no interest set and no scan.             *)
(***************************************************************************)
EXTENDS Naturals

CONSTANT Conns

VARIABLES
  phase,   \* "none", "queued", "served" or "released"
  unread,  \* segments sent and not consumed
  ended    \* the client has closed or reset the connection

vars == <<phase, unread, ended>>

Init ==
  /\ phase = [c \in Conns |-> "none"]
  /\ unread = [c \in Conns |-> 0]
  /\ ended = [c \in Conns |-> FALSE]

Move(c, from, to) ==
  /\ phase[c] = from
  /\ phase' = [phase EXCEPT ![c] = to]
  /\ UNCHANGED <<unread, ended>>

Arrive(c) == Move(c, "none", "queued")
TakeUp(c) == Move(c, "queued", "served")
Release(c) == ended[c] /\ unread[c] = 0 /\ Move(c, "served", "released")

Send(c) ==
  /\ phase[c] \in {"queued", "served"} /\ ~ ended[c]
  /\ unread' = [unread EXCEPT ![c] = @ + 1]
  /\ UNCHANGED <<phase, ended>>

Consume(c) ==
  /\ phase[c] = "served" /\ unread[c] > 0
  /\ unread' = [unread EXCEPT ![c] = @ - 1]
  /\ UNCHANGED <<phase, ended>>

End(c) ==
  /\ phase[c] \in {"queued", "served"} /\ ~ ended[c]
  /\ ended' = [ended EXCEPT ![c] = TRUE]
  /\ UNCHANGED <<phase, unread>>

Next == \E c \in Conns : \/ Arrive(c) \/ TakeUp(c) \/ Release(c)
                         \/ Send(c) \/ Consume(c) \/ End(c)

Spec == Init /\ [][Next]_vars
=============================================================================
