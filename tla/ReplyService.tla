---------------------------- MODULE ReplyService ----------------------------
(***************************************************************************)
(* What the UDP time server of udp_client_server/main.c promises about a   *)
(* request: it is answered, refused or lost once and for good, a reply     *)
(* goes to the client that asked or to nobody, and while the first process *)
(* serves no request is lost and none is answered again. There are no      *)
(* threads, queues, buffers or restarts here.                              *)
(***************************************************************************)

CONSTANTS Reqs, Source, NoAddr

VARIABLES
  fate,     \* what has become of each request
  replies,  \* the replies given, each with the address it was sent to
  mode      \* "starting", "serving", and "failing" for ever after

vars == <<fate, replies, mode>>

Init ==
  /\ fate = [r \in Reqs |-> "new"]
  /\ replies = {}
  /\ mode = "starting"

Settle(r, from, to) ==
  /\ fate[r] = from
  /\ fate' = [fate EXCEPT ![r] = to]

(* A reply to r as it may be sent.                                         *)
Replies(r) == {<<r, a>> : a \in {Source[r], NoAddr}}

Arrive(r) ==
  /\ mode # "starting"
  /\ Settle(r, "new", "pending")
  /\ UNCHANGED replies

Answer(r) ==
  /\ Settle(r, "pending", "answered")
  /\ \E m \in Replies(r) : replies' = replies \cup {m}

Refuse(r) ==
  /\ Settle(r, "pending", "refused")
  /\ UNCHANGED replies

(* A failure takes any number of requests at once.                         *)
Lose(S) ==
  /\ mode' = "failing"
  /\ \A r \in S : fate[r] = "pending"
  /\ fate' = [r \in Reqs |-> IF r \in S THEN "lost" ELSE fate[r]]
  /\ UNCHANGED replies

(* Once a failure has made a thread use an old buffer again, its request   *)
(* may be answered any number of times.                                    *)
Repeat(r) ==
  /\ fate[r] # "new"
  /\ fate[r] = "repeated" \/ mode' = "failing"
  /\ fate' = [fate EXCEPT ![r] = "repeated"]
  /\ \E S \in SUBSET Replies(r) : replies' = replies \cup S

Next ==
  /\ mode' = mode \/ mode = "starting" \/ mode' = "failing"
  /\ \/ UNCHANGED <<fate, replies>>
     \/ \E r \in Reqs : Arrive(r) \/ Answer(r) \/ Refuse(r) \/ Repeat(r)
     \/ \E S \in SUBSET Reqs : Lose(S)

Spec == Init /\ [][Next]_vars
=============================================================================
