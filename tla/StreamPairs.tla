---------------------------- MODULE StreamPairs ----------------------------
(***************************************************************************)
(* Two processes joined by a stream with bounded buffers:                  *)
(*   tcp   client_tcp and server_tcp of udp_tcp_client_server/main.c; the  *)
(*         server echoes, the client never reads (lines 181-188)           *)
(*   sctp  client and server of sctp/main.c; the server only reads         *)
(*   pipe  parent and child of pipe/main.c; one message                    *)
(* Either process may be killed. Amounts are in units of a full buffer of  *)
(* 256 bytes as the programs send them.                                    *)
(***************************************************************************)
EXTENDS Naturals

CONSTANTS
  Pairs,  \* the pairs that are considered
  Cap     \* units the stream holds in each direction

ASSUME StreamAssumption == Pairs \subseteq {"tcp", "sctp", "pipe"} /\ Cap \in Nat \ {0}

VARIABLES
  pair,
  sender,    \* "start", "send", "wait" (the parent in wait()), "gone"
  receiver,  \* "start", "recv", "echo" (the server in send()), "over"
  holders,   \* who has the writing end of the stream open
  forth,     \* units on their way to the receiver
  back,      \* units on their way back
  reset      \* the receiver's end of the connection was reset

streamVars == <<pair, sender, receiver, holders, forth, back, reset>>

(* The server listens; pipe() and fork() leave both ends with both.        *)
StreamInit ==
  /\ pair \in Pairs
  /\ sender = "start" /\ receiver = "start"
  /\ holders = IF pair = "pipe" THEN {"sender", "receiver"} ELSE {"sender"}
  /\ forth = 0 /\ back = 0 /\ reset = FALSE

(* connect; or the parent closes the end it does not use.                  *)
StartSender ==
  /\ sender = "start" /\ sender' = "send"
  /\ UNCHANGED <<pair, receiver, holders, forth, back, reset>>

(* Mutant: the child keeps its copy of fd[1].                              *)
StartReceiverHolds ==
  /\ receiver = "start" /\ receiver' = "recv"
  /\ pair # "pipe" => sender # "start"
  /\ UNCHANGED <<pair, sender, holders, forth, back, reset>>

(* accept; or the child closes fd[1].                                      *)
StartReceiver ==
  /\ receiver = "start" /\ receiver' = "recv"
  /\ pair # "pipe" => sender # "start"
  /\ holders' = holders \ {"receiver"}
  /\ UNCHANGED <<pair, sender, forth, back, reset>>

(* A blocking send; the parent closes its end and waits for its child.     *)
Send ==
  /\ sender = "send" /\ receiver # "over" /\ forth < Cap
  /\ forth' = forth + 1
  /\ sender' = IF pair = "pipe" THEN "wait" ELSE "send"
  /\ holders' = IF pair = "pipe" THEN holders \ {"sender"} ELSE holders
  /\ UNCHANGED <<pair, receiver, back, reset>>

(* die(), or SIGPIPE: nobody reads any more.                               *)
SendFails ==
  /\ sender = "send" /\ receiver = "over"
  /\ sender' = "gone" /\ holders' = holders \ {"sender"}
  /\ UNCHANGED <<pair, receiver, forth, back, reset>>

WaitChild ==
  /\ sender = "wait" /\ receiver = "over"
  /\ sender' = "gone"
  /\ UNCHANGED <<pair, receiver, holders, forth, back, reset>>

(* Mutant: what was read is not sent back.                                 *)
RecvOnly ==
  /\ receiver = "recv" /\ forth > 0
  /\ forth' = forth - 1
  /\ receiver' = IF pair = "pipe" THEN "over" ELSE "recv"
  /\ UNCHANGED <<pair, sender, holders, back, reset>>

(* One buffer is read. The TCP server then sends it back, the child exits. *)
Recv ==
  /\ receiver = "recv" /\ forth > 0
  /\ forth' = forth - 1
  /\ receiver' = CASE pair = "tcp" -> "echo" [] pair = "sctp" -> "recv"
                   [] pair = "pipe" -> "over"
  /\ UNCHANGED <<pair, sender, holders, back, reset>>

AtEnd == receiver = "recv" /\ forth = 0 /\ holders = {}

(* The end of the stream. The SCTP server closes and returns, the child    *)
(* exits, and a reset makes both servers die. The TCP server alone takes   *)
(* no notice of recv returning 0: it sends nothing and calls recv again.   *)
RecvEnd ==
  /\ AtEnd /\ (pair = "tcp" => reset)
  /\ receiver' = "over"
  /\ UNCHANGED <<pair, sender, holders, forth, back, reset>>

(* A blocking send of what was read. A client that is gone answers the     *)
(* first with a reset, which makes the next one fatal.                     *)
Echo ==
  /\ receiver = "echo" /\ receiver' = "recv"
  /\ \/ /\ sender # "gone" /\ back < Cap
        /\ back' = back + 1 /\ UNCHANGED reset
     \/ /\ sender = "gone" /\ ~ reset
        /\ reset' = TRUE /\ UNCHANGED back
  /\ UNCHANGED <<pair, sender, holders, forth>>

EchoFails ==
  /\ receiver = "echo" /\ reset
  /\ receiver' = "over"
  /\ UNCHANGED <<pair, sender, holders, forth, back, reset>>

(* A killed client with unread data in its socket resets the connection.   *)
KillSender ==
  /\ sender \in {"send", "wait"}
  /\ sender' = "gone" /\ holders' = holders \ {"sender"}
  /\ reset' = (reset \/ back > 0)
  /\ UNCHANGED <<pair, receiver, forth, back>>

KillReceiver ==
  /\ receiver # "over"
  /\ receiver' = "over" /\ holders' = holders \ {"receiver"}
  /\ UNCHANGED <<pair, sender, forth, back, reset>>

SenderStep == StartSender \/ Send \/ SendFails \/ WaitChild
ReceiverStep == StartReceiver \/ Recv \/ RecvEnd \/ Echo \/ EchoFails

StreamNext == SenderStep \/ ReceiverStep \/ KillSender \/ KillReceiver

StreamSpec == StreamInit /\ [][StreamNext]_streamVars

-----------------------------------------------------------------------------
(* Nobody holds a writing end that nobody will write to, so that a         *)
(* receiver always sees the end of the stream when its sender is gone; and *)
(* a parent in wait() has a child that has ended or has a message to read. *)
NobodyStranded ==
  /\ (sender = "gone" /\ receiver \in {"recv", "echo"}) => holders = {}
  /\ (pair = "pipe" /\ sender = "wait") => receiver = "over" \/ forth > 0

(* Both directions are full and each process waits for the other.          *)
Jammed == /\ receiver = "echo" /\ back = Cap
          /\ sender = "send" /\ forth = Cap

(* The TCP pair as it stands, with the client's recv commented out, always *)
(* runs into a deadlock: the echoes nobody reads fill one buffer, then the *)
(* client's data fills the other. Only a kill prevents it.                 *)
EchoJams ==
  (pair = "tcp" /\ sender = "send")
    ~> (Jammed \/ sender = "gone" \/ receiver = "over")

(* When the sender is gone the receiver ends too, whatever it was doing,   *)
(* and the parent always gets its child back. The exception is the TCP     *)
(* server after an orderly close, which calls recv for ever.               *)
PairEnds ==
  /\ (sender = "gone")
       ~> (receiver = "over" \/ (pair = "tcp" /\ AtEnd /\ ~ reset))
  /\ (pair = "pipe" /\ sender # "start")
       ~> (sender = "gone" /\ receiver = "over")
=============================================================================
