------------------------------ MODULE UdpPairs ------------------------------
(***************************************************************************)
(* A client and a server that exchange datagrams and repeat nothing:       *)
(*   echo       client_udp and server_udp of udp_tcp_client_server/main.c  *)
(*   time       client of udp_client_server/main.c, with any server that   *)
(*              answers                                                    *)
(*   raw        client_udp and server_udp of raw_socket/main.c             *)
(*   broadcast  broadcast_server, here the client, and broadcast_client,   *)
(*              here the server, of broadcast_multicast/main.c             *)
(* In the last two nothing is answered. Datagrams are lost, duplicated and *)
(* overtaken; a stranger may send some; and the port blocking module       *)
(* (core/netfilter/port_block) may be loaded on the hosts meanwhile.       *)
(***************************************************************************)
EXTENDS Naturals

CONSTANTS
  Kinds,     \* the pairs that are considered
  MaxExtra,  \* how many datagrams are duplicated or come from the stranger
  Room       \* datagrams of a kind that the network, or a socket, holds

ASSUME PairsAssumption == MaxExtra \in Nat /\ Room \in Nat

Ends == {"client", "server", "stranger"}
Links == Ends \X Ends

VARIABLES
  kind,
  blocked,  \* the server's port is 7777
  hooked,   \* the port blocking module is loaded
  cpc,      \* "send", "recv" or "over"
  addr,     \* where the client sends
  running,  \* of the time client; a signal clears it
  spc,      \* "recv" or "reply"
  caddr,    \* who sent what the server received last
  net,      \* how many datagrams are on their way, by sender and receiver
  queue,    \* how many wait in the receiver's socket
  extra     \* history: datagrams duplicated or sent by the stranger

udpVars == <<kind, blocked, hooked, cpc, addr, running, spc, caddr, net,
             queue, extra>>

None == [l \in Links |-> 0]
Put(bag, l) == [bag EXCEPT ![l] = IF @ < Room THEN @ + 1 ELSE @]
Take(bag, l) == [bag EXCEPT ![l] = @ - 1]

UdpInit ==
  /\ kind \in Kinds /\ blocked \in BOOLEAN /\ hooked \in BOOLEAN
  /\ cpc = "send" /\ addr = "server" /\ running = TRUE
  /\ spc = "recv" /\ caddr = "stranger"
  /\ net = None /\ queue = None /\ extra = 0

(* A client that gets answers waits for one, without a timeout. The clients*)
(* of raw_socket and broadcast_multicast only send.                        *)
ClientSend ==
  /\ cpc = "send"
  /\ net' = Put(net, <<"client", addr>>)
  /\ cpc' = IF kind \in {"echo", "time"} THEN "recv" ELSE "send"
  /\ UNCHANGED <<kind, blocked, hooked, addr, running, spc, caddr, queue, extra>>

(* Whoever sent it: the echo client goes on with that address, because     *)
(* recvfrom writes into the one it sends to. The time client passes a      *)
(* length that is no pointer; recvfrom fails, after the data has been      *)
(* copied and without an address. The loop then looks at running.          *)
ClientRecv(from) ==
  /\ cpc = "recv" /\ queue[<<from, "client">>] > 0
  /\ queue' = Take(queue, <<from, "client">>)
  /\ addr' = IF kind = "echo" THEN from ELSE addr
  /\ cpc' = IF kind = "time" /\ ~ running THEN "over" ELSE "send"
  /\ UNCHANGED <<kind, blocked, hooked, running, spc, caddr, net, extra>>

(* SIGINT or SIGTERM: recvfrom is resumed, the loop tests running later.   *)
StopClient ==
  /\ kind = "time" /\ running /\ running' = FALSE
  /\ UNCHANGED <<kind, blocked, hooked, cpc, addr, spc, caddr, net, queue, extra>>

(* Mutant: the server listens to the sender of the last datagram only.     *)
ServerRecvSame(from) ==
  /\ spc = "recv" /\ queue[<<from, "server">>] > 0 /\ from = caddr
  /\ queue' = Take(queue, <<from, "server">>)
  /\ spc' = IF kind \in {"echo", "time"} THEN "reply" ELSE "recv"
  /\ UNCHANGED <<kind, blocked, hooked, cpc, addr, running, caddr, net, extra>>

ServerRecv(from) ==
  /\ spc = "recv" /\ queue[<<from, "server">>] > 0
  /\ queue' = Take(queue, <<from, "server">>)
  /\ caddr' = from
  /\ spc' = IF kind \in {"echo", "time"} THEN "reply" ELSE "recv"
  /\ UNCHANGED <<kind, blocked, hooked, cpc, addr, running, net, extra>>

(* Mutant: the answer goes out and the server remains where it is.         *)
ServerReplyTwice ==
  /\ spc = "reply"
  /\ net' = Put(net, <<"server", caddr>>)
  /\ UNCHANGED <<kind, blocked, hooked, cpc, addr, running, spc, caddr, queue, extra>>

ServerReply ==
  /\ spc = "reply" /\ spc' = "recv"
  /\ net' = Put(net, <<"server", caddr>>)
  /\ UNCHANGED <<kind, blocked, hooked, cpc, addr, running, caddr, queue, extra>>

-----------------------------------------------------------------------------
(* m_filter_port, run for what comes in: the source or the destination     *)
(* port is 7777. What leaves is not looked at.                             *)
Dropped(l) == hooked /\ blocked /\ "server" \in {l[1], l[2]}

Deliver(l) ==
  /\ net[l] > 0
  /\ net' = Take(net, l)
  /\ queue' = IF Dropped(l) THEN queue ELSE Put(queue, l)
  /\ UNCHANGED <<kind, blocked, hooked, cpc, addr, running, spc, caddr, extra>>

Lose(l) ==
  /\ net[l] > 0 /\ net' = Take(net, l)
  /\ UNCHANGED <<kind, blocked, hooked, cpc, addr, running, spc, caddr, queue, extra>>

(* The network repeats a datagram, or the stranger sends one.              *)
Extra(l) ==
  /\ extra < MaxExtra /\ extra' = extra + 1
  /\ net[l] > 0 \/ l \in {"stranger"} \X {"client", "server"}
  /\ net' = Put(net, l)
  /\ UNCHANGED <<kind, blocked, hooked, cpc, addr, running, spc, caddr, queue>>

(* m_init_module and m_cleanup_module of port_block.                       *)
LoadOrUnload ==
  /\ hooked' = ~ hooked
  /\ UNCHANGED <<kind, blocked, cpc, addr, running, spc, caddr, net, queue, extra>>

ClientStep == ClientSend \/ \E e \in Ends : ClientRecv(e)
ServerStep == ServerReply \/ \E e \in Ends : ServerRecv(e)

UdpNext ==
  \/ ClientStep \/ ServerStep \/ StopClient \/ LoadOrUnload
  \/ \E l \in Links : Deliver(l) \/ Lose(l) \/ Extra(l)

UdpSpec == UdpInit /\ [][UdpNext]_udpVars

-----------------------------------------------------------------------------
(* What can still become an answer for the client: datagrams that move     *)
(* between it and a server that answers, and the request being answered.   *)
Alive ==
  LET Out(l) == net[l] + queue[l]
  IN Out(<<"client", "server">>) + Out(<<"server", "client">>)
     + Out(<<"client", "client">>) + Out(<<"server", "server">>)
     + Out(<<"stranger", "client">>)
     + (IF spc = "reply" /\ caddr = "client" THEN 1 ELSE 0)

(* Client and server pass a single token: besides what the network or a    *)
(* stranger added, a request is out only while the client waits for it.    *)
OneOutstanding ==
  kind \in {"echo", "time"}
    => Alive <= extra + (IF cpc = "recv" THEN 1 ELSE 0)

(* A waiting client gets something, or nothing is left that it could get:  *)
(* a lost or blocked datagram makes it wait for ever, and the echo client  *)
(* that a stranger has redirected waits for the stranger.                  *)
AnsweredOrLost == (cpc = "recv") ~> (cpc # "recv" \/ Alive = 0)
=============================================================================
