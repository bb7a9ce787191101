------------------------------ MODULE IcmpTools ------------------------------
(***************************************************************************)
(* ping/main.c and traceroute/main.c running on one host. Both send echo   *)
(* requests on a raw ICMP socket and wait with select() for an answer; the *)
(* kernel gives a copy of every ICMP packet to every raw socket, so each   *)
(* process also sees the answers meant for the others, and whatever other  *)
(* ICMP traffic the host gets. The network loses, duplicates, delays and   *)
(* reorders. An answer that comes after the timeout is found in the socket *)
(* by the next round.                                                      *)
(*                                                                         *)
(* select() counts tmp_timeout down while it sleeps, and only then: a      *)
(* socket that is ready is read, be the time over or not, and a packet     *)
(* that is passed over leaves to the next select() what was left.          *)
(***************************************************************************)
EXTENDS Naturals, Sequences

CONSTANTS
  Procs,      \* the processes
  Kind,       \* "ping" or "traceroute" for each process
  Ident,      \* getpid() of a ping, getppid() of a traceroute
  Distance,   \* routers up to the destination, itself included
  MaxTtl,     \* traceroute's -t option: the loop is i < ttl
  timeout,    \* the time a round may sleep, in ticks of a clock
  Stranger,   \* whoever sends the host other ICMP packets
  MaxRounds,  \* bound: echo requests a ping sends
  MaxCopies,  \* bound: packets the network duplicates
  MaxForeign  \* bound: packets in a socket that gets one more of the stranger's

ASSUME IcmpAssumption ==
  /\ Kind \in [Procs -> {"ping", "traceroute"}]
  /\ Ident \in [Procs -> Nat]
  /\ Distance \in Nat \ {0} /\ MaxTtl \in Nat \ {0}
  /\ timeout \in Nat /\ Stranger \notin Procs
  /\ MaxRounds \in Nat /\ MaxCopies \in Nat /\ MaxForeign \in Nat

Word == 65536  \* identifiers and sequence numbers have 16 bits

VARIABLES
  pc,        \* "sleep", "send", "wait" or "done"
  seq,       \* the global seq of each process
  total,     \* ping's count of answers
  tmp_timeout, \* what select() has left of the timeout
  sockq,     \* packets waiting in each raw socket, none once it is closed
  net,       \* answers under way
  copies,    \* duplicates made so far
  requests,  \* history: calls of sendto
  timeouts,  \* history: rounds that ended with "timeout..."
  accepted,  \* history: what each round took as its answer
  lines      \* traceroute's output: the router each line names

toolVars == <<seq, total, tmp_timeout>>
vars == <<pc, toolVars, sockq, net, copies, requests, timeouts, accepted, lines>>

Pings == {p \in Procs : Kind[p] = "ping"}
Traces == {p \in Procs : Kind[p] = "traceroute"}

(* The largest sequence number a process may use.                          *)
Rounds(p) == IF Kind[p] = "ping" THEN MaxRounds ELSE MaxTtl - 1

(* An answer: type 0 from the destination or 11 from a router on the way;  *)
(* or a request of the stranger, of type 8. by and round are ghosts: the   *)
(* request a packet answers.                                               *)
Packet == [type : {0, 8, 11}, id : 0 .. Word - 1, hop : 1 .. Distance,
           by : Procs \cup {Stranger}, round : Nat]

TypeOK ==
  /\ pc \in [Procs -> {"sleep", "send", "wait", "done"}]
  /\ seq \in [Procs -> Nat] /\ \A p \in Procs : seq[p] <= Rounds(p)
  /\ total \in [Procs -> Nat]
  /\ tmp_timeout \in [Procs -> 0 .. timeout]
  /\ sockq \in [Procs -> Seq(Packet)]
  /\ net \subseteq Packet
  /\ copies \in 0 .. MaxCopies
  /\ requests \in [Procs -> Nat]
  /\ timeouts \in [Procs -> Nat]
  /\ \A p \in Procs : accepted[p] \subseteq (Nat \X Packet)
  /\ lines \in [Procs -> Seq(1 .. Distance)]

Init ==
  /\ pc = [p \in Procs |-> "sleep"]
  /\ seq = [p \in Procs |-> 0]
  /\ total = [p \in Procs |-> 0]
  /\ tmp_timeout = [p \in Procs |-> timeout]
  /\ sockq = [p \in Procs |-> <<>>]
  /\ net = {}
  /\ copies = 0
  /\ requests = [p \in Procs |-> 0]
  /\ timeouts = [p \in Procs |-> 0]
  /\ accepted = [p \in Procs |-> {}]
  /\ lines = [p \in Procs |-> <<>>]

-----------------------------------------------------------------------------
(* The main loops.                                                         *)

(* sleep(1), then seq++.                                                   *)
PingRound(p) ==
  /\ Kind[p] = "ping" /\ pc[p] = "sleep"
  /\ seq[p] < MaxRounds
  /\ seq' = [seq EXCEPT ![p] = @ + 1]
  /\ pc' = [pc EXCEPT ![p] = "send"]
  /\ UNCHANGED <<total, tmp_timeout, sockq, net, copies, requests, timeouts, accepted, lines>>

(* for (i = 1; i < ttl; ++i): sleep(1), seq = i; or the end of main().     *)
TraceRound(p) ==
  /\ Kind[p] = "traceroute" /\ pc[p] = "sleep"
  /\ \/ /\ seq[p] + 1 < MaxTtl
        /\ seq' = [seq EXCEPT ![p] = @ + 1]
        /\ pc' = [pc EXCEPT ![p] = "send"]
        /\ UNCHANGED sockq
     \/ /\ seq[p] + 1 >= MaxTtl
        /\ pc' = [pc EXCEPT ![p] = "done"]
        /\ sockq' = [sockq EXCEPT ![p] = <<>>]
        /\ UNCHANGED seq
  /\ UNCHANGED <<total, tmp_timeout, net, copies, requests, timeouts, accepted, lines>>

(* Mutant: IP_TTL is not set.                                              *)
AnswerDefaultTtl(p) ==
  [type |-> 0, id |-> Ident[p] % Word, hop |-> Distance, by |-> p, round |-> seq[p]]

(* What comes back: traceroute sets IP_TTL to seq, ping leaves it alone.   *)
Answer(p) ==
  IF Kind[p] = "traceroute" /\ seq[p] < Distance
  THEN [type |-> 11, id |-> 0, hop |-> seq[p], by |-> p, round |-> seq[p]]
  ELSE [type |-> 0, id |-> Ident[p] % Word, hop |-> Distance, by |-> p,
        round |-> seq[p]]

(* tmp_timeout = timeout, then sendto; the answer is under way.            *)
SendTo(p) ==
  /\ pc[p] = "send"
  /\ tmp_timeout' = [tmp_timeout EXCEPT ![p] = timeout]
  /\ net' = net \cup {Answer(p)}
  /\ requests' = [requests EXCEPT ![p] = @ + 1]
  /\ pc' = [pc EXCEPT ![p] = "wait"]
  /\ UNCHANGED <<seq, total, sockq, copies, timeouts, accepted, lines>>

(* select() sleeps, the time it has left gets shorter.                     *)
Tick(p) ==
  /\ pc[p] = "wait" /\ sockq[p] = <<>> /\ tmp_timeout[p] > 0
  /\ tmp_timeout' = [tmp_timeout EXCEPT ![p] = @ - 1]
  /\ UNCHANGED <<pc, seq, total, sockq, net, copies, requests, timeouts, accepted, lines>>

(* No time is left and there is nothing to read: select() returns 0.       *)
Timeout(p) ==
  /\ pc[p] = "wait" /\ sockq[p] = <<>> /\ tmp_timeout[p] = 0
  /\ timeouts' = [timeouts EXCEPT ![p] = @ + 1]
  /\ pc' = [pc EXCEPT ![p] = "sleep"]
  /\ UNCHANGED <<toolVars, sockq, net, copies, requests, accepted, lines>>

(* Mutant: any echo reply will do.                                         *)
MineByType(p, m) == m.type = 0

(* The identifier of an echo reply is compared with the whole pid.         *)
Mine(p, m) == m.type = 0 /\ m.id = Ident[p]

(* Mutant: ping takes messages of type 11, too.                            *)
WantedByAll(p, m) == Mine(p, m) \/ m.type = 11

(* What ends a round: our echo reply, and for traceroute any message of    *)
(* type 11.                                                                *)
Wanted(p, m) == Mine(p, m) \/ (Kind[p] = "traceroute" /\ m.type = 11)

Taken(p) == accepted' = [accepted EXCEPT ![p] = @ \cup {<<seq[p], Head(sockq[p])>>}]

(* Mutant: ping goes on reading after an answer.                           *)
PingAcceptAndWait(p) ==
  /\ Kind[p] = "ping" /\ pc[p] = "wait" /\ sockq[p] # <<>>
  /\ Wanted(p, Head(sockq[p])) /\ Taken(p)
  /\ total' = [total EXCEPT ![p] = @ + 1]
  /\ sockq' = [sockq EXCEPT ![p] = Tail(@)]
  /\ UNCHANGED <<pc, seq, tmp_timeout, net, copies, requests, timeouts, lines>>

(* recvfrom finds an answer ping wants: it is counted and the round ends.  *)
PingAccept(p) ==
  /\ Kind[p] = "ping" /\ pc[p] = "wait" /\ sockq[p] # <<>>
  /\ Wanted(p, Head(sockq[p])) /\ Taken(p)
  /\ total' = [total EXCEPT ![p] = @ + 1]
  /\ pc' = [pc EXCEPT ![p] = "sleep"]
  /\ sockq' = [sockq EXCEPT ![p] = Tail(@)]
  /\ UNCHANGED <<seq, tmp_timeout, net, copies, requests, timeouts, lines>>

(* recvfrom finds an answer traceroute wants: its sender is printed; an    *)
(* echo reply ends the program, a message of type 11 the round.            *)
TraceAccept(p) ==
  /\ Kind[p] = "traceroute" /\ pc[p] = "wait" /\ sockq[p] # <<>>
  /\ Wanted(p, Head(sockq[p])) /\ Taken(p)
  /\ lines' = [lines EXCEPT ![p] = Append(@, Head(sockq[p]).hop)]
  /\ \/ /\ Head(sockq[p]).type = 0
        /\ pc' = [pc EXCEPT ![p] = "done"]
        /\ sockq' = [sockq EXCEPT ![p] = <<>>]
     \/ /\ Head(sockq[p]).type = 11
        /\ pc' = [pc EXCEPT ![p] = "sleep"]
        /\ sockq' = [sockq EXCEPT ![p] = Tail(@)]
  /\ UNCHANGED <<toolVars, net, copies, requests, timeouts>>

(* Mutant: each select() is given the whole timeout.                       *)
IgnoreRestarts(p) ==
  /\ pc[p] = "wait" /\ sockq[p] # <<>>
  /\ ~ Wanted(p, Head(sockq[p]))
  /\ sockq' = [sockq EXCEPT ![p] = Tail(@)]
  /\ tmp_timeout' = [tmp_timeout EXCEPT ![p] = timeout]
  /\ UNCHANGED <<pc, seq, total, net, copies, requests, timeouts, accepted, lines>>

(* recvfrom finds anything else: continue, with the time that is left.     *)
Ignore(p) ==
  /\ pc[p] = "wait" /\ sockq[p] # <<>>
  /\ ~ Wanted(p, Head(sockq[p]))
  /\ sockq' = [sockq EXCEPT ![p] = Tail(@)]
  /\ UNCHANGED <<pc, toolVars, net, copies, requests, timeouts, accepted, lines>>

(* SIGINT or SIGTERM: the counts are printed as they are at that moment.   *)
Interrupt(p) ==
  /\ pc[p] # "done"
  /\ pc' = [pc EXCEPT ![p] = "done"]
  /\ sockq' = [sockq EXCEPT ![p] = <<>>]
  /\ UNCHANGED <<toolVars, net, copies, requests, timeouts, accepted, lines>>

-----------------------------------------------------------------------------
(* The network and the kernel (external).                                  *)

(* A packet arrives, once more perhaps, at every raw socket. A packet that *)
(* is lost stays in net.                                                   *)
Deliver(m) ==
  /\ sockq' = [p \in Procs |-> IF pc[p] = "done" THEN <<>> ELSE Append(sockq[p], m)]
  /\ \/ net' = net \ {m} /\ UNCHANGED copies
     \/ copies < MaxCopies /\ copies' = copies + 1 /\ UNCHANGED net
  /\ UNCHANGED <<pc, toolVars, requests, timeouts, accepted, lines>>

(* A packet nobody here waits for arrives at every raw socket that has room*)
(* for it, any number of times. Behind other packets it would be found as  *)
(* if it had arrived when they had been read.                              *)
Other == [type |-> 8, id |-> 0, hop |-> Distance, by |-> Stranger, round |-> 0]

HasRoom(p) == pc[p] # "done" /\ Len(sockq[p]) < MaxForeign

Foreign ==
  /\ \E p \in Procs : HasRoom(p)
  /\ sockq' = [p \in Procs |-> IF HasRoom(p) THEN Append(sockq[p], Other) ELSE sockq[p]]
  /\ UNCHANGED <<pc, toolVars, net, copies, requests, timeouts, accepted, lines>>

-----------------------------------------------------------------------------
Step(p) == \/ PingRound(p) \/ TraceRound(p) \/ SendTo(p) \/ Tick(p) \/ Timeout(p)
           \/ PingAccept(p) \/ TraceAccept(p) \/ Ignore(p)

Next == \/ \E p \in Procs : Step(p) \/ Interrupt(p)
        \/ \E m \in net : Deliver(m)
        \/ Foreign

Spec == Init /\ [][Next]_vars

(* Each process is scheduled, and its clock runs. Nothing is assumed of    *)
(* what arrives.                                                           *)
FairSpec == Spec /\ \A p \in Procs : WF_vars(Step(p))

-----------------------------------------------------------------------------
(* Properties.                                                             *)

(* ping never reports more answers than it sent requests, though copies of *)
(* an answer and answers to earlier requests are counted, and whenever the *)
(* signal handler interrupts it.                                           *)
ReceivedAtMostSent == \A p \in Pings : total[p] <= requests[p]

Distinct == \A p, q \in Procs : Ident[p] % Word = Ident[q] % Word => p = q

(* As long as no two identifiers agree in their low 16 bits, an echo reply *)
(* meant for another process is not taken for one's own.                   *)
OwnRepliesOnly ==
  Distinct => \A p \in Procs : \A a \in accepted[p] :
                a[2].type = 0 => a[2].by = p

(* Nothing compares sequence numbers: the answer of a round is the answer  *)
(* to that round's request as long as no round has timed out, no packet    *)
(* was duplicated and, for traceroute, no second one draws type 11 answers.*)
AnswersMatchRounds ==
  \A p \in Procs :
    (Distinct /\ timeouts[p] = 0 /\ copies = 0 /\ (p \in Traces => Traces = {p}))
      => \A a \in accepted[p] : a[2].by = p /\ a[2].round = a[1]

(* Under the same conditions traceroute prints the route, in order.        *)
PrintsTheRoute ==
  \A p \in Traces :
    (Distinct /\ timeouts[p] = 0 /\ copies = 0 /\ Traces = {p})
      => \A k \in DOMAIN lines[p] : lines[p][k] = k

(* The only round that never ends is one that finds a packet it does not   *)
(* want whenever it looks: the time left is never set back by such a packet*)
(* (tmp_timeout is set before the inner loop, ping/main.c:159 and          *)
(* traceroute/main.c:167), so it is used up in any pause, and the first    *)
(* look after that which finds nothing ends the round.                     *)
RoundsEnd ==
  \A p \in Procs :
    <>[](pc[p] = "wait") => []<><<Ignore(p)>>_vars /\ <>[][~ Tick(p)]_vars
=============================================================================
